---------------------------- MODULE ConsoleProofs ----------------------------
(***************************************************************************)
(* Proofs about the pages of the console. One page is shown at a time, so  *)
(* the argument for each is its own: an invariant of the cells while that  *)
(* page is shown (...Inv), which its first state has (...Begins) and every *)
(* step of it keeps (...Keeps), and from which the property follows        *)
(* (...Shows, and a lemma for each predicate on steps). The theorems at    *)
(* the end say so of the console.                                          *)
(***************************************************************************)
EXTENDS Console, Induction, FiniteSetTheorems

-----------------------------------------------------------------------------
\* ---- the dialog that starts a session ----
StarterFields ==
    [mode : {"profile", "custom"}, profile : Startable \cup {Nothing}, engine : BOOLEAN, source : {"none", "typed", "found"},
     chain : Startable \cup {"none", "typed"}, recording : BOOLEAN, access : BOOLEAN, browsing : BOOLEAN, error : BOOLEAN]
StarterBodies ==
    [from : Startable \cup {Nothing, "none", "typed", "found"}, chain : Startable \cup {"none", "typed"}, recording : BOOLEAN]
StarterTyped ==
    /\ c1 \in BOOLEAN /\ c2 \in [open : BOOLEAN, fields : StarterFields] /\ c3 = c2.open
    /\ c4 \in [at : {"idle", "asked", "made", "granted", "failed"}, body : StarterBodies, access : BOOLEAN]
\* While a session is asked for, the dialog stays and shows no error; and
\* unless one was just made, none was, or its answer was lost.
StarterSound ==
    /\ c4.at # "idle" => c2.open /\ c2.fields.error = FALSE
    /\ c2.open /\ c4.at \in {"idle", "asked", "failed"} => c5 = {} \/ c6
StarterInv == StarterTyped /\ StarterSound

LEMMA StarterBegins == Starter!StartInit => StarterInv
<1>1. Starter!Blank \in StarterFields BY DEF Starter!Blank, StarterFields
<1>2. Starter!NoBody \in StarterBodies BY DEF Starter!NoBody, StarterBodies
<1> SUFFICES ASSUME Starter!StartInit PROVE StarterInv OBVIOUS
<1>3. c2 = [open |-> FALSE, fields |-> Starter!Blank] /\ c2.open = FALSE BY DEF Starter!StartInit, Starter!Closed
<1>4. c4 = [at |-> "idle", body |-> Starter!NoBody, access |-> FALSE] BY DEF Starter!StartInit, Starter!NotCreating
<1>5. c3 = c2.open BY <1>3 DEF Starter!StartInit
<1>6. c2 \in [open : BOOLEAN, fields : StarterFields] BY <1>1, <1>3
<1>7. c4 \in [at : {"idle", "asked", "made", "granted", "failed"}, body : StarterBodies, access : BOOLEAN] BY <1>2, <1>4
<1>8. StarterTyped BY <1>5, <1>6, <1>7 DEF Starter!StartInit, StarterTyped
<1> QED BY <1>3, <1>4, <1>8 DEF StarterInv, StarterSound

\* What is picked or typed goes into the fields and nowhere else.
LEMMA StarterSets ==
  ASSUME StarterInv, NEW fields \in StarterFields, fields.error = c2.fields.error, Starter!Sets(fields), Starter!Local
  PROVE  StarterInv'
BY DEF StarterInv, StarterTyped, StarterSound, Starter!Sets, Starter!Local

LEMMA StarterEditsKeep ==
  ASSUME StarterInv, Starter!StarterEdits
  PROVE  StarterInv' /\ UNCHANGED c1
<1>0. c2.fields \in StarterFields BY DEF StarterInv, StarterTyped
<1> DEFINE Edit(fields) == fields \in StarterFields /\ fields.error = c2.fields.error /\ Starter!Sets(fields) /\ Starter!Local
<1> SUFFICES \E fields \in StarterFields : Edit(fields) BY StarterSets DEF Starter!Local
<1> USE <1>0 DEF Starter!Fields
<1>1. CASE Starter!PickMode
  <2>1. Edit([c2.fields EXCEPT !.mode = IF @ = "profile" THEN "custom" ELSE "profile"])
    BY <1>1 DEF Starter!PickMode, StarterFields
  <2> QED BY <2>1
<1>2. CASE Starter!PickProfile
  <2>1. PICK p \in Startable \cup {Nothing} :
            Starter!Sets([c2.fields EXCEPT !.profile = p, !.chain = IF p = Nothing THEN "none" ELSE p])
    BY <1>2 DEF Starter!PickProfile
  <2>2. (IF p = Nothing THEN "none" ELSE p) \in Startable \cup {"none", "typed"} OBVIOUS
  <2>3. Edit([c2.fields EXCEPT !.profile = p, !.chain = IF p = Nothing THEN "none" ELSE p])
    BY <1>2, <2>1, <2>2 DEF Starter!PickProfile, StarterFields
  <2> QED BY <2>3
<1>3. CASE Starter!PickEngine
  <2>1. Edit([c2.fields EXCEPT !.engine = ~@]) BY <1>3 DEF Starter!PickEngine, StarterFields
  <2> QED BY <2>1
<1>4. CASE Starter!PickSource
  <2>1. Edit([c2.fields EXCEPT !.source = "typed"]) BY <1>4 DEF Starter!PickSource, StarterFields
  <2> QED BY <2>1
<1>5. CASE Starter!Browse
  <2>1. Edit([c2.fields EXCEPT !.browsing = TRUE]) BY <1>5 DEF Starter!Browse, StarterFields
  <2> QED BY <2>1
<1>6. CASE Starter!UseFound
  <2>1. Edit([c2.fields EXCEPT !.browsing = FALSE, !.source = "found"]) BY <1>6 DEF Starter!UseFound, StarterFields
  <2> QED BY <2>1
<1>7. CASE Starter!CloseBrowse
  <2>1. Edit([c2.fields EXCEPT !.browsing = FALSE]) BY <1>7 DEF Starter!CloseBrowse, StarterFields
  <2> QED BY <2>1
<1>8. CASE Starter!EditChain
  <2>1. Edit([c2.fields EXCEPT !.chain = "typed"]) BY <1>8 DEF Starter!EditChain, StarterFields
  <2> QED BY <2>1
<1>9. CASE Starter!ToggleRecord
  <2>1. Edit([c2.fields EXCEPT !.recording = ~@]) BY <1>9 DEF Starter!ToggleRecord, StarterFields
  <2> QED BY <2>1
<1>10. CASE Starter!PickAccess
  <2>1. Edit([c2.fields EXCEPT !.access = TRUE]) BY <1>10 DEF Starter!PickAccess, StarterFields
  <2> QED BY <2>1
<1> QED BY <1>1, <1>2, <1>3, <1>4, <1>5, <1>6, <1>7, <1>8, <1>9, <1>10 DEF Starter!StarterEdits

LEMMA StarterKeeps ==
  ASSUME StarterInv, Starter!StartNext PROVE StarterInv' /\ Starter!LateListsWipeNothingStep
<1>e. CASE Starter!StarterEdits BY <1>e, StarterEditsKeep DEF Starter!LateListsWipeNothingStep
<1> USE DEF StarterInv, StarterTyped, StarterSound, StarterFields, StarterBodies, Starter!Sets, Starter!Fields, Starter!Editing, Starter!Busy,
            Starter!LateListsWipeNothingStep, Starter!NotCreating, Starter!NoBody
<1>1. CASE Starter!OpenStarter BY <1>1 DEF Starter!OpenStarter, Starter!FilledIn, Starter!Blank
<1>2. CASE Starter!CloseStarter BY <1>2 DEF Starter!CloseStarter
<1>3. CASE Starter!ProfilesRead BY <1>3 DEF Starter!ProfilesRead
<1>4. CASE Starter!Submit BY <1>4 DEF Starter!Submit, Starter!BodyOf
<1>5. CASE Starter!SessionMade BY <1>5 DEF Starter!SessionMade
<1>6. CASE Starter!CreateRefused BY <1>6 DEF Starter!CreateRefused
<1>7. CASE Starter!AnswerLost BY <1>7 DEF Starter!AnswerLost
<1>8. CASE Starter!GiveAccess BY <1>8 DEF Starter!GiveAccess, Starter!AfterAccess
<1>9. CASE Starter!Created BY <1>9 DEF Starter!Created
<1>10. CASE Starter!CreateFails BY <1>10 DEF Starter!CreateFails
<1> QED BY <1>e, <1>1, <1>2, <1>3, <1>4, <1>5, <1>6, <1>7, <1>8, <1>9, <1>10 DEF Starter!StartNext

LEMMA StarterShows == StarterInv => Starter!StartTypeOK /\ Starter!ErrorMeansNoSession
  BY DEF StarterInv, StarterTyped, StarterSound, StarterFields, StarterBodies, Starter!StartTypeOK, Starter!ErrorMeansNoSession

-----------------------------------------------------------------------------
\* ---- the presets dialog ----
PickableEngines == DOMAIN Modes \cup {Unpicked}
PickableResolvers == DOMAIN Browses \cup {Unpicked}
RowRetries == {PresetProfiles[id].retry : id \in DOMAIN PresetProfiles}
Retries == (UNION {Modes[engine] : engine \in DOMAIN Modes}) \cup RowRetries \cup {Unpicked}
Origins == {"nothing", "row", "typed", "defaults", "found"}
RetryFits(engine, retry) ==
    engine # Unpicked => \/ retry \in Modes[engine] \/ (retry = Unpicked /\ Modes[engine] = {})
                         \/ \E id \in DOMAIN PresetProfiles : PresetProfiles[id].engine = engine /\ PresetProfiles[id].retry = retry
AnyBody ==
    [named : BOOLEAN, engine : PickableEngines, resolver : PickableResolvers, config : [of : PickableResolvers, from : Origins],
     retry : Retries, params : [of : Retries, from : Origins]]
\* The parts of a body fit together.
FitBodies == {b \in AnyBody : b.config.of = b.resolver /\ b.params.of = b.retry /\ RetryFits(b.engine, b.retry)}
\* What was heard, or will be, answers what was asked.
PresetInv ==
    /\ c1 \in [tab : Presets!Tabs \cup {"none"}, editing : BOOLEAN, switcher : BOOLEAN, bodies : [Presets!Tabs -> FitBodies],
               mode : {"resolver", "source"}, picked : DOMAIN Sources \cup {Unpicked}, error : BOOLEAN]
    /\ c2 \in [open : BOOLEAN, query : {"", "term"}, applied : {"", "term"}]
    /\ c5 \in [Presets!Tabs -> FitBodies]
    /\ \A heard \in c3 \cup c4 : heard.asked = heard.answers
    /\ c2.open => c1.tab # "none"

LEMMA EmptyBodyFits == Presets!NoBody \in FitBodies
<1>1. Unpicked \in Retries BY DEF Retries
<1>2. Presets!NoBody \in AnyBody
  BY <1>1 DEF Presets!NoBody, Presets!NoConfig, AnyBody, Origins, PickableEngines, PickableResolvers
<1> QED BY <1>2 DEF Presets!NoBody, Presets!NoConfig, FitBodies, RetryFits

LEMMA NamedFits == ASSUME NEW b \in FitBodies PROVE [b EXCEPT !.named = TRUE] \in FitBodies
  BY DEF FitBodies, AnyBody

LEMMA ConfigFits ==
  ASSUME NEW b \in FitBodies, NEW how \in Origins PROVE [b EXCEPT !.config = [of |-> b.resolver, from |-> how]] \in FitBodies
  BY DEF FitBodies, AnyBody

LEMMA ResolverFits ==
  ASSUME NEW b \in FitBodies, NEW r \in PickableResolvers, NEW how \in Origins
  PROVE  [b EXCEPT !.resolver = r, !.config = [of |-> r, from |-> how]] \in FitBodies
<1> DEFINE a == [b EXCEPT !.resolver = r, !.config = [of |-> r, from |-> how]]
<1>1. b \in AnyBody /\ b.params.of = b.retry /\ RetryFits(b.engine, b.retry) BY DEF FitBodies
<1>2. a \in AnyBody BY <1>1 DEF AnyBody
<1>3. a.resolver = r /\ a.config.of = r /\ a.params = b.params /\ a.engine = b.engine /\ a.retry = b.retry BY <1>1 DEF AnyBody
<1> QED BY <1>1, <1>2, <1>3 DEF FitBodies

LEMMA WithResolverFits ==
  ASSUME NEW b \in FitBodies, NEW r \in PickableResolvers PROVE Presets!WithResolver(b, r) \in FitBodies
  BY ResolverFits DEF Presets!WithResolver, Presets!NoConfig, Presets!Written, Origins

LEMMA RetryBodyFits ==
  ASSUME NEW b \in FitBodies, NEW e \in PickableEngines, NEW mode \in Retries, RetryFits(e, mode)
  PROVE  [Presets!WithRetry(b, mode) EXCEPT !.engine = e] \in FitBodies
<1> DEFINE p == IF mode = Unpicked THEN Presets!NoConfig ELSE Presets!Written(mode, "defaults")
<1>1. p \in [of : Retries, from : Origins] /\ p.of = mode BY DEF Presets!NoConfig, Presets!Written, Origins
<1> DEFINE a == [[b EXCEPT !.retry = mode, !.params = p] EXCEPT !.engine = e]
<1>2. b \in AnyBody /\ b.config.of = b.resolver BY DEF FitBodies
<1> HIDE DEF p
<1>3. a \in AnyBody BY <1>1, <1>2 DEF AnyBody
<1>4. a.config = b.config /\ a.resolver = b.resolver /\ a.params = p /\ a.retry = mode /\ a.engine = e BY <1>2 DEF AnyBody
<1>5. a \in FitBodies BY <1>1, <1>2, <1>3, <1>4 DEF FitBodies
<1> QED BY <1>5 DEF Presets!WithRetry, p

LEMMA WithRetryFits ==
  ASSUME NEW b \in FitBodies, b.engine # Unpicked, NEW mode \in Modes[b.engine] PROVE Presets!WithRetry(b, mode) \in FitBodies
<1>1. b.engine \in DOMAIN Modes /\ mode \in Retries BY DEF FitBodies, AnyBody, PickableEngines, Retries
<1>2. RetryFits(b.engine, mode) BY DEF RetryFits
<1>3. [Presets!WithRetry(b, mode) EXCEPT !.engine = b.engine] \in FitBodies BY <1>1, <1>2, RetryBodyFits DEF PickableEngines
<1>4. b \in AnyBody BY DEF FitBodies
<1>5. [Presets!WithRetry(b, mode) EXCEPT !.engine = b.engine] = Presets!WithRetry(b, mode)
  BY <1>4 DEF AnyBody, Presets!WithRetry
<1> QED BY <1>3, <1>5

LEMMA WithEngineFits ==
  ASSUME NEW b \in FitBodies, NEW e \in PickableEngines PROVE Presets!WithEngine(b, e) \in FitBodies
<1> DEFINE declared == IF e = Unpicked THEN {} ELSE Modes[e]
<1> DEFINE mode == IF "none" \in declared THEN "none" ELSE IF declared = {} THEN Unpicked ELSE CHOOSE m \in declared : TRUE
<1>1. mode \in declared \/ (declared = {} /\ mode = Unpicked) OBVIOUS
<1>2. declared \subseteq Retries BY DEF Retries, PickableEngines
<1>3. Unpicked \in Retries BY DEF Retries
<1>4. RetryFits(e, mode) BY <1>1 DEF RetryFits
<1> HIDE DEF mode, declared
<1>5. mode \in Retries BY <1>1, <1>2, <1>3
<1> QED BY <1>4, <1>5, RetryBodyFits DEF Presets!WithEngine, mode, declared

LEMMA TypedParamsFit ==
  ASSUME NEW b \in FitBodies PROVE [b EXCEPT !.params = Presets!Written(b.params.of, "typed")] \in FitBodies
  BY DEF FitBodies, AnyBody, Presets!Written, Origins

LEMMA RowFits ==
  ASSUME NEW r \in PickableResolvers PROVE Presets!Filled(r) \in FitBodies
<1>1. [Presets!NoBody EXCEPT !.named = TRUE] \in FitBodies BY EmptyBodyFits, NamedFits
<1>2. [[Presets!NoBody EXCEPT !.named = TRUE] EXCEPT !.resolver = r, !.config = [of |-> r, from |-> "row"]] \in FitBodies
  BY <1>1, ResolverFits DEF Origins
<1> QED BY <1>2 DEF Presets!Filled, Presets!Written

LEMMA ProfileFits ==
  ASSUME NEW id \in DOMAIN PresetProfiles
  PROVE  [Presets!Filled(PresetProfiles[id].resolver) EXCEPT !.engine = PresetProfiles[id].engine, !.retry = PresetProfiles[id].retry,
            !.params = Presets!Written(PresetProfiles[id].retry, "row")] \in FitBodies
<1> DEFINE e == PresetProfiles[id].engine   m == PresetProfiles[id].retry   b == Presets!Filled(PresetProfiles[id].resolver)
<1> DEFINE a == [b EXCEPT !.engine = e, !.retry = m, !.params = Presets!Written(m, "row")]
<1>1. b \in AnyBody /\ b.config.of = b.resolver BY RowFits, PresetAssumption DEF FitBodies, PickableResolvers
<1>2. e \in PickableEngines BY PresetAssumption DEF PickableEngines
<1>r. m \in RowRetries BY DEF RowRetries
<1>3. m \in Retries BY <1>r DEF Retries
<1>4. RetryFits(e, m) BY DEF RetryFits
<1>5. Presets!Written(m, "row") \in [of : Retries, from : Origins] /\ Presets!Written(m, "row").of = m
  BY <1>3 DEF Presets!Written, Origins
<1> HIDE DEF b, e, m
<1>6. a \in AnyBody BY <1>1, <1>2, <1>3, <1>5 DEF AnyBody
<1>7. a.engine = e /\ a.retry = m /\ a.params = Presets!Written(m, "row") /\ a.config = b.config /\ a.resolver = b.resolver
  BY <1>1 DEF AnyBody
<1>8. a \in FitBodies BY <1>1, <1>4, <1>5, <1>6, <1>7 DEF FitBodies
<1> QED BY <1>8 DEF a, b, e, m

LEMMA WantedFacts ==
  /\ Presets!Wanted.resolver = Presets!Body.resolver
  /\ Browses[Presets!Body.resolver] = "search" => Presets!Wanted.query = c2.applied
<1> DEFINE r == Presets!Body.resolver   q == IF Browses[r] = "catalog" THEN "" ELSE c2.applied
<1>1. Presets!Wanted = [resolver |-> r, query |-> q] BY DEF Presets!Wanted
<1>2. Browses[r] = "search" => q = c2.applied OBVIOUS
<1> HIDE DEF r, q
<1>3. Presets!Wanted.resolver = r /\ Presets!Wanted.query = q BY <1>1
<1> QED BY <1>2, <1>3 DEF r

\* What is held of the answers answers what is asked now.
LEMMA HeldAnswers == PresetInv => \A heard \in Presets!Held : heard.answers = Presets!Wanted
<1>1. \A heard \in Presets!Held : heard \in c3 /\ heard.asked = Presets!Wanted BY DEF Presets!Held, Presets!Asked
<1> QED BY <1>1 DEF PresetInv

LEMMA PresetBegins == Presets!PresetInit => PresetInv
<1> SUFFICES ASSUME Presets!PresetInit PROVE PresetInv OBVIOUS
<1>1. c1 = Presets!ClosedForm /\ c2 = Presets!NoDrawer /\ c3 = {} /\ c4 = {} /\ c5 = [tab \in Presets!Tabs |-> Presets!NoBody]
  BY DEF Presets!PresetInit
<1> QED BY <1>1, EmptyBodyFits DEF PresetInv, Presets!ClosedForm, Presets!NoDrawer

\* What is filled in goes into the body of the tab that shows.
LEMMA PresetFills ==
  ASSUME PresetInv, Presets!Open, NEW b \in FitBodies, Presets!Fills(b) PROVE PresetInv'
<1>1. c1.tab \in Presets!Tabs BY DEF PresetInv, Presets!Open
<1>2. [c1.bodies EXCEPT ![c1.tab] = b] \in [Presets!Tabs -> FitBodies] BY <1>1 DEF PresetInv
<1>3. c1' = [c1 EXCEPT !.bodies = [c1.bodies EXCEPT ![c1.tab] = b]] BY DEF Presets!Fills, PresetInv
<1> HIDE DEF Presets!Fills
<1>4. UNCHANGED <<c2, c3, c4, c5>> BY DEF Presets!Fills, Presets!Quiet
<1>5. c1'.tab = c1.tab /\ c1' \in [tab : Presets!Tabs \cup {"none"}, editing : BOOLEAN, switcher : BOOLEAN,
              bodies : [Presets!Tabs -> FitBodies], mode : {"resolver", "source"}, picked : DOMAIN Sources \cup {Unpicked}, error : BOOLEAN]
  BY <1>2, <1>3 DEF PresetInv
<1> QED BY <1>4, <1>5 DEF PresetInv

LEMMA ShownBodyFits == ASSUME PresetInv, Presets!Open PROVE Presets!Body \in FitBodies
  BY DEF PresetInv, Presets!Open, Presets!Body

LEMMA DialogOpens ==
  ASSUME PresetInv, Presets!OpenNew \/ Presets!OpenProfile \/ Presets!OpenSource PROVE PresetInv'
<1> DEFINE Empty == [tab \in Presets!Tabs |-> Presets!NoBody]
<1>1. Empty \in [Presets!Tabs -> FitBodies] BY EmptyBodyFits
<1>2. ~Presets!Open /\ ~c2.open /\ UNCHANGED <<c2, c3, c4, c5>>
  BY DEF Presets!OpenNew, Presets!OpenProfile, Presets!OpenSource, Presets!Quiet, PresetInv, Presets!Open
<1>3. SUFFICES c1' \in [tab : Presets!Tabs \cup {"none"}, editing : BOOLEAN, switcher : BOOLEAN, bodies : [Presets!Tabs -> FitBodies],
                        mode : {"resolver", "source"}, picked : DOMAIN Sources \cup {Unpicked}, error : BOOLEAN]
  BY <1>2 DEF PresetInv
<1>4. CASE Presets!OpenNew BY <1>1, <1>4 DEF Presets!OpenNew, Presets!ClosedForm
<1>5. CASE Presets!OpenProfile
  <2>1. PICK id \in DOMAIN PresetProfiles :
            c1' = [Presets!ClosedForm EXCEPT !.tab = "profile", !.editing = TRUE,
                     !.bodies["profile"] = [Presets!Filled(PresetProfiles[id].resolver) EXCEPT
                        !.engine = PresetProfiles[id].engine, !.retry = PresetProfiles[id].retry,
                        !.params = Presets!Written(PresetProfiles[id].retry, "row")]]
    BY <1>5 DEF Presets!OpenProfile
  <2> DEFINE b == [Presets!Filled(PresetProfiles[id].resolver) EXCEPT
                        !.engine = PresetProfiles[id].engine, !.retry = PresetProfiles[id].retry,
                        !.params = Presets!Written(PresetProfiles[id].retry, "row")]
  <2>2. b \in FitBodies BY ProfileFits
  <2> HIDE DEF b
  <2>3. c1' = [Presets!ClosedForm EXCEPT !.tab = "profile", !.editing = TRUE, !.bodies["profile"] = b] BY <2>1 DEF b
  <2> QED BY <1>1, <2>2, <2>3 DEF Presets!ClosedForm, Presets!Tabs
<1>6. CASE Presets!OpenSource
  <2>1. PICK id \in DOMAIN Sources :
            c1' = [Presets!ClosedForm EXCEPT !.tab = "source", !.editing = TRUE, !.bodies["source"] = Presets!Filled(Sources[id])]
    BY <1>6 DEF Presets!OpenSource
  <2>2. Presets!Filled(Sources[id]) \in FitBodies BY RowFits, PresetAssumption DEF PickableResolvers
  <2> QED BY <1>1, <2>1, <2>2 DEF Presets!ClosedForm, Presets!Tabs
<1> QED BY <1>4, <1>5, <1>6

LEMMA FieldsKeepFit ==
  ASSUME PresetInv, \/ Presets!TypePresetName \/ Presets!ChangeResolver \/ Presets!TypeConfig \/ Presets!ChangeEngine
                    \/ Presets!ChangeRetryMode \/ Presets!TypeParams
  PROVE  PresetInv'
<1> DEFINE b == Presets!Body
<1>0. Presets!Open /\ b \in FitBodies
  BY ShownBodyFits DEF Presets!TypePresetName, Presets!ChangeResolver, Presets!TypeConfig, Presets!ChangeEngine, Presets!ChangeRetryMode,
     Presets!TypeParams, Presets!Editable
<1> HIDE DEF b
<1> SUFFICES \E body \in FitBodies : Presets!Fills(body) BY <1>0, PresetFills
<1>1. CASE Presets!TypePresetName BY <1>0, <1>1, NamedFits DEF Presets!TypePresetName, b
<1>2. CASE Presets!ChangeResolver BY <1>0, <1>2, WithResolverFits DEF Presets!ChangeResolver, b, PickableResolvers
<1>3. CASE Presets!TypeConfig
  <2>1. b.config.of = b.resolver BY <1>0 DEF FitBodies
  <2>2. [b EXCEPT !.config = Presets!Written(b.config.of, "typed")] \in FitBodies
    BY <1>0, <2>1, ConfigFits DEF Presets!Written, Origins
  <2> QED BY <1>3, <2>2 DEF Presets!TypeConfig, b
<1>4. CASE Presets!ChangeEngine BY <1>0, <1>4, WithEngineFits DEF Presets!ChangeEngine, b, PickableEngines
<1>5. CASE Presets!ChangeRetryMode BY <1>0, <1>5, WithRetryFits DEF Presets!ChangeRetryMode, b
<1>6. CASE Presets!TypeParams BY <1>0, <1>6, TypedParamsFit DEF Presets!TypeParams, b
<1> QED BY <1>1, <1>2, <1>3, <1>4, <1>5, <1>6

LEMMA PresetKeeps == ASSUME PresetInv, Presets!PresetNext PROVE PresetInv'
<1> USE DEF Presets!Tabs
<1>1. CASE Presets!OpenNew \/ Presets!OpenProfile \/ Presets!OpenSource BY <1>1, DialogOpens
<1>2. CASE \/ Presets!TypePresetName \/ Presets!ChangeResolver \/ Presets!TypeConfig \/ Presets!ChangeEngine
           \/ Presets!ChangeRetryMode \/ Presets!TypeParams
  BY <1>2, FieldsKeepFit
<1> DEFINE Empty == [tab \in Presets!Tabs |-> Presets!NoBody]
<1>e. Empty \in [Presets!Tabs -> FitBodies] BY EmptyBodyFits
<1> DEFINE Forms == [tab : Presets!Tabs \cup {"none"}, editing : BOOLEAN, switcher : BOOLEAN, bodies : [Presets!Tabs -> FitBodies],
                     mode : {"resolver", "source"}, picked : DOMAIN Sources \cup {Unpicked}, error : BOOLEAN]
<1>c. Presets!ClosedForm \in Forms /\ Presets!ClosedForm.tab = "none" BY <1>e DEF Presets!ClosedForm
<1>d. Presets!NoDrawer \in [open : BOOLEAN, query : {"", "term"}, applied : {"", "term"}] /\ Presets!NoDrawer.open = FALSE
  BY DEF Presets!NoDrawer
<1>3. CASE Presets!CloseDialog BY <1>3, <1>c DEF Presets!CloseDialog, Presets!Quiet, Presets!Editable, PresetInv
<1>4. CASE Presets!SwitchTab
  BY <1>4 DEF Presets!SwitchTab, Presets!Quiet, Presets!Editable, PresetInv
<1>5. CASE Presets!ChangeResolverMode BY <1>5 DEF Presets!ChangeResolverMode, Presets!Quiet, Presets!Editable, PresetInv
<1>6. CASE Presets!PickSource
  <2>1. PICK id \in DOMAIN Sources \cup {Unpicked} :
            c1' = [c1 EXCEPT !.picked = id, !.bodies["profile"] =
                     IF id = Unpicked THEN @ ELSE [@ EXCEPT !.resolver = Sources[id], !.config = Presets!Written(Sources[id], "row")]]
    BY <1>6 DEF Presets!PickSource
  <2> DEFINE b == IF id = Unpicked THEN c1.bodies["profile"]
                  ELSE [c1.bodies["profile"] EXCEPT !.resolver = Sources[id], !.config = Presets!Written(Sources[id], "row")]
  <2>2. c1.bodies["profile"] \in FitBodies BY DEF PresetInv
  <2>3. b \in FitBodies
    <3>1. CASE id = Unpicked BY <2>2, <3>1
    <3>2. CASE id # Unpicked
      <4>1. Sources[id] \in PickableResolvers BY <3>2, PresetAssumption DEF PickableResolvers
      <4> QED BY <2>2, <3>2, <4>1, ResolverFits DEF Presets!Written, Origins
    <3> QED BY <3>1, <3>2
  <2>4. c1' = [c1 EXCEPT !.picked = id, !.bodies = [c1.bodies EXCEPT !["profile"] = b]] BY <2>1 DEF PresetInv
  <2> HIDE DEF b
  <2>5. [c1.bodies EXCEPT !["profile"] = b] \in [Presets!Tabs -> FitBodies] BY <2>3 DEF PresetInv
  <2>6. c1' \in Forms /\ c1'.tab = c1.tab BY <2>4, <2>5 DEF PresetInv
  <2> QED BY <1>6, <2>6 DEF Presets!PickSource, Presets!Quiet, PresetInv
<1>7. CASE Presets!SubmitPreset
  <2>1. Presets!Open /\ Presets!Body \in FitBodies /\ c1.tab \in Presets!Tabs
    BY <1>7, ShownBodyFits DEF Presets!SubmitPreset, Presets!Editable, PresetInv, Presets!Open
  <2>2. c1' \in Forms /\ c1'.tab = c1.tab BY <1>7 DEF Presets!SubmitPreset, PresetInv
  <2> DEFINE b == Presets!Body
  <2>4. c5' = c5 \/ c5' = [c5 EXCEPT ![c1.tab] = b] BY <1>7 DEF Presets!SubmitPreset
  <2> HIDE DEF b
  <2>5. b \in FitBodies BY <2>1 DEF b
  <2>3. c5' \in [Presets!Tabs -> FitBodies] BY <2>1, <2>4, <2>5 DEF PresetInv
  <2> QED BY <1>7, <2>2, <2>3 DEF Presets!SubmitPreset, PresetInv
<1>8. CASE Presets!PresetSaved
  <2>1. c5' \in [Presets!Tabs -> FitBodies] BY <1>8, EmptyBodyFits DEF Presets!PresetSaved, PresetInv
  <2>2. c1' \in Forms BY <1>8, <1>c DEF Presets!PresetSaved, PresetInv
  <2>3. c2'.open => c1'.tab # "none" BY <1>8, <1>d DEF Presets!PresetSaved, PresetInv, Presets!Open
  <2> QED BY <1>8, <1>d, <2>1, <2>2, <2>3 DEF Presets!PresetSaved, PresetInv
<1>9. CASE Presets!BrowsePanel BY <1>9, <1>d DEF Presets!BrowsePanel, Presets!Editable, Presets!Open, PresetInv
<1>10. CASE Presets!CloseBrowse BY <1>10, <1>d DEF Presets!CloseBrowse, PresetInv
<1>11. CASE Presets!TypeQuery \/ Presets!ApplyQuery BY <1>11 DEF Presets!TypeQuery, Presets!ApplyQuery, PresetInv
<1>12. CASE Presets!AskDiscovery
  <2>1. c4' = c4 \cup {[asked |-> Presets!Wanted, answers |-> Presets!Wanted]} BY <1>12 DEF Presets!AskDiscovery, Presets!Asked
  <2> DEFINE request == [asked |-> Presets!Wanted, answers |-> Presets!Wanted]
  <2>3. request.asked = request.answers OBVIOUS
  <2> HIDE DEF request
  <2>2. \A heard \in c4' : heard.asked = heard.answers BY <2>1, <2>3 DEF PresetInv, request
  <2> QED BY <1>12, <2>2 DEF Presets!AskDiscovery, PresetInv
<1>13. CASE Presets!DiscoveryAnswers BY <1>13 DEF Presets!DiscoveryAnswers, PresetInv
<1>14. CASE Presets!UseItem
  <2>1. PICK heard \in Presets!Held : c1' = [c1 EXCEPT !.bodies[c1.tab].config = Presets!Written(heard.answers.resolver, "found")]
    BY <1>14 DEF Presets!UseItem
  <2>2. Presets!Open /\ c1.tab \in Presets!Tabs BY <1>14 DEF Presets!UseItem, Presets!Open, PresetInv
  <2>8. heard.answers = Presets!Wanted BY <2>1, HeldAnswers
  <2>3. heard.answers.resolver = Presets!Body.resolver BY <2>8, WantedFacts
  <2> DEFINE b == [Presets!Body EXCEPT !.config = Presets!Written(Presets!Body.resolver, "found")]
  <2>4. b \in FitBodies BY <2>2, ShownBodyFits, ConfigFits DEF Presets!Written, Origins
  <2>5. c1' = [c1 EXCEPT !.bodies = [c1.bodies EXCEPT ![c1.tab] = b]] BY <2>1, <2>2, <2>3 DEF PresetInv, Presets!Body
  <2> HIDE DEF b
  <2>6. [c1.bodies EXCEPT ![c1.tab] = b] \in [Presets!Tabs -> FitBodies] BY <2>2, <2>4 DEF PresetInv
  <2>7. c1' \in Forms BY <2>5, <2>6 DEF PresetInv
  <2> QED BY <1>14, <1>d, <2>7 DEF Presets!UseItem, PresetInv
<1> QED
  BY <1>1, <1>2, <1>3, <1>4, <1>5, <1>6, <1>7, <1>8, <1>9, <1>10, <1>11, <1>12, <1>13, <1>14
  DEF Presets!PresetNext, Presets!PresetsDialog, Presets!ProfileFields, Presets!DiscoveryDrawer

LEMMA PresetShows ==
  ASSUME PresetInv
  PROVE  Presets!PresetTypeOK /\ Presets!ConfigOfItsResolver /\ Presets!RetryOfItsMode /\ Presets!OffersAnswerSearch
<1>1. \A b \in Presets!Bodies : b \in FitBodies
  <2>1. \A tab \in Presets!Tabs : c1.bodies[tab] \in FitBodies /\ c5[tab] \in FitBodies BY DEF PresetInv
  <2> QED BY <2>1 DEF Presets!Bodies
<1>2. Presets!ConfigOfItsResolver BY <1>1 DEF Presets!ConfigOfItsResolver, FitBodies
<1>3. Presets!RetryOfItsMode BY <1>1 DEF Presets!RetryOfItsMode, FitBodies, RetryFits
<1>4. Presets!OffersAnswerSearch BY HeldAnswers, WantedFacts DEF Presets!OffersAnswerSearch
<1>5. Presets!PresetTypeOK
  BY DEF Presets!PresetTypeOK, Presets!Open, PresetInv, FitBodies, AnyBody, PickableEngines, PickableResolvers
<1> QED BY <1>2, <1>3, <1>4, <1>5

-----------------------------------------------------------------------------
\* ---- the preview on a card ----
Cards ==
    [url : Urls \cup {NoUrl}, page : BOOLEAN, starting : BOOLEAN, visible : BOOLEAN, hovering : BOOLEAN, locked : BOOLEAN,
     expanded : BOOLEAN, reduced : BOOLEAN]
Videos == [src : Urls \cup {NoUrl}, ready : BOOLEAN, playing : BOOLEAN, listens : BOOLEAN, active : BOOLEAN]
Sane(v) ==
    /\ v.src = NoUrl => ~v.playing /\ ~v.ready
    /\ v.playing => v.active /\ ~c1.reduced
    /\ v.ready /\ v.active /\ ~c1.reduced => v.playing
    /\ v.src # NoUrl /\ ~v.ready => v.listens
PreviewInv ==
    /\ c1 \in Cards /\ c2 \in [Preview!Elements -> Videos]
    /\ c4 \in 0 .. MaxMounts /\ c3 \in 0 .. c4
    /\ Preview!Shows(c1) <=> c3 # 0
    /\ \A e \in Preview!Elements : Sane(c2[e]) /\ (e # c3 => c2[e].src = NoUrl)
    /\ c3 # 0 => c2[c3].src = Preview!Source(c1) /\ c2[c3].active = Preview!Active(c1)

LEMMA DetachSane ==
  ASSUME NEW v \in Videos
  PROVE  Preview!Detach(v) \in Videos /\ Sane(Preview!Detach(v)) /\ Preview!Detach(v).src = NoUrl
<1> DEFINE d == [v EXCEPT !.src = NoUrl, !.ready = FALSE, !.playing = FALSE, !.listens = FALSE]
<1>1. d \in Videos BY DEF Videos
<1>2. d.src = NoUrl /\ d.ready = FALSE /\ d.playing = FALSE BY DEF Videos
<1> QED BY <1>1, <1>2 DEF Preview!Detach, Sane

LEMMA SourceSane ==
  ASSUME NEW v \in Videos, Sane(v), NEW url \in Urls \cup {NoUrl}, NEW x \in Preview!WithSource(v, url)
  PROVE  x \in Videos /\ Sane(x) /\ x.src = url /\ (x.src = v.src => x = v) /\ (x.src # v.src => ~x.playing /\ ~x.ready)
<1>1. CASE v.src = url BY <1>1 DEF Preview!WithSource
<1>2. CASE v.src # url /\ url = NoUrl
  <2>1. x = Preview!Detach(v) BY <1>2 DEF Preview!WithSource
  <2> QED BY <1>2, <2>1, DetachSane DEF Sane
<1>3. CASE v.src # url /\ url # NoUrl
  <2> DEFINE d == Preview!Detach(v)
  <2>1. d \in Videos BY DetachSane
  <2> HIDE DEF d
  <2>2. x = [d EXCEPT !.src = url, !.ready = FALSE, !.playing = FALSE, !.listens = TRUE]
    BY <1>3 DEF Preview!WithSource, Preview!Attach, d
  <2>3. x \in Videos /\ x.src = url /\ x.ready = FALSE /\ x.playing = FALSE /\ x.listens = TRUE BY <2>1, <2>2 DEF Videos
  <2> QED BY <1>3, <2>3 DEF Sane
<1> QED BY <1>1, <1>2, <1>3

LEMMA RenderedSane ==
  ASSUME PreviewInv, NEW v \in Videos, Sane(v), NEW c \in Cards, NEW y \in Preview!Rendered(v, c)
  PROVE  y \in Videos /\ Sane(y) /\ y.src = Preview!Source(c) /\ y.active = Preview!Active(c)
<1> DEFINE url == Preview!Source(c)   active == Preview!Active(c)
<1>1. url \in Urls \cup {NoUrl} /\ active \in BOOLEAN BY DEF Preview!Source, Preview!Active, Cards
<1>2. c1.reduced \in BOOLEAN BY DEF PreviewInv, Cards
<1> HIDE DEF url, active
<1>3. PICK x \in Preview!WithSource(v, url) : y \in Preview!WithPlaying(v, x, active)
  BY DEF Preview!Rendered, url, active
<1>4. x \in Videos /\ Sane(x) /\ x.src = url /\ (x.src = v.src => x = v) /\ (x.src # v.src => ~x.playing /\ ~x.ready)
  BY <1>1, <1>3, SourceSane
<1> HIDE DEF Sane
<1> SUFFICES y \in Videos /\ Sane(y) /\ y.src = url /\ y.active = active BY DEF url, active
<1>5. CASE x.src = NoUrl \/ (x.src = v.src /\ v.active = active)
  <2>1. y = [x EXCEPT !.active = active] BY <1>3, <1>5 DEF Preview!WithPlaying
  <2>2. y \in Videos /\ y.src = x.src /\ y.active = active /\ y.ready = x.ready /\ y.playing = x.playing /\ y.listens = x.listens
    BY <1>1, <1>4, <2>1 DEF Videos
  <2> QED BY <1>4, <1>5, <2>2 DEF Sane
<1>6. CASE ~(x.src = NoUrl \/ (x.src = v.src /\ v.active = active)) /\ active /\ ~c1.reduced
  <2> DEFINE z == [x EXCEPT !.active = TRUE]
  <2>1. z \in Videos /\ z.src = x.src /\ z.active = TRUE /\ z.ready = x.ready /\ z.playing = x.playing /\ z.listens = x.listens
    BY <1>4 DEF Videos
  <2> HIDE DEF z
  <2>2. y = [z EXCEPT !.playing = TRUE] \/ (~z.ready /\ y = z) BY <1>3, <1>6 DEF Preview!WithPlaying, Preview!MayStart, z
  <2>3. y \in Videos /\ y.src = x.src /\ y.active = TRUE /\ y.ready = x.ready /\ y.listens = x.listens /\ (y.playing \/ ~y.ready)
    BY <2>1, <2>2 DEF Videos
  <2> QED BY <1>1, <1>4, <1>6, <2>3 DEF Sane
<1>7. CASE ~(x.src = NoUrl \/ (x.src = v.src /\ v.active = active)) /\ ~(active /\ ~c1.reduced)
  <2>1. y = [x EXCEPT !.active = active, !.playing = FALSE] BY <1>3, <1>7 DEF Preview!WithPlaying
  <2>2. y \in Videos /\ y.src = x.src /\ y.active = active /\ y.ready = x.ready /\ y.playing = FALSE /\ y.listens = x.listens
    BY <1>1, <1>4, <2>1 DEF Videos
  <2> QED BY <1>4, <1>7, <2>2 DEF Sane
<1> QED BY <1>5, <1>6, <1>7

LEMMA RendersKeep ==
  ASSUME PreviewInv, NEW c \in Cards, c.reduced = c1.reduced, Preview!Renders(c)
  PROVE  PreviewInv'
<1>1. c1' = c BY DEF Preview!Renders
<1>2. \A v : Sane(v)' <=> Sane(v) BY <1>1 DEF Sane
<1>0. MaxMounts \in Nat BY MountsAssumption
<1>3. CASE Preview!Shows(c)
  <2> DEFINE e == IF c3 = 0 THEN c4 + 1 ELSE c3
  <2>1. e <= MaxMounts /\ c3' = e /\ c4' = (IF c3 = 0 THEN c4 + 1 ELSE c4) BY <1>3 DEF Preview!Renders
  <2>2. PICK y \in Preview!Rendered(c2[e], c) : c2' = [c2 EXCEPT ![e] = y] BY <1>3 DEF Preview!Renders
  <2>3. e \in Preview!Elements /\ e # 0 BY <1>0, <2>1 DEF PreviewInv, Preview!Elements
  <2>4. c4' \in 0 .. MaxMounts /\ c3' \in 0 .. c4' BY <1>0, <2>1 DEF PreviewInv
  <2>5. \A d \in Preview!Elements : d # e => c2[d].src = NoUrl BY DEF PreviewInv, Preview!Elements
  <2> HIDE DEF e
  <2>6. c2[e] \in Videos /\ Sane(c2[e]) BY <2>3 DEF PreviewInv
  <2>7. y \in Videos /\ Sane(y) /\ y.src = Preview!Source(c) /\ y.active = Preview!Active(c)
    BY <2>2, <2>6, RenderedSane
  <2>8. c2' \in [Preview!Elements -> Videos] BY <2>2, <2>7 DEF PreviewInv
  <2>9. \A d \in Preview!Elements : Sane(c2'[d]) BY <2>2, <2>7 DEF PreviewInv
  <2>10. \A d \in Preview!Elements : d # e => c2'[d].src = NoUrl BY <2>2, <2>5 DEF PreviewInv
  <2>11. c2'[e] = y BY <2>2, <2>3 DEF PreviewInv
  <2> QED BY <1>1, <1>2, <1>3, <2>1, <2>3, <2>4, <2>7, <2>8, <2>9, <2>10, <2>11 DEF PreviewInv
<1>4. CASE ~Preview!Shows(c)
  <2>1. c3' = 0 /\ c4' = c4 /\ c2' = IF c3 = 0 THEN c2 ELSE [c2 EXCEPT ![c3] = Preview!Detach(@)] BY <1>4 DEF Preview!Renders
  <2>2. c3 # 0 => c3 \in Preview!Elements BY <1>0 DEF PreviewInv, Preview!Elements
  <2>3. c2' \in [Preview!Elements -> Videos] BY <2>1, <2>2, DetachSane DEF PreviewInv
  <2>4. \A d \in Preview!Elements : Sane(c2'[d]) /\ c2'[d].src = NoUrl
    <3> SUFFICES ASSUME NEW d \in Preview!Elements PROVE Sane(c2'[d]) /\ c2'[d].src = NoUrl OBVIOUS
    <3>1. CASE d = c3
      <4>1. c3 # 0 BY <1>0, <3>1 DEF Preview!Elements
      <4>2. c2'[d] = Preview!Detach(c2[d]) BY <2>1, <3>1, <4>1 DEF PreviewInv
      <4> QED BY <4>2, DetachSane DEF PreviewInv
    <3>2. CASE d # c3
      <4>1. c2'[d] = c2[d] BY <2>1, <3>2 DEF PreviewInv
      <4> QED BY <3>2, <4>1 DEF PreviewInv
    <3> QED BY <3>1, <3>2
  <2>5. c3' \in 0 .. c4' BY <1>0, <2>1 DEF PreviewInv
  <2> QED BY <1>1, <1>2, <1>4, <2>1, <2>3, <2>4, <2>5 DEF PreviewInv
<1> QED BY <1>3, <1>4

LEMMA PreviewBegins == Preview!PreviewInit => PreviewInv
<1> SUFFICES ASSUME Preview!PreviewInit PROVE PreviewInv OBVIOUS
<1> DEFINE n == Preview!NoElement
<1>1. n \in Videos /\ n.src = NoUrl /\ n.ready = FALSE /\ n.playing = FALSE /\ n.active = FALSE BY DEF Preview!NoElement, Videos
<1>2. c1 \in Cards /\ c1.visible = FALSE /\ c1.hovering = FALSE /\ c1.locked = FALSE BY DEF Preview!PreviewInit, Cards
<1>3. Sane(n) BY <1>1 DEF Sane
<1>4. c2 = [e \in Preview!Elements |-> n] BY DEF Preview!PreviewInit
<1> HIDE DEF n
<1>5. c3 = (IF Preview!Shows(c1) THEN 1 ELSE 0) /\ c4 = c3 BY DEF Preview!PreviewInit
<1>6. c4 \in 0 .. MaxMounts /\ c3 \in 0 .. c4 /\ (c3 # 0 => c3 \in Preview!Elements) BY <1>5, MountsAssumption DEF Preview!Elements
<1>7. Preview!Source(c1) = NoUrl /\ Preview!Active(c1) = FALSE BY <1>2 DEF Preview!Source, Preview!Active
<1>8. \A e \in Preview!Elements : c2[e] = n BY <1>4
<1>9. c2 \in [Preview!Elements -> Videos] BY <1>1, <1>4
<1>10. \A e \in Preview!Elements : Sane(c2[e]) /\ c2[e].src = NoUrl /\ c2[e].active = FALSE BY <1>1, <1>3, <1>8
<1>11. Preview!Shows(c1) <=> c3 # 0 BY <1>5
<1>12. c3 # 0 => c2[c3].src = Preview!Source(c1) /\ c2[c3].active = Preview!Active(c1) BY <1>6, <1>7, <1>10
<1> QED BY <1>2, <1>6, <1>9, <1>10, <1>11, <1>12 DEF PreviewInv

LEMMA PreviewKeeps == ASSUME PreviewInv, Preview!PreviewNext PROVE PreviewInv'
<1>0. c1 \in Cards BY DEF PreviewInv
<1>1. CASE \E e \in Preview!Elements : Preview!BecomesReady(e)
  <2>1. PICK e \in Preview!Elements : Preview!BecomesReady(e) BY <1>1
  <2>2. c2[e].src # NoUrl /\ c2[e].ready = FALSE /\ e = c3 /\ c2[e] \in Videos /\ Sane(c2[e]) BY <2>1 DEF Preview!BecomesReady, PreviewInv, Videos
  <2> DEFINE p == c2[e].playing \/ (c2[e].listens /\ c2[e].active /\ ~c1.reduced)
  <2> DEFINE y == [c2[e] EXCEPT !.ready = TRUE, !.listens = FALSE, !.playing = p]
  <2>3. p \in BOOLEAN /\ (p <=> (c2[e].active /\ ~c1.reduced)) BY <1>0, <2>2 DEF Sane, Videos, Cards
  <2>4. c2' = [c2 EXCEPT ![e] = y] BY <2>1 DEF Preview!BecomesReady
  <2> HIDE DEF p
  <2>5. y \in Videos /\ y.src = c2[e].src /\ y.ready = TRUE /\ y.playing = p /\ y.active = c2[e].active BY <2>2, <2>3 DEF Videos
  <2>6. Sane(y) BY <2>2, <2>3, <2>5 DEF Sane
  <2> HIDE DEF y
  <2>7. UNCHANGED <<c1, c3, c4>> BY <2>1 DEF Preview!BecomesReady
  <2>8. c2' \in [Preview!Elements -> Videos] BY <2>4, <2>5 DEF PreviewInv
  <2>9. \A d \in Preview!Elements : Sane(c2'[d]) /\ c2'[d].src = c2[d].src /\ c2'[d].active = c2[d].active BY <2>4, <2>5, <2>6 DEF PreviewInv
  <2>10. \A v : Sane(v)' <=> Sane(v) BY <2>7 DEF Sane
  <2> QED BY <2>2, <2>7, <2>8, <2>9, <2>10 DEF PreviewInv
<1>2. CASE ~\E e \in Preview!Elements : Preview!BecomesReady(e)
  <2> SUFFICES \E c \in Cards : c.reduced = c1.reduced /\ Preview!Renders(c) BY RendersKeep
  <2>1. CASE Preview!ScrollsIntoView BY <1>0, <2>1 DEF Preview!ScrollsIntoView, Cards
  <2>2. CASE Preview!Enter BY <1>0, <2>2 DEF Preview!Enter, Cards
  <2>3. CASE Preview!Leave BY <1>0, <2>3 DEF Preview!Leave, Cards
  <2>4. CASE Preview!PressPlay
    <3>1. [c1 EXCEPT !.expanded = TRUE] \in Cards /\ [c1 EXCEPT !.locked = TRUE] \in Cards BY <1>0 DEF Cards
    <3>2. [c1 EXCEPT !.expanded = TRUE].reduced = c1.reduced /\ [c1 EXCEPT !.locked = TRUE].reduced = c1.reduced BY <1>0 DEF Cards
    <3>3. Preview!Renders([c1 EXCEPT !.expanded = TRUE]) \/ Preview!Renders([c1 EXCEPT !.locked = TRUE]) BY <2>4 DEF Preview!PressPlay
    <3> QED BY <3>1, <3>2, <3>3
  <2>5. CASE Preview!ClosePlayer BY <1>0, <2>5 DEF Preview!ClosePlayer, Cards
  <2>6. CASE Preview!GateMoves BY <1>0, <2>6 DEF Preview!GateMoves, Cards
  <2>7. CASE Preview!UrlsChange
    <3>1. PICK url \in {NoUrl} \cup Urls, p \in BOOLEAN : Preview!Renders([c1 EXCEPT !.url = url, !.page = p]) BY <2>7 DEF Preview!UrlsChange
    <3>2. [c1 EXCEPT !.url = url, !.page = p] \in Cards /\ [c1 EXCEPT !.url = url, !.page = p].reduced = c1.reduced BY <1>0 DEF Cards
    <3> QED BY <3>1, <3>2
  <2> QED BY <1>2, <2>1, <2>2, <2>3, <2>4, <2>5, <2>6, <2>7 DEF Preview!PreviewNext
<1> QED BY <1>1, <1>2

LEMMA PreviewShows ==
  ASSUME PreviewInv
  PROVE  Preview!PreviewTypeOK /\ Preview!PlaysWhatIsWatched /\ Preview!NoCardStuck
<1>0. MaxMounts \in Nat BY MountsAssumption
<1>1. Preview!PreviewTypeOK BY DEF PreviewInv, Preview!PreviewTypeOK, Cards, Videos
<1>2. Preview!PlaysWhatIsWatched
  <2> SUFFICES ASSUME NEW e \in Preview!Elements, c2[e].playing
               PROVE  e = c3 /\ Preview!Active(c1) /\ c2[e].src = c1.url /\ ~c1.reduced
    BY DEF Preview!PlaysWhatIsWatched
  <2>1. Sane(c2[e]) /\ c2[e].src # NoUrl /\ e = c3 /\ c2[e].active /\ ~c1.reduced BY DEF PreviewInv, Sane
  <2>2. c3 # 0 BY <1>0, <2>1 DEF Preview!Elements
  <2> QED BY <2>1, <2>2 DEF PreviewInv, Preview!Source
<1>3. Preview!NoCardStuck
  <2> SUFFICES ASSUME Preview!Watched, c2[c3].ready PROVE c2[c3].playing BY DEF Preview!NoCardStuck
  <2>1. c3 # 0 /\ Preview!Active(c1) /\ ~c1.reduced BY DEF Preview!Watched, Preview!Active
  <2>2. c3 \in Preview!Elements BY <1>0, <2>1 DEF PreviewInv, Preview!Elements
  <2> QED BY <2>1, <2>2 DEF PreviewInv, Sane
<1> QED BY <1>1, <1>2, <1>3

-----------------------------------------------------------------------------
\* ---- the page of a session ----
RunStatuses == Detail!Live \cup Detail!Spent \cup {"gone"}
\* The statuses under which the page offers a deletion, and that of a session that is gone.
Ended == {"terminating", "completed", "failed", "gone"}
IsRun(r) ==
    /\ r = [status |-> r.status, doing |-> r.doing, told |-> r.told, recording |-> r.recording, attempts |-> r.attempts,
            captures |-> r.captures]
    /\ r.status \in RunStatuses /\ r.doing \in {"running", "remuxing", "done"}
\* The run was told to stop, or has ended.
Halted(r) == r.told \/ r.doing # "running"
EndsHalted(r) == IsRun(r) /\ (r.status \in Ended => Halted(r))
DetailInv ==
    /\ EndsHalted(c1)
    /\ c2.status \in RunStatuses \cup {"unread"}
    /\ c3.at \in {"idle", "asked", "served"} /\ c3.answer.status \in RunStatuses \cup {"unread"}
    /\ c4 \in [Detail!Buttons -> [at : {"quiet", "asked", "done", "refused"}, want : BOOLEAN]]
    /\ c5 \in BOOLEAN /\ c6 \in {"closed", "open", "refused"}
    /\ \/ c2.status \in Ended \/ (c3.at = "served" /\ c3.answer.status \in Ended) \/ c4["delete"].at # "quiet"
       => Halted(c1)

LEMMA GoneHalted == EndsHalted(Detail!Gone) /\ Halted(Detail!Gone) /\ Detail!Gone.status = "gone"
  BY DEF Detail!Gone, EndsHalted, IsRun, Halted, RunStatuses

\* What the core does to a run leaves it halted once it is.
Goes == EndsHalted(c1') /\ (Halted(c1) => Halted(c1'))

LEMMA RunStepsHalt == ASSUME EndsHalted(c1), Detail!RunSteps PROVE Goes
<1> USE DEF EndsHalted, IsRun, Halted, RunStatuses, Ended, Detail!Live, Detail!Spent, Goes
<1>1. CASE Detail!BeginAttempt BY <1>1 DEF Detail!BeginAttempt
<1>2. CASE Detail!PlaylistAppears BY <1>2 DEF Detail!PlaylistAppears
<1>3. CASE Detail!RetryAttempt BY <1>3 DEF Detail!RetryAttempt
<1>4. CASE Detail!CaptureEnds BY <1>4 DEF Detail!CaptureEnds, Detail!Settles
<1>5. CASE Detail!StoppedUntried BY <1>5 DEF Detail!StoppedUntried, Detail!Settles
<1>6. CASE Detail!RemuxEnds BY <1>6 DEF Detail!RemuxEnds
<1>7. CASE Detail!DeletedElsewhere BY <1>7, GoneHalted DEF Detail!DeletedElsewhere
<1> QED BY <1>1, <1>2, <1>3, <1>4, <1>5, <1>6, <1>7 DEF Detail!RunSteps

LEMMA CoreTakesHalt ==
  ASSUME DetailInv, Detail!CoreTakes PROVE Goes /\ (Detail!DeleteTaken => Halted(c1))
<1>0. EndsHalted(c1) BY DEF DetailInv
<1>3. Detail!DeleteTaken => Halted(c1) BY DEF Detail!DeleteTaken, DetailInv
<1> SUFFICES Goes BY <1>3
<1>g. c1' = c1 => Goes BY <1>0 DEF Goes
<1>1. CASE Detail!StopTaken
  <2>1. \/ c1' = c1 \/ (c1' = [c1 EXCEPT !.doing = "done", !.status = "failed"]) \/ c1' = [c1 EXCEPT !.status = "terminating", !.told = TRUE]
    BY <1>1 DEF Detail!StopTaken
  <2>2. CASE c1' = [c1 EXCEPT !.doing = "done", !.status = "failed"]
    BY <1>0, <2>2 DEF EndsHalted, IsRun, Halted, RunStatuses, Detail!Spent, Goes
  <2>3. CASE c1' = [c1 EXCEPT !.status = "terminating", !.told = TRUE]
    <3>1. c1'.status = "terminating" /\ c1'.told /\ c1'.doing = c1.doing /\ IsRun(c1')
      BY <1>0, <2>3 DEF EndsHalted, IsRun, RunStatuses, Detail!Live
    <3> QED BY <3>1 DEF EndsHalted, Halted, Goes
  <2> QED BY <1>g, <2>1, <2>2, <2>3
<1>2. CASE Detail!RecordTaken
  <2>1. CASE c1.doing # "running" BY <1>2, <1>g, <2>1 DEF Detail!RecordTaken
  <2>2. CASE c1.doing = "running"
    <3> DEFINE want == c4["record"].want
    <3>1. c1' = Detail!Toggled(c1, want) BY <1>2, <2>2 DEF Detail!RecordTaken
    <3> HIDE DEF want
    <3>2. PICK status \in {c1.status, "recording", "active"} : c1' = [c1 EXCEPT !.recording = want, !.status = status]
      BY <3>1 DEF Detail!Toggled
    <3>3. c1'.status = status /\ c1'.told = c1.told /\ c1'.doing = c1.doing /\ IsRun(c1')
      BY <1>0, <3>2 DEF EndsHalted, IsRun, RunStatuses, Detail!Live
    <3> QED BY <1>0, <3>2, <3>3 DEF EndsHalted, Halted, Ended, Goes
  <2> QED BY <2>1, <2>2
<1>4. CASE Detail!DeleteTaken BY <1>4, <1>g, GoneHalted DEF Detail!DeleteTaken, Goes
<1>5. CASE Detail!SaveTaken BY <1>5, <1>g DEF Detail!SaveTaken
<1> QED BY <1>1, <1>2, <1>4, <1>5 DEF Detail!CoreTakes

LEMMA DetailBegins == Detail!PageInit => DetailInv
<1> SUFFICES ASSUME Detail!PageInit PROVE DetailInv OBVIOUS
<1>1. PICK on \in BOOLEAN : c1 = [Detail!Gone EXCEPT !.status = "initializing", !.doing = "running", !.told = FALSE, !.recording = on]
  BY DEF Detail!PageInit
<1>2. EndsHalted(c1) BY <1>1 DEF EndsHalted, IsRun, RunStatuses, Ended, Detail!Live, Detail!Gone
<1>3. c2.status = "unread" BY DEF Detail!PageInit, Detail!Unread, Detail!Gone
<1>4. c3.at = "idle" /\ c3.answer.status = "unread" BY DEF Detail!PageInit, Detail!Idle, Detail!Unread, Detail!Gone
<1>5. c4 \in [Detail!Buttons -> [at : {"quiet", "asked", "done", "refused"}, want : BOOLEAN]] /\ c4["delete"].at = "quiet"
  BY DEF Detail!PageInit, Detail!Quiet, Detail!Buttons
<1> QED BY <1>2, <1>3, <1>4, <1>5 DEF Detail!PageInit, DetailInv, Ended

LEMMA DetailKeeps == ASSUME DetailInv, Detail!PageNext PROVE DetailInv'
<1> USE DEF Detail!Buttons
<1>1. CASE Detail!RunSteps
  <2>1. Goes BY <1>1, RunStepsHalt DEF DetailInv
  <2>2. Detail!PageOnly
    BY <1>1 DEF Detail!RunSteps, Detail!BeginAttempt, Detail!PlaylistAppears, Detail!RetryAttempt, Detail!CaptureEnds, Detail!StoppedUntried,
       Detail!RemuxEnds, Detail!DeletedElsewhere
  <2> QED BY <2>1, <2>2 DEF Goes, DetailInv, Detail!PageOnly
<1>2. CASE Detail!CoreTakes
  <2>1. Goes BY <1>2, CoreTakesHalt
  <2>2. Detail!CoreOnly BY <1>2 DEF Detail!CoreTakes, Detail!StopTaken, Detail!RecordTaken, Detail!DeleteTaken, Detail!SaveTaken
  <2>3. PICK b \in Detail!Buttons, well \in BOOLEAN : c4[b].at = "asked" /\ Detail!Answers(b, well)
    BY <1>2 DEF Detail!CoreTakes, Detail!StopTaken, Detail!RecordTaken, Detail!DeleteTaken, Detail!SaveTaken
  <2>4. c4' \in [Detail!Buttons -> [at : {"quiet", "asked", "done", "refused"}, want : BOOLEAN]]
        /\ (c4'["delete"].at # "quiet" => c4["delete"].at # "quiet")
    BY <2>3 DEF Detail!Answers, DetailInv
  <2> QED BY <2>1, <2>2, <2>4 DEF Goes, DetailInv, Detail!CoreOnly
<1>3. CASE Detail!PageReads
  <2>0. EndsHalted(c1) BY DEF DetailInv
  <2>1. CASE Detail!Poll BY <2>1 DEF Detail!Poll, Detail!Idle, Detail!Unread, Detail!Gone, DetailInv
  <2>2. CASE Detail!ReadServed BY <2>0, <2>2 DEF Detail!ReadServed, DetailInv, EndsHalted, IsRun
  <2>3. CASE Detail!ReadLands
    <3>1. c3' = Detail!Idle /\ c3'.at = "idle" /\ c3'.answer.status = "unread"
      BY <2>3 DEF Detail!ReadLands, Detail!Idle, Detail!Unread, Detail!Gone
    <3>2. c2'.status \in RunStatuses \cup {"unread"} /\ (c2'.status \in Ended => Halted(c1))
      BY <2>3, GoneHalted DEF Detail!ReadLands, DetailInv, RunStatuses, Ended
    <3> QED BY <2>3, <3>1, <3>2 DEF Detail!ReadLands, DetailInv, EndsHalted, IsRun, Halted
  <2>4. CASE Detail!ReadFails BY <2>4 DEF Detail!ReadFails, Detail!Idle, Detail!Unread, Detail!Gone, DetailInv
  <2> QED BY <1>3, <2>1, <2>2, <2>3, <2>4 DEF Detail!PageReads
<1>4. CASE Detail!PageButtons
  <2> DEFINE Sent == [Detail!Buttons -> [at : {"quiet", "asked", "done", "refused"}, want : BOOLEAN]]
  <2>0. Detail!RowActions(c2.status) \subseteq Detail!Buttons /\ ("delete" \in Detail!RowActions(c2.status) => c2.status \in Ended)
    BY DEF Detail!RowActions, Ended, Detail!Spent, Detail!Live, RunStatuses, DetailInv
  <2>1. CASE Detail!PressStop BY <2>1 DEF Detail!PressStop, Detail!Asks, DetailInv
  <2>2. CASE Detail!PressRecord BY <2>2 DEF Detail!PressRecord, Detail!Asks, DetailInv
  <2>3. CASE Detail!PressDelete BY <2>3 DEF Detail!PressDelete, DetailInv
  <2>4. CASE Detail!ConfirmDelete
    <3>1. Halted(c1) BY <2>0, <2>4 DEF Detail!ConfirmDelete, Detail!Offers, DetailInv
    <3>2. c4' \in Sent BY <2>4 DEF Detail!ConfirmDelete, Detail!Asks, DetailInv
    <3> QED BY <2>4, <3>1, <3>2 DEF Detail!ConfirmDelete, DetailInv
  <2>5. CASE Detail!CancelDelete BY <2>5 DEF Detail!CancelDelete, DetailInv
  <2>6. CASE Detail!PressSave BY <2>6 DEF Detail!PressSave, DetailInv
  <2>7. CASE Detail!SaveProfile BY <2>7 DEF Detail!SaveProfile, Detail!Asks, DetailInv
  <2>8. CASE Detail!CloseNaming BY <2>8 DEF Detail!CloseNaming, DetailInv
  <2>9. CASE Detail!ButtonAnswered
    <3>1. c4' \in Sent /\ (c4'["delete"].at # "quiet" => c4["delete"].at # "quiet")
      BY <2>9 DEF Detail!ButtonAnswered, Detail!Quiet, DetailInv
    <3>2. c3' = c3 \/ (c3'.at = "asked" /\ c3'.answer.status = "unread")
      BY <2>9 DEF Detail!ButtonAnswered, Detail!Refetch, Detail!Idle, Detail!Unread, Detail!Gone
    <3>3. c5' \in BOOLEAN /\ c6' \in {"closed", "open", "refused"} BY <2>9 DEF Detail!ButtonAnswered, DetailInv
    <3> QED BY <2>9, <3>1, <3>2, <3>3 DEF Detail!ButtonAnswered, DetailInv
  <2> QED BY <1>4, <2>1, <2>2, <2>3, <2>4, <2>5, <2>6, <2>7, <2>8, <2>9 DEF Detail!PageButtons
<1> QED BY <1>1, <1>2, <1>3, <1>4 DEF Detail!PageNext

LEMMA DeletesHalted == ASSUME DetailInv, Detail!PageNext PROVE Detail!DeleteSparesRunningStep
<1> SUFFICES ASSUME c1.status # "gone", c1'.status = "gone" PROVE Halted(c1) BY DEF Detail!DeleteSparesRunningStep, Halted
<1>1. CASE Detail!DeletedElsewhere BY <1>1 DEF Detail!DeletedElsewhere, DetailInv, EndsHalted, Ended, Detail!Spent
<1>2. CASE Detail!DeleteTaken BY <1>2, CoreTakesHalt DEF Detail!CoreTakes
<1>3. CASE ~Detail!DeletedElsewhere /\ Detail!RunSteps
  BY <1>3 DEF Detail!RunSteps, Detail!BeginAttempt, Detail!PlaylistAppears, Detail!RetryAttempt, Detail!CaptureEnds, Detail!StoppedUntried,
     Detail!RemuxEnds, Detail!Settles, Detail!Spent, DetailInv, EndsHalted, IsRun
<1>4. CASE ~Detail!DeleteTaken /\ Detail!CoreTakes
  BY <1>4 DEF Detail!CoreTakes, Detail!StopTaken, Detail!RecordTaken, Detail!SaveTaken, Detail!Toggled, DetailInv, EndsHalted, IsRun
<1>5. CASE Detail!PageReads \/ Detail!PageButtons
  BY <1>5 DEF Detail!PageReads, Detail!PageButtons, Detail!Poll, Detail!ReadServed, Detail!ReadLands, Detail!ReadFails, Detail!PressStop,
     Detail!PressRecord, Detail!PressDelete, Detail!ConfirmDelete, Detail!CancelDelete, Detail!PressSave, Detail!SaveProfile, Detail!CloseNaming,
     Detail!ButtonAnswered
<1> QED BY <1>1, <1>2, <1>3, <1>4, <1>5 DEF Detail!PageNext

LEMMA DetailShows == ASSUME DetailInv PROVE Detail!PageTypeOK /\ Detail!TimelineLosesNothing
<1>1. Detail!PageTypeOK BY DEF Detail!PageTypeOK, DetailInv, EndsHalted, IsRun, RunStatuses
<1>2. Detail!TimelineLosesNothing
  <2> DEFINE shown == Detail!Timeline(c2)
  <2>1. DOMAIN shown = Detail!GroupsOf(c2) BY DEF Detail!Timeline
  <2>2. \A g \in DOMAIN shown : /\ shown[g].attempts = {n \in DOMAIN c2.attempts : c2.attempts[n].capture = g}
                                /\ shown[g].filed = (g \in c2.captures)
    BY DEF Detail!Timeline
  <2> HIDE DEF shown
  <2>3. \A n \in DOMAIN c2.attempts : \E g \in DOMAIN shown : n \in shown[g].attempts BY <2>1, <2>2 DEF Detail!GroupsOf
  <2>4. \A g, h \in DOMAIN shown : g # h => shown[g].attempts \cap shown[h].attempts = {} BY <2>2
  <2>5. \A g \in c2.captures : g \in DOMAIN shown /\ shown[g].filed BY <2>1, <2>2 DEF Detail!GroupsOf
  <2> QED BY <2>3, <2>4, <2>5 DEF Detail!TimelineLosesNothing, shown
<1> QED BY <1>1, <1>2

-----------------------------------------------------------------------------
\* ---- the lists ----
\* Rows that were there: no row carried its id more often than is counted.
Counted(rows, births) == \A row \in rows : row \in ListRow /\ row.birth <= births[row.id]
Distinct(rows) == \A a, b \in rows : a.id = b.id => a = b
NotIn(row, rows) == \A other \in rows : ~Lists!SameRow(row, other)
ChosenIn(row, rows) == \A other \in rows : Lists!SameRow(row, other) => other.profile = "chosen"
Works == [kind : {"none", "one", "bulk", "profile"}, todo : SUBSET RowIds, done : SUBSET ListRow, failed : SUBSET RowIds, rows : SUBSET ListRow]
Exports == [todo : SUBSET RowIds, file : SUBSET ListRow, rows : SUBSET ListRow]
\* What a removal or a change of profile has done so far: of the rows it was
\* given, each is still to be tried, was refused, or is gone or changed.
WorkTells(work, held) ==
    /\ \A row \in work.done : NotIn(row, held)
    /\ work.kind = "bulk" => \A row \in work.rows : row.id \in work.todo \cup work.failed \/ NotIn(row, held)
    /\ work.kind = "bulk" /\ ~Lists!Scoped => work.failed = {}
    /\ work.kind = "profile" => \A row \in work.rows : row.id \in work.todo \cup work.failed \/ ChosenIn(row, held)
WorkFits(work, births) == work \in Works /\ Counted(work.done, births) /\ Counted(work.rows, births)
ExportTells(bundle) == \A row \in bundle.rows : row.id \in bundle.todo \/ \E entry \in bundle.file : entry.id = row.id
Apart(rows, gone) == \A row \in rows, old \in gone : ~Lists!SameRow(row, old)

HeldInv == c11 \in [RowIds -> 0 .. MaxBirths] /\ Counted(c2, c11) /\ Distinct(c2)
\* What was served before a row was told gone may hold it no more.
ShownInv ==
    /\ Counted(c3, c11) /\ Counted(c12, c11) /\ Apart(c3, c12)
    /\ c4 \in [at : {"idle", "asked", "served"}, rows : SUBSET ListRow] /\ Counted(c4.rows, c11)
    /\ c4.at = "served" => Apart(c4.rows, c12)
    /\ \A row \in c12 : NotIn(row, c2)
ChoiceInv ==
    /\ c1 \in Lists!Panels /\ c5 \subseteq RowIds
    /\ c8 \in [about : {"nothing", "one", "bulk", "profile"}, id : RowIds \cup {0}] /\ (c8.about = "one" => c8.id \in RowIds)
WorkInv == WorkFits(c9, c11) /\ WorkTells(c9, c2)
ExportInv == c10 \in Exports /\ ExportTells(c10)
ListsInv == HeldInv /\ ShownInv /\ ChoiceInv /\ WorkInv /\ ExportInv

\* How the rows of the core may change: rows keep their id, their birth and a
\* profile that was chosen, and a new one carries its id once more than before.
HeldMoves ==
    /\ HeldInv'
    /\ \A id \in RowIds : c11[id] <= c11'[id]
    /\ \A row \in c2' : \/ row.birth > c11[row.id]
                        \/ \E old \in c2 : Lists!SameRow(old, row) /\ (old.profile = "chosen" => row.profile = "chosen")

LEMMA CountsFacts ==
  ASSUME ListsInv PROVE \A id \in RowIds : c11[id] \in Nat
  BY ListsAssumption DEF ListsInv, HeldInv

LEMMA CountedStays ==
  ASSUME ListsInv, HeldMoves, NEW rows, Counted(rows, c11) PROVE Counted(rows, c11')
<1>1. \A id \in RowIds : c11[id] \in Nat /\ c11'[id] \in Nat /\ c11[id] <= c11'[id]
  BY ListsAssumption DEF ListsInv, HeldInv, HeldMoves
<1>2. \A row \in rows : row.id \in RowIds /\ row.birth \in Nat BY ListsAssumption DEF Counted, ListRow
<1> QED BY <1>1, <1>2 DEF Counted

\* A row that is gone does not come back, and a profile that was chosen stays.
LEMMA GoneStays ==
  ASSUME ListsInv, HeldMoves, NEW row \in ListRow, row.birth <= c11[row.id]
  PROVE  (NotIn(row, c2) => NotIn(row, c2')) /\ (ChosenIn(row, c2) => ChosenIn(row, c2'))
<1>0. row.id \in RowIds /\ row.birth \in Nat BY ListsAssumption DEF ListRow
<1>1. row.id \in RowIds /\ row.birth \in Nat /\ c11[row.id] \in Nat BY <1>0, CountsFacts
<1> SUFFICES ASSUME NEW other \in c2', Lists!SameRow(row, other)
             PROVE  ~NotIn(row, c2) /\ (ChosenIn(row, c2) => other.profile = "chosen")
  BY DEF NotIn, ChosenIn
<1>2. other.id = row.id /\ other.birth = row.birth BY DEF Lists!SameRow
<1>3. ~(other.birth > c11[other.id]) BY <1>1, <1>2
<1>4. PICK old \in c2 : Lists!SameRow(old, other) /\ (old.profile = "chosen" => other.profile = "chosen") BY <1>3 DEF HeldMoves
<1>5. Lists!SameRow(row, old) BY <1>2, <1>4 DEF Lists!SameRow
<1> QED BY <1>4, <1>5 DEF NotIn, ChosenIn

LEMMA HeldMovesKeep ==
  ASSUME ListsInv, HeldMoves, UNCHANGED <<c1, c3, c4, c12>>
  PROVE  HeldInv' /\ ShownInv'
<1>1. Counted(c3, c11') /\ Counted(c12, c11') /\ Counted(c4.rows, c11') BY CountedStays DEF ListsInv, ShownInv
<1>2. \A row \in c12 : NotIn(row, c2') BY GoneStays DEF ListsInv, ShownInv, Counted
<1> QED BY <1>1, <1>2 DEF ListsInv, ShownInv, HeldMoves

LEMMA WorkStays ==
  ASSUME ListsInv, HeldMoves, UNCHANGED <<c1, c9>> PROVE WorkInv'
<1>1. Counted(c9.done, c11') /\ Counted(c9.rows, c11') BY CountedStays DEF ListsInv, WorkInv, WorkFits
<1>2. \A row \in c9.done \cup c9.rows : (NotIn(row, c2) => NotIn(row, c2')) /\ (ChosenIn(row, c2) => ChosenIn(row, c2'))
  BY GoneStays DEF ListsInv, WorkInv, WorkFits, Counted
<1> QED BY <1>1, <1>2 DEF ListsInv, WorkInv, WorkFits, WorkTells, Lists!Scoped

LEMMA CoreMoves ==
  ASSUME ListsInv, Lists!RowAppears \/ Lists!RowGoes \/ Lists!RowEnds
  PROVE  HeldMoves /\ UNCHANGED <<c1, c3, c4, c5, c8, c9, c10, c12>>
<1>1. UNCHANGED <<c1, c3, c4, c5, c8, c9, c10, c12>> BY DEF Lists!RowAppears, Lists!RowGoes, Lists!RowEnds
<1>2. \A id \in RowIds : c11[id] \in Nat BY CountsFacts
<1>3. CASE Lists!RowGoes
  <2>1. c11' = c11 /\ c2' \subseteq c2 BY <1>3 DEF Lists!RowGoes
  <2> QED BY <1>1, <1>2, <2>1 DEF HeldMoves, ListsInv, HeldInv, Counted, Distinct, Lists!SameRow
<1>4. CASE Lists!RowEnds
  <2>1. PICK row \in c2 : c2' = (c2 \ {row}) \cup {[row EXCEPT !.status = "spent"]} BY <1>4 DEF Lists!RowEnds
  <2> DEFINE new == [row EXCEPT !.status = "spent"]
  <2>2. row \in ListRow BY DEF ListsInv, HeldInv, Counted
  <2>3. new \in ListRow /\ new.id = row.id /\ new.birth = row.birth /\ new.profile = row.profile BY <2>2 DEF ListRow
  <2> HIDE DEF new
  <2>4. c11' = c11 /\ c2' = (c2 \ {row}) \cup {new} BY <1>4, <2>1 DEF Lists!RowEnds, new
  <2>5. HeldInv' BY <2>2, <2>3, <2>4 DEF ListsInv, HeldInv, Counted, Distinct
  <2> QED BY <1>1, <1>2, <2>3, <2>4, <2>5 DEF HeldMoves, Lists!SameRow
<1>5. CASE Lists!RowAppears
  <2>1. PICK id \in RowIds : /\ Lists!NextId(id) /\ c11[id] < MaxBirths /\ c11' = [c11 EXCEPT ![id] = @ + 1]
                             /\ c2' = c2 \cup {[id |-> id, birth |-> c11[id] + 1, status |-> "open", profile |-> "own"]}
    BY <1>5 DEF Lists!RowAppears
  <2> DEFINE new == [id |-> id, birth |-> c11[id] + 1, status |-> "open", profile |-> "own"]
  <2>2. new \in ListRow /\ new.id = id /\ new.birth = c11[id] + 1 BY <1>2, <2>1, ListsAssumption DEF ListRow
  <2>3. \A row \in c2 : row.id # id
    <3>1. \A row \in c2 : row.id < id BY <2>1 DEF Lists!NextId
    <3>2. \A row \in c2 : row.id \in Nat BY ListsAssumption DEF ListsInv, HeldInv, Counted, ListRow
    <3> QED BY <3>1, <3>2, ListsAssumption
  <2>4. c11' \in [RowIds -> 0 .. MaxBirths] BY <1>2, <2>1, ListsAssumption DEF ListsInv, HeldInv
  <2>5. \A i \in RowIds : c11[i] <= c11'[i] BY <1>2, <2>1 DEF ListsInv, HeldInv
  <2> HIDE DEF new
  <2>6. c2' = c2 \cup {new} /\ c11'[id] = c11[id] + 1 BY <2>1 DEF new, ListsInv, HeldInv
  <2>7. Counted(c2', c11')
    <3>1. \A row \in c2 : row.id \in RowIds /\ row.birth \in Nat /\ row \in ListRow /\ row.birth <= c11[row.id] BY ListsAssumption DEF ListsInv, HeldInv, Counted, ListRow
    <3>2. \A i \in RowIds : c11'[i] \in Nat BY <2>4, ListsAssumption
    <3>3. new \in ListRow /\ new.birth <= c11'[new.id] BY <1>2, <2>2, <2>6
    <3> QED BY <1>2, <2>5, <2>6, <3>1, <3>2, <3>3 DEF Counted
  <2>8. Distinct(c2') BY <2>2, <2>3, <2>6 DEF Distinct, ListsInv, HeldInv
  <2>9. new.birth > c11[new.id] BY <1>2, <2>2
  <2> QED BY <1>1, <2>4, <2>5, <2>6, <2>7, <2>8, <2>9 DEF HeldMoves, HeldInv, Lists!SameRow
<1> QED BY <1>1, <1>3, <1>4, <1>5

LEMMA CoreKeeps ==
  ASSUME ListsInv, Lists!RowAppears \/ Lists!RowGoes \/ Lists!RowEnds PROVE ListsInv'
<1>1. HeldMoves /\ UNCHANGED <<c1, c3, c4, c5, c8, c9, c10, c12>> BY CoreMoves
<1>2. HeldInv' /\ ShownInv' BY <1>1, HeldMovesKeep
<1>3. WorkInv' BY <1>1, WorkStays
<1>4. ChoiceInv' /\ ExportInv' BY <1>1 DEF ListsInv, ChoiceInv, ExportInv
<1> QED BY <1>2, <1>3, <1>4 DEF ListsInv

\* ---- reading and choosing ----
HeldStays == UNCHANGED <<c2, c11>>

LEMMA HeldSame == ASSUME ListsInv, UNCHANGED <<c2, c11>> PROVE HeldInv'
  BY DEF ListsInv, HeldInv

LEMMA ReadsKeep ==
  ASSUME ListsInv, Lists!Refetch \/ Lists!ReadServed \/ Lists!ReadLands PROVE ListsInv'
<1>0. UNCHANGED <<c1, c2, c5, c8, c9, c10, c11, c12>> BY DEF Lists!Refetch, Lists!ReadServed, Lists!ReadLands
<1>1. HeldInv' /\ ChoiceInv' /\ WorkInv' /\ ExportInv'
  BY <1>0 DEF ListsInv, HeldInv, ChoiceInv, WorkInv, ExportInv, WorkFits, WorkTells, Lists!Scoped
<1>2. CASE Lists!Refetch
  <2>1. c4' = [at |-> "asked", rows |-> {}] /\ c3' = c3 BY <1>2 DEF Lists!Refetch, Lists!ReadOwed
  <2> QED BY <1>0, <1>1, <2>1 DEF ListsInv, ShownInv, Counted
<1>3. CASE Lists!ReadServed
  <2>1. c4' = [at |-> "served", rows |-> c2] /\ c3' = c3 BY <1>3 DEF Lists!ReadServed
  <2>2. c2 \subseteq ListRow /\ Counted(c2, c11) BY DEF ListsInv, HeldInv, Counted
  <2>3. Apart(c2, c12) BY DEF ListsInv, ShownInv, Apart, NotIn, Lists!SameRow
  <2> QED BY <1>0, <1>1, <2>1, <2>2, <2>3 DEF ListsInv, ShownInv
<1>4. CASE Lists!ReadLands
  <2>1. c4' = [at |-> "idle", rows |-> {}] /\ c3' = c4.rows /\ c4.at = "served" BY <1>4 DEF Lists!ReadLands, Lists!NoRead
  <2> QED BY <1>0, <1>1, <2>1 DEF ListsInv, ShownInv, Counted
<1> QED BY <1>2, <1>3, <1>4

Choosing ==
    \/ Lists!ToggleToken \/ Lists!TypeSearch \/ Lists!Toggle \/ Lists!SelectAll \/ Lists!ClearTicks
    \/ Lists!AskOne \/ Lists!AskBulk \/ Lists!AskProfile \/ Lists!Cancel

LEMMA RowsShown == ASSUME ListsInv PROVE \A row \in Lists!Rows \cup c3 : row.id \in RowIds /\ row \in ListRow
  BY DEF ListsInv, ShownInv, Counted, Lists!Rows, ListRow

LEMMA ChoosingKeeps == ASSUME ListsInv, Choosing PROVE ListsInv'
<1>0. UNCHANGED <<c1, c2, c3, c4, c9, c10, c11, c12>>
  BY DEF Choosing, Lists!ToggleToken, Lists!TypeSearch, Lists!Toggle, Lists!SelectAll, Lists!ClearTicks, Lists!AskOne, Lists!AskBulk,
     Lists!AskProfile, Lists!Cancel
<1>1. HeldInv' /\ ShownInv' /\ WorkInv' /\ ExportInv'
  BY <1>0 DEF ListsInv, HeldInv, ShownInv, WorkInv, ExportInv, WorkFits, WorkTells, Lists!Scoped
<1>2. \A row \in Lists!Rows : row.id \in RowIds BY RowsShown
<1>3. c5' \subseteq RowIds
  <2>1. CASE Lists!Toggle BY <1>2, <2>1 DEF Lists!Toggle, ListsInv, ChoiceInv
  <2>2. CASE Lists!SelectAll BY <1>2, <2>2 DEF Lists!SelectAll, ListsInv, ChoiceInv
  <2>3. CASE Lists!ToggleToken \/ Lists!ClearTicks BY <2>3 DEF Lists!ToggleToken, Lists!ClearTicks
  <2>4. CASE Lists!TypeSearch \/ Lists!AskOne \/ Lists!AskBulk \/ Lists!AskProfile \/ Lists!Cancel
    BY <2>4 DEF Lists!TypeSearch, Lists!AskOne, Lists!AskBulk, Lists!AskProfile, Lists!Cancel, ListsInv, ChoiceInv
  <2> QED BY <2>1, <2>2, <2>3, <2>4 DEF Choosing
<1>4. c8' = c8 \/ c8' = [about |-> "nothing", id |-> 0] \/ c8' = [about |-> "bulk", id |-> 0] \/ c8' = [about |-> "profile", id |-> 0]
      \/ \E row \in Lists!Rows : c8' = [about |-> "one", id |-> row.id]
  BY DEF Choosing, Lists!ToggleToken, Lists!TypeSearch, Lists!Toggle, Lists!SelectAll, Lists!ClearTicks, Lists!AskOne, Lists!AskBulk,
     Lists!AskProfile, Lists!Cancel, Lists!NoAsk
<1>5. ChoiceInv'
  <2>1. c8' \in [about : {"nothing", "one", "bulk", "profile"}, id : RowIds \cup {0}] /\ (c8'.about = "one" => c8'.id \in RowIds)
    BY <1>2, <1>4 DEF ListsInv, ChoiceInv
  <2> QED BY <1>0, <1>3, <2>1 DEF ListsInv, ChoiceInv
<1> QED BY <1>1, <1>5 DEF ListsInv

\* ---- removing, and setting a profile ----
LEMMA TickedShown == ASSUME ListsInv PROVE Lists!TickedRows \subseteq c3 /\ Lists!SelectedIds \subseteq RowIds
<1>1. Lists!TickedRows \subseteq c3 BY DEF Lists!TickedRows, Lists!Rows
<1> QED BY <1>1, RowsShown DEF Lists!SelectedIds, ListsInv, ChoiceInv

LEMMA WorkStarts ==
  ASSUME ListsInv, Lists!ConfirmOne \/ Lists!ConfirmBulk \/ Lists!ApplyProfile PROVE ListsInv'
<1>1. PICK kind \in {"one", "bulk", "profile"}, ids \in SUBSET RowIds : Lists!Starts(kind, ids)
  <2>1. CASE Lists!ConfirmOne
    <3>1. {c8.id} \subseteq RowIds BY <2>1 DEF Lists!ConfirmOne, ListsInv, ChoiceInv
    <3> QED BY <2>1, <3>1 DEF Lists!ConfirmOne
  <2>2. CASE Lists!ConfirmBulk BY <2>2, TickedShown DEF Lists!ConfirmBulk
  <2>3. CASE Lists!ApplyProfile
    <3>1. {row.id : row \in Lists!TickedRows} \subseteq RowIds BY TickedShown, RowsShown
    <3> QED BY <2>3, <3>1 DEF Lists!ApplyProfile
  <2> QED BY <2>1, <2>2, <2>3
<1> DEFINE given == {row \in c3 : row.id \in ids}
<1>2. c9' = [kind |-> kind, todo |-> ids, done |-> {}, failed |-> {}, rows |-> given] BY <1>1 DEF Lists!Starts, Lists!NoWork
<1>3. given \subseteq ListRow /\ Counted(given, c11) /\ \A row \in given : row.id \in ids
  BY DEF ListsInv, ShownInv, Counted
<1> HIDE DEF given
<1>5. UNCHANGED <<c1, c2, c3, c4, c5, c8, c10, c11, c12>> BY <1>1 DEF Lists!Starts
<1>4. c9' \in Works /\ Counted(c9'.done, c11') /\ Counted(c9'.rows, c11') BY <1>2, <1>3, <1>5 DEF Works, Counted
<1>6. WorkTells(c9, c2)' BY <1>2, <1>3 DEF WorkTells, Lists!Scoped
<1>7. WorkInv' BY <1>4, <1>6 DEF WorkInv, WorkFits
<1> QED BY <1>5, <1>7 DEF ListsInv, HeldInv, ShownInv, ChoiceInv, ExportInv

\* The core removes the rows of an id, or leaves them.
LEMMA CoreRemovesMoves ==
  ASSUME ListsInv, NEW id \in RowIds, Lists!CoreRemoves(id), UNCHANGED c11
  PROVE  HeldMoves /\ (Lists!Removable(id) => \A row \in c2' : row.id # id)
<1>1. c2' \subseteq c2 /\ (Lists!Removable(id) => \A row \in c2' : row.id # id) BY DEF Lists!CoreRemoves
<1>2. \A i \in RowIds : c11[i] \in Nat BY CountsFacts
<1> QED BY <1>1, <1>2 DEF HeldMoves, ListsInv, HeldInv, Counted, Distinct, Lists!SameRow

Finished == c9' = Lists!NoWork /\ c8' = Lists!NoAsk

LEMMA FinishedFits == ASSUME ListsInv, Finished, UNCHANGED <<c1, c5>> PROVE WorkInv' /\ ChoiceInv'
<1>1. c9' = [kind |-> "none", todo |-> {}, done |-> {}, failed |-> {}, rows |-> {}] /\ c8' = [about |-> "nothing", id |-> 0]
  BY DEF Finished, Lists!NoWork, Lists!NoAsk
<1>2. WorkInv' BY <1>1 DEF WorkInv, WorkFits, WorkTells, Works, Counted
<1> QED BY <1>1, <1>2 DEF ListsInv, ChoiceInv

LEMMA WorkAdvances ==
  ASSUME ListsInv, HeldMoves, NEW id \in RowIds, c9.kind \in {"one", "bulk"},
         \A row \in c2' : row.id # id,
         NEW left \in SUBSET c9.todo, c9.todo \ {id} \subseteq left \/ c9.kind = "one",
         NEW before \in SUBSET c9.done,
         c9' = [c9 EXCEPT !.todo = left, !.done = before \cup {row \in c2 : row.id = id}],
         UNCHANGED c1
  PROVE  WorkInv'
<1> DEFINE removed == {row \in c2 : row.id = id}
<1>1. c9 \in Works /\ Counted(c9.done, c11') /\ Counted(c9.rows, c11') /\ Counted(c2, c11')
  BY CountedStays DEF ListsInv, HeldInv, WorkInv, WorkFits
<1>2. removed \subseteq ListRow BY DEF ListsInv, HeldInv, Counted
<1> HIDE DEF removed
<1>3. c9' \in Works /\ c9'.kind = c9.kind /\ c9'.todo = left /\ c9'.done = before \cup removed /\ c9'.failed = c9.failed /\ c9'.rows = c9.rows
  BY <1>1, <1>2 DEF Works, removed
<1>4. Counted(c9'.done, c11') BY <1>1, <1>3 DEF Counted, removed
<1>5. \A row : row.id = id => NotIn(row, c2') BY DEF NotIn, Lists!SameRow
<1>6. \A row \in c9.done \cup c9.rows : NotIn(row, c2) => NotIn(row, c2')
  BY GoneStays DEF ListsInv, WorkInv, WorkFits, Counted
<1>7. \A row \in c9'.done : NotIn(row, c2') BY <1>3, <1>5, <1>6 DEF removed, ListsInv, WorkInv, WorkTells
<1>8. c9.kind = "bulk" => \A row \in c9.rows : row.id \in left \cup c9.failed \/ NotIn(row, c2')
  BY <1>5, <1>6 DEF ListsInv, WorkInv, WorkTells
<1>9. WorkTells(c9', c2') BY <1>3, <1>7, <1>8 DEF WorkTells, ListsInv, WorkInv, Lists!Scoped
<1>10. WorkTells(c9, c2)' BY <1>9 DEF WorkTells, Lists!Scoped
<1> QED BY <1>1, <1>3, <1>4, <1>10 DEF WorkInv, WorkFits

LEMMA WorkSkips ==
  ASSUME ListsInv, HeldMoves, NEW id \in c9.todo, c9.kind = "bulk", Lists!Scoped,
         c9' = [c9 EXCEPT !.todo = @ \ {id}, !.failed = @ \cup {id}], UNCHANGED c1
  PROVE  WorkInv'
<1>1. c9 \in Works /\ Counted(c9.done, c11') /\ Counted(c9.rows, c11')
  BY CountedStays DEF ListsInv, WorkInv, WorkFits
<1>2. c9' \in Works /\ c9'.kind = "bulk" /\ c9'.todo = c9.todo \ {id} /\ c9'.done = c9.done /\ c9'.failed = c9.failed \cup {id} /\ c9'.rows = c9.rows
  BY <1>1 DEF Works
<1>3. \A row \in c9.done \cup c9.rows : NotIn(row, c2) => NotIn(row, c2')
  BY GoneStays DEF ListsInv, WorkInv, WorkFits, Counted
<1>4. \A row \in c9'.done : NotIn(row, c2') BY <1>2, <1>3 DEF ListsInv, WorkInv, WorkTells
<1>5. \A row \in c9'.rows : row.id \in c9'.todo \cup c9'.failed \/ NotIn(row, c2') BY <1>2, <1>3 DEF ListsInv, WorkInv, WorkTells
<1>6. WorkTells(c9, c2)' BY <1>2, <1>4, <1>5 DEF WorkTells, Lists!Scoped
<1> QED BY <1>1, <1>2, <1>6 DEF WorkInv, WorkFits

LEMMA RemovesKeep == ASSUME ListsInv, Lists!RemoveOne \/ Lists!RemoveNext PROVE ListsInv'
<1>1. PICK id \in c9.todo :
        \/ /\ Lists!Removable(id) /\ Lists!CoreRemoves(id)
           /\ \/ c9' = [c9 EXCEPT !.todo = {}, !.done = {row \in c2 : row.id = id}] /\ c9.kind = "one"
              \/ c9' = [c9 EXCEPT !.todo = @ \ {id}, !.done = @ \cup {row \in c2 : row.id = id}] /\ c9.kind = "bulk"
           /\ UNCHANGED <<c3, c4, c5, c8, c11, c12>>
        \/ c9.kind = "bulk" /\ Lists!Scoped /\ Lists!SkipFailed(id)
        \/ Lists!StopAtFailure(id)
  BY DEF Lists!RemoveOne, Lists!RemoveNext
<1>2. UNCHANGED <<c1, c10>> BY DEF Lists!RemoveOne, Lists!RemoveNext
<1>3. id \in RowIds /\ c9 \in Works BY DEF ListsInv, WorkInv, WorkFits, Works
<1>4. Lists!CoreRemoves(id) /\ UNCHANGED <<c3, c4, c5, c11, c12>> BY <1>1 DEF Lists!SkipFailed, Lists!StopAtFailure
<1>5. HeldMoves /\ (Lists!Removable(id) => \A row \in c2' : row.id # id) BY <1>3, <1>4, CoreRemovesMoves
<1>6. HeldInv' /\ ShownInv' /\ ExportInv' BY <1>2, <1>4, <1>5, HeldMovesKeep DEF ListsInv, ExportInv
<1>7. CASE Lists!StopAtFailure(id)
  <2>1. Finished BY <1>7 DEF Lists!StopAtFailure, Lists!Finishes, Finished
  <2> QED BY <1>2, <1>4, <1>6, <2>1, FinishedFits DEF ListsInv
<1>8. CASE c9.kind = "bulk" /\ Lists!Scoped /\ Lists!SkipFailed(id)
  <2>1. WorkInv' BY <1>2, <1>5, <1>8, WorkSkips DEF Lists!SkipFailed
  <2>2. ChoiceInv' BY <1>2, <1>4, <1>8 DEF Lists!SkipFailed, ListsInv, ChoiceInv
  <2> QED BY <1>6, <2>1, <2>2 DEF ListsInv
<1>9. CASE /\ Lists!Removable(id) /\ Lists!CoreRemoves(id)
           /\ \/ c9' = [c9 EXCEPT !.todo = {}, !.done = {row \in c2 : row.id = id}] /\ c9.kind = "one"
              \/ c9' = [c9 EXCEPT !.todo = @ \ {id}, !.done = @ \cup {row \in c2 : row.id = id}] /\ c9.kind = "bulk"
           /\ UNCHANGED <<c3, c4, c5, c8, c11, c12>>
  <2>1. ChoiceInv' BY <1>2, <1>9 DEF ListsInv, ChoiceInv
  <2>2. WorkInv'
    <3>1. CASE c9' = [c9 EXCEPT !.todo = {}, !.done = {row \in c2 : row.id = id}] /\ c9.kind = "one"
      <4>1. c9' = [c9 EXCEPT !.todo = {}, !.done = {} \cup {row \in c2 : row.id = id}] BY <3>1
      <4>2. {} \in SUBSET c9.todo /\ {} \in SUBSET c9.done /\ \A row \in c2' : row.id # id BY <1>5, <1>9
      <4> QED BY <1>2, <1>3, <1>5, <3>1, <4>1, <4>2, WorkAdvances
    <3>2. CASE c9' = [c9 EXCEPT !.todo = @ \ {id}, !.done = @ \cup {row \in c2 : row.id = id}] /\ c9.kind = "bulk"
      <4>1. c9' = [c9 EXCEPT !.todo = c9.todo \ {id}, !.done = c9.done \cup {row \in c2 : row.id = id}] BY <3>2
      <4>2. c9.todo \ {id} \in SUBSET c9.todo /\ c9.done \in SUBSET c9.done /\ \A row \in c2' : row.id # id BY <1>5, <1>9
      <4> QED BY <1>2, <1>3, <1>5, <3>2, <4>1, <4>2, WorkAdvances
    <3> QED BY <1>9, <3>1, <3>2
  <2> QED BY <1>6, <2>1, <2>2 DEF ListsInv
<1> QED BY <1>1, <1>7, <1>8, <1>9

LEMMA RemovalEndsKeeps == ASSUME ListsInv, Lists!RemovalEnds PROVE ListsInv'
<1>1. /\ c3' = {row \in c3 : \A old \in c9.done : old.id # row.id} /\ c12' = c12 \cup c9.done
      /\ c4' = [at |-> "asked", rows |-> {}] /\ UNCHANGED <<c1, c2, c10, c11>>
  BY DEF Lists!RemovalEnds, Lists!ForgetRemoved, Lists!ReadOwed
<1>2. Counted(c9.done, c11) /\ c9.failed \subseteq RowIds /\ \A row \in c9.done : NotIn(row, c2)
  BY DEF ListsInv, WorkInv, WorkFits, WorkTells, Works
<1>3. Apart(c3', c12') BY <1>1 DEF Apart, Lists!SameRow, ListsInv, ShownInv
<1>4. Counted(c3', c11') /\ Counted(c12', c11') BY <1>1, <1>2 DEF ListsInv, ShownInv, Counted
<1>5. c4' \in [at : {"idle", "asked", "served"}, rows : SUBSET ListRow] /\ Counted(c4'.rows, c11') /\ c4'.at # "served"
  BY <1>1 DEF Counted
<1>6. \A row \in c12' : NotIn(row, c2') BY <1>1, <1>2 DEF ListsInv, ShownInv
<1>7. ShownInv' BY <1>3, <1>4, <1>5, <1>6 DEF ShownInv
<1>8. c5' \subseteq RowIds BY <1>2 DEF Lists!RemovalEnds, Lists!TicksLeft, ListsInv, ChoiceInv
<1>9. c9' = Lists!NoWork /\ c8' = Lists!NoAsk BY DEF Lists!RemovalEnds, Lists!Finishes
<1>10. WorkInv'
  <2>1. c9' = [kind |-> "none", todo |-> {}, done |-> {}, failed |-> {}, rows |-> {}] BY <1>9 DEF Lists!NoWork
  <2> QED BY <2>1 DEF WorkInv, WorkFits, WorkTells, Works, Counted
<1>11. ChoiceInv' BY <1>1, <1>8, <1>9 DEF ListsInv, ChoiceInv, Lists!NoAsk
<1> QED BY <1>1, <1>7, <1>10, <1>11 DEF ListsInv, HeldInv, ExportInv

\* ---- one profile on many ----
LEMMA SetMoves ==
  ASSUME ListsInv, NEW id \in RowIds, NEW torndown \in BOOLEAN, UNCHANGED c11,
         c2' = {IF row.id = id /\ Lists!Settable(id, torndown) THEN [row EXCEPT !.profile = "chosen"] ELSE row : row \in c2}
  PROVE  HeldMoves /\ (Lists!Settable(id, torndown) => \A row \in c2' : row.id = id => row.profile = "chosen")
<1> DEFINE Changed(row) == IF row.id = id /\ Lists!Settable(id, torndown) THEN [row EXCEPT !.profile = "chosen"] ELSE row
<1>1. \A row \in c2 : /\ Changed(row) \in ListRow /\ Changed(row).id = row.id /\ Changed(row).birth = row.birth
                      /\ (row.profile = "chosen" => Changed(row).profile = "chosen")
                      /\ (Lists!Settable(id, torndown) /\ row.id = id => Changed(row).profile = "chosen")
  <2> SUFFICES ASSUME NEW row \in c2
               PROVE  /\ Changed(row) \in ListRow /\ Changed(row).id = row.id /\ Changed(row).birth = row.birth
                      /\ (row.profile = "chosen" => Changed(row).profile = "chosen")
                      /\ (Lists!Settable(id, torndown) /\ row.id = id => Changed(row).profile = "chosen")
    OBVIOUS
  <2>1. row \in ListRow BY DEF ListsInv, HeldInv, Counted
  <2> QED BY <2>1 DEF ListRow
<1>2. c2' = {Changed(row) : row \in c2} OBVIOUS
<1> HIDE DEF Changed
<1>3. \A i \in RowIds : c11[i] \in Nat BY CountsFacts
<1>4. Counted(c2', c11')
  <2>1. \A row \in c2 : row.birth <= c11[row.id] BY DEF ListsInv, HeldInv, Counted
  <2> QED BY <1>1, <1>2, <2>1 DEF Counted
<1>5. Distinct(c2') BY <1>1, <1>2 DEF ListsInv, HeldInv, Distinct
<1>6. \A row \in c2' : \E old \in c2 : Lists!SameRow(old, row) /\ (old.profile = "chosen" => row.profile = "chosen")
  BY <1>1, <1>2 DEF Lists!SameRow
<1>7. HeldInv' BY <1>4, <1>5 DEF ListsInv, HeldInv
<1> QED BY <1>1, <1>2, <1>3, <1>6, <1>7 DEF HeldMoves

LEMMA SetNextKeeps == ASSUME ListsInv, Lists!SetNext PROVE ListsInv'
<1>0. c9.kind = "profile" /\ UNCHANGED <<c1, c3, c4, c5, c8, c10, c11, c12>> BY DEF Lists!SetNext
<1>1. PICK id \in c9.todo, lost, torndown \in BOOLEAN :
         /\ c2' = {IF row.id = id /\ Lists!Settable(id, torndown) THEN [row EXCEPT !.profile = "chosen"] ELSE row : row \in c2}
         /\ c9' = [c9 EXCEPT !.todo = @ \ {id}, !.failed = IF Lists!Settable(id, torndown) /\ ~lost THEN @ ELSE @ \cup {id}]
  BY DEF Lists!SetNext
<1>2. c9 \in Works /\ id \in RowIds BY DEF ListsInv, WorkInv, WorkFits, Works
<1>3. HeldMoves /\ (Lists!Settable(id, torndown) => \A row \in c2' : row.id = id => row.profile = "chosen") BY <1>0, <1>1, <1>2, SetMoves
<1>4. HeldInv' /\ ShownInv' BY <1>0, <1>3, HeldMovesKeep
<1>5. Counted(c9.done, c11') /\ Counted(c9.rows, c11') BY <1>3, CountedStays DEF ListsInv, WorkInv, WorkFits
<1> DEFINE refused == IF Lists!Settable(id, torndown) /\ ~lost THEN c9.failed ELSE c9.failed \cup {id}
<1>6. c9' \in Works /\ c9'.kind = "profile" /\ c9'.todo = c9.todo \ {id} /\ c9'.done = c9.done /\ c9'.failed = refused /\ c9'.rows = c9.rows
  BY <1>0, <1>1, <1>2 DEF Works
<1>7. \A row \in c9.done \cup c9.rows : (NotIn(row, c2) => NotIn(row, c2')) /\ (ChosenIn(row, c2) => ChosenIn(row, c2'))
  BY <1>3, GoneStays DEF ListsInv, WorkInv, WorkFits, Counted
<1>8. \A row \in c9'.done : NotIn(row, c2') BY <1>6, <1>7 DEF ListsInv, WorkInv, WorkTells
<1>9. \A row \in c9'.rows : row.id \in c9'.todo \cup c9'.failed \/ ChosenIn(row, c2')
  <2> SUFFICES ASSUME NEW row \in c9.rows, row.id \notin c9'.todo, row.id \notin c9'.failed PROVE ChosenIn(row, c2') BY <1>6
  <2>1. CASE row.id \in c9.todo
    <3>1. row.id = id /\ Lists!Settable(id, torndown) BY <1>6, <2>1
    <3> QED BY <1>3, <3>1 DEF ChosenIn, Lists!SameRow
  <2>2. CASE row.id \notin c9.todo
    <3>1. row.id \notin c9.failed BY <1>6
    <3>2. ChosenIn(row, c2) BY <1>0, <2>2, <3>1 DEF ListsInv, WorkInv, WorkTells
    <3> QED BY <1>7, <3>2
  <2> QED BY <2>1, <2>2
<1>10. WorkTells(c9, c2)' BY <1>6, <1>8, <1>9 DEF WorkTells
<1>11. WorkInv' BY <1>5, <1>6, <1>10 DEF WorkInv, WorkFits
<1>12. ChoiceInv' /\ ExportInv' BY <1>0 DEF ListsInv, ChoiceInv, ExportInv
<1> QED BY <1>4, <1>11, <1>12 DEF ListsInv

LEMMA SetEndsKeeps == ASSUME ListsInv, Lists!SetEnds PROVE ListsInv'
<1>1. /\ c4' = [at |-> "asked", rows |-> {}] /\ c5' = {} /\ UNCHANGED <<c1, c2, c3, c10, c11, c12>>
      /\ c9' = [kind |-> "none", todo |-> {}, done |-> {}, failed |-> {}, rows |-> {}] /\ c8' = [about |-> "nothing", id |-> 0]
  BY DEF Lists!SetEnds, Lists!ReadOwed, Lists!Finishes, Lists!NoWork, Lists!NoAsk
<1>2. WorkInv' BY <1>1 DEF WorkInv, WorkFits, WorkTells, Works, Counted
<1>3. ShownInv' BY <1>1 DEF ListsInv, ShownInv, Counted
<1> QED BY <1>1, <1>2, <1>3 DEF ListsInv, HeldInv, ChoiceInv, ExportInv

\* ---- exporting ----
LEMMA ExportsKeep == ASSUME ListsInv, Lists!Export \/ Lists!ExportNext \/ Lists!ExportEnds PROVE ListsInv'
<1>1. UNCHANGED <<c1, c2, c3, c4, c8, c9, c11, c12>> BY DEF Lists!Export, Lists!ExportNext, Lists!ExportEnds
<1>2. HeldInv' /\ ShownInv' /\ WorkInv' BY <1>1 DEF ListsInv, HeldInv, ShownInv, WorkInv, WorkFits, WorkTells, Lists!Scoped
<1>3. c5' \subseteq RowIds BY DEF Lists!Export, Lists!ExportNext, Lists!ExportEnds, ListsInv, ChoiceInv
<1>4. ChoiceInv' BY <1>1, <1>3 DEF ListsInv, ChoiceInv
<1>5. CASE Lists!Export
  <2>1. c10' = [todo |-> {row.id : row \in Lists!TickedRows}, file |-> {}, rows |-> Lists!TickedRows]
    BY <1>5 DEF Lists!Export, Lists!NoExport
  <2>2. \A row \in Lists!TickedRows : row.id \in RowIds /\ row \in ListRow BY TickedShown, RowsShown
  <2> HIDE DEF Lists!TickedRows
  <2>3. ExportInv' BY <2>1, <2>2 DEF ExportInv, Exports, ExportTells
  <2> QED BY <1>2, <1>4, <2>3 DEF ListsInv
<1>6. CASE Lists!ExportNext \/ Lists!ExportEnds
  <2>1. CASE c10' = Lists!NoExport BY <1>2, <1>4, <2>1 DEF ListsInv, ExportInv, Exports, ExportTells, Lists!NoExport
  <2>2. CASE c10' # Lists!NoExport
    <3>1. PICK id \in c10.todo : /\ \E row \in c2 : row.id = id
                                 /\ c10' = [c10 EXCEPT !.todo = @ \ {id}, !.file = @ \cup {row \in c2 : row.id = id}]
      BY <1>6, <2>2 DEF Lists!ExportNext, Lists!ExportEnds
    <3> DEFINE found == {row \in c2 : row.id = id}
    <3>2. found \subseteq ListRow /\ \E row \in found : row.id = id BY <3>1 DEF ListsInv, HeldInv, Counted
    <3>3. c10 \in Exports BY DEF ListsInv, ExportInv
    <3> HIDE DEF found
    <3>4. c10' \in Exports /\ c10'.todo = c10.todo \ {id} /\ c10'.file = c10.file \cup found /\ c10'.rows = c10.rows
      BY <3>1, <3>2, <3>3 DEF Exports, found
    <3>5. ExportTells(c10') BY <3>2, <3>4 DEF ListsInv, ExportInv, ExportTells
    <3>6. ExportTells(c10)' BY <3>5 DEF ExportTells
    <3> QED BY <1>2, <1>4, <3>4, <3>6 DEF ListsInv, ExportInv
  <2> QED BY <2>1, <2>2
<1> QED BY <1>5, <1>6

\* ---- the five pages together ----
LEMMA ListsBegins == Lists!ListsInit => ListsInv
<1> SUFFICES ASSUME Lists!ListsInit PROVE ListsInv OBVIOUS
<1>1. /\ c2 = StartRows /\ c3 = StartRows /\ c12 = {} /\ c5 = {}
      /\ c4 = [at |-> "idle", rows |-> {}] /\ c8 = [about |-> "nothing", id |-> 0]
      /\ c9 = [kind |-> "none", todo |-> {}, done |-> {}, failed |-> {}, rows |-> {}]
      /\ c10 = [todo |-> {}, file |-> {}, rows |-> {}] /\ c1 \in Lists!Panels
  BY DEF Lists!ListsInit, Lists!NoRead, Lists!NoAsk, Lists!NoWork, Lists!NoExport
<1>2. c11 = [id \in RowIds |-> IF \E row \in StartRows : row.id = id THEN 1 ELSE 0] BY DEF Lists!ListsInit
<1>3. \A row \in StartRows : row \in ListRow /\ row.id \in RowIds /\ row.birth = 1 /\ 1 \in 1 .. MaxBirths
  BY ListsAssumption DEF ListRow
<1>4. c11 \in [RowIds -> 0 .. MaxBirths]
  <2> SUFFICES ASSUME NEW id \in RowIds PROVE (IF \E row \in StartRows : row.id = id THEN 1 ELSE 0) \in 0 .. MaxBirths BY <1>2
  <2> QED BY <1>3, ListsAssumption
<1>5. Counted(StartRows, c11) BY <1>2, <1>3 DEF Counted
<1>6. HeldInv BY <1>1, <1>4, <1>5, ListsAssumption DEF HeldInv, Distinct
<1>7. ShownInv BY <1>1, <1>5 DEF ShownInv, Counted, Apart
<1>8. WorkInv BY <1>1 DEF WorkInv, WorkFits, WorkTells, Works, Counted
<1>9. ExportInv BY <1>1 DEF ExportInv, Exports, ExportTells
<1>10. ChoiceInv BY <1>1 DEF ChoiceInv
<1> QED BY <1>6, <1>7, <1>8, <1>9, <1>10 DEF ListsInv

\* The pages offer the same actions, each some of them.
LEMMA PagesAct ==
  ASSUME Lists!ListsNext
  PROVE  \/ Lists!RowAppears \/ Lists!RowGoes \/ Lists!RowEnds
         \/ Lists!Refetch \/ Lists!ReadServed \/ Lists!ReadLands
         \/ Choosing
         \/ Lists!ConfirmOne \/ Lists!ConfirmBulk \/ Lists!ApplyProfile
         \/ Lists!RemoveOne \/ Lists!RemoveNext \/ Lists!RemovalEnds
         \/ Lists!SetNext \/ Lists!SetEnds
         \/ Lists!Export \/ Lists!ExportNext \/ Lists!ExportEnds
  BY DEF Lists!ListsNext, Lists!SessionCard, Lists!RecordingCard, Lists!ProfileRow, Lists!SourceRow, Lists!AutorunCard,
     Lists!SessionsListView, Lists!RecordingsView, Lists!ProfilesPanel, Lists!SourcesPanel, Lists!AutorunsListView,
     Lists!RemoveSessions, Lists!RemoveAutoruns, Lists!RemoveRecordings, Lists!RemoveProfiles, Lists!RemoveSources,
     Lists!Confirms, Lists!BulkActions, Choosing

LEMMA ListsKeeps == ListsInv /\ Lists!ListsNext => ListsInv'
  BY PagesAct, CoreKeeps, ReadsKeep, ChoosingKeeps, WorkStarts, RemovesKeep, RemovalEndsKeeps, SetNextKeeps, SetEndsKeeps, ExportsKeep

LEMMA ListsStays == ListsInv /\ UNCHANGED cells => ListsInv'
<1> SUFFICES ASSUME ListsInv, UNCHANGED cells PROVE ListsInv' OBVIOUS
<1>1. UNCHANGED <<c1, c2, c3, c4, c5, c8, c9, c10, c11, c12>> BY DEF cells
<1> QED BY <1>1 DEF ListsInv, HeldInv, ShownInv, ChoiceInv, WorkInv, ExportInv, WorkFits, WorkTells, Lists!Scoped

LEMMA ListsShows == ListsInv => Lists!ListsTypeOK /\ Lists!RemovedStaysGone
<1> SUFFICES ASSUME ListsInv PROVE Lists!ListsTypeOK /\ Lists!RemovedStaysGone OBVIOUS
<1>1. \A row \in c2 \cup c3 \cup c12 : row.id \in RowIds /\ row.birth \in 1 .. MaxBirths
  BY DEF ListsInv, HeldInv, ShownInv, Counted, ListRow
<1>2. c9.kind \in {"none", "one", "bulk", "profile"} /\ c9.todo \cup c9.failed \subseteq RowIds
  BY DEF ListsInv, WorkInv, WorkFits, Works
<1> QED BY <1>1, <1>2 DEF Lists!ListsTypeOK, Lists!RemovedStaysGone, ListsInv, HeldInv, ShownInv, Apart, Distinct, ChoiceInv

\* ---- what ends, and what it leaves ----
\* The work is over with a removal that went through every row, with one that a
\* refusal stopped, or with a change of profile.
LEMMA WorkEnds ==
  ASSUME ListsInv, Lists!ListsNext, c9 # Lists!NoWork, c9' = Lists!NoWork
  PROVE  \/ Lists!RemovalEnds \/ Lists!SetEnds
         \/ c9.kind # "profile" /\ \E id \in c9.todo : Lists!StopAtFailure(id)
<1>1. CASE \/ Lists!RowAppears \/ Lists!RowGoes \/ Lists!RowEnds BY <1>1, CoreMoves
<1>2. CASE \/ Lists!Refetch \/ Lists!ReadServed \/ Lists!ReadLands BY <1>2 DEF Lists!Refetch, Lists!ReadServed, Lists!ReadLands
<1>3. CASE Choosing
  BY <1>3 DEF Choosing, Lists!ToggleToken, Lists!TypeSearch, Lists!Toggle, Lists!SelectAll, Lists!ClearTicks, Lists!AskOne, Lists!AskBulk,
     Lists!AskProfile, Lists!Cancel
<1>4. CASE Lists!ConfirmOne \/ Lists!ConfirmBulk \/ Lists!ApplyProfile
  BY <1>4 DEF Lists!ConfirmOne, Lists!ConfirmBulk, Lists!ApplyProfile, Lists!Starts
<1>5. CASE Lists!Export \/ Lists!ExportNext \/ Lists!ExportEnds BY <1>5 DEF Lists!Export, Lists!ExportNext, Lists!ExportEnds
<1>6. c9 \in Works BY DEF ListsInv, WorkInv, WorkFits
<1>7. c9'.kind = "none" BY DEF Lists!NoWork
<1>8. CASE Lists!SetNext
  <2>1. PICK todo, failed : c9' = [c9 EXCEPT !.todo = todo, !.failed = failed] BY <1>8 DEF Lists!SetNext
  <2>2. c9'.kind = c9.kind BY <1>6, <2>1 DEF Works
  <2> QED BY <1>7, <1>8, <2>2 DEF Lists!SetNext
<1>9. CASE Lists!RemoveOne \/ Lists!RemoveNext
  <2>0. c9.kind \in {"one", "bulk"} BY <1>9 DEF Lists!RemoveOne, Lists!RemoveNext
  <2>1. PICK id \in c9.todo :
        \/ \E todo, done : c9' = [c9 EXCEPT !.todo = todo, !.done = done]
        \/ \E todo, failed : c9' = [c9 EXCEPT !.todo = todo, !.failed = failed]
        \/ Lists!StopAtFailure(id)
    BY <1>9 DEF Lists!RemoveOne, Lists!RemoveNext, Lists!SkipFailed
  <2>2. (\E todo, done : c9' = [c9 EXCEPT !.todo = todo, !.done = done]) => c9'.kind = c9.kind BY <1>6 DEF Works
  <2>3. (\E todo, failed : c9' = [c9 EXCEPT !.todo = todo, !.failed = failed]) => c9'.kind = c9.kind BY <1>6 DEF Works
  <2>4. Lists!StopAtFailure(id) BY <1>7, <2>0, <2>1, <2>2, <2>3
  <2> QED BY <2>0, <2>4
<1> QED BY <1>1, <1>2, <1>3, <1>4, <1>5, <1>8, <1>9, PagesAct

LEMMA SurvivorsTicked == ListsInv /\ Lists!ListsNext => Lists!SurvivorsStayTickedStep
<1> SUFFICES ASSUME ListsInv, Lists!ListsNext, c9.kind = "bulk", c9' = Lists!NoWork, NEW row \in c9.rows, row.id \in c5,
                    NEW other \in c2', Lists!SameRow(row, other)
             PROVE  row.id \in c5'
  BY DEF Lists!SurvivorsStayTickedStep
<1>1. c9 # Lists!NoWork BY DEF Lists!NoWork
<1>2. CASE \E id \in c9.todo : Lists!StopAtFailure(id) BY <1>2 DEF Lists!StopAtFailure
<1>3. CASE Lists!SetEnds BY <1>3 DEF Lists!SetEnds
<1>4. CASE Lists!RemovalEnds
  <2>1. c9.todo = {} /\ c2' = c2 /\ c5' = Lists!TicksLeft BY <1>4 DEF Lists!RemovalEnds
  <2>2. ~NotIn(row, c2) BY <2>1 DEF NotIn
  <2>3. row.id \in c9.failed BY <2>1, <2>2 DEF ListsInv, WorkInv, WorkTells
  <2>4. Lists!Scoped BY <2>3 DEF ListsInv, WorkInv, WorkTells
  <2> QED BY <2>1, <2>3, <2>4 DEF Lists!TicksLeft
<1> QED BY <1>1, <1>2, <1>3, <1>4, WorkEnds

LEMMA SetMeansSet == ListsInv /\ Lists!ListsNext => Lists!SetMeansSetStep
<1> SUFFICES ASSUME ListsInv, Lists!ListsNext, c9.kind = "profile", c9' = Lists!NoWork, c9.failed = {}, NEW row \in c9.rows, NEW now \in c2',
                    Lists!SameRow(row, now)
             PROVE  now.profile = "chosen"
  BY DEF Lists!SetMeansSetStep
<1>1. c9 # Lists!NoWork BY DEF Lists!NoWork
<1>2. Lists!SetEnds
  <2>1. CASE Lists!RemovalEnds BY <2>1 DEF Lists!RemovalEnds
  <2> QED BY <1>1, <2>1, WorkEnds
<1>3. c9.todo = {} /\ c2' = c2 BY <1>2 DEF Lists!SetEnds
<1>4. ChosenIn(row, c2) BY <1>3 DEF ListsInv, WorkInv, WorkTells
<1> QED BY <1>3, <1>4 DEF ChosenIn

LEMMA ExportWhole == ListsInv => Lists!ExportIsWholeStep
  BY DEF ListsInv, ExportInv, ExportTells, Lists!ExportIsWholeStep

-----------------------------------------------------------------------------
\* ---- the scheduled recording ----
RowFields == {"status", "slug", "start", "end", "profile", "capture", "issue"}
Captures == FormProfiles \cup {Custom}
\* The names the form lets through are two, and one is always taken.
AutorunRows ==
    [status : {"scheduled", "active", "terminating", "completed"}, slug : {"a"}, start : Nat, end : Nat,
     profile : FormProfiles \cup {None}, capture : Captures, issue : BOOLEAN]
AutorunForms ==
    [key : {"none", "new", "edit"}, slug : {"", "a", "taken", "not a slug"}, byHand : BOOLEAN, start : Nat, end : Nat,
     mode : {"profile", "custom"}, profile : FormProfiles \cup {None}, capture : Captures \cup {None}, confirm : BOOLEAN,
     error : {"none", "slug", "time", "general"}]
\* What a save may send.
IsBody(b) ==
    /\ b = [field \in DOMAIN b |-> b[field]]
    /\ {"slug"} \subseteq DOMAIN b /\ DOMAIN b \subseteq {"slug", "start", "end", "profile", "capture"}
    /\ b["slug"] \in {"a", "taken"}
    /\ "start" \in DOMAIN b => b["start"] \in Nat
    /\ "end" \in DOMAIN b => b["end"] \in Nat
    /\ "profile" \in DOMAIN b => b["profile"] \in FormProfiles
    /\ "capture" \in DOMAIN b => b["capture"] \in Captures
    /\ "profile" \in DOMAIN b <=> "capture" \notin DOMAIN b
Sendable(f) ==
    /\ f.key # "none" /\ f.slug \in {"a", "taken"}
    /\ f.mode = "profile" => f.profile \in FormProfiles
    /\ f.mode # "profile" => f.capture # None
Stages == {"idle", "sent", "creating", "checked", "done", "refused"}
IsSave(s) ==
    /\ s = [at |-> s.at, body |-> s.body, read |-> s.read, rule |-> s.rule]
    /\ s.at \in Stages
    /\ s.at \in {"sent", "creating", "checked"} => IsBody(s.body)
    /\ s.at = "creating" => {"start", "end"} \subseteq DOMAIN s.body
    /\ s.at = "checked" => s.read \in AutorunRows
Menus == [dialog : {"none", "delete", "save-as-profile"}, sent : {"none", "delete", "save-as-profile", "run-now"}]
FormBudgets == [{"edits", "saves", "others", "refreshes"} -> Nat]
AutorunInv ==
    /\ c1 \in AutorunRows \cup {Autorun!NoRow} /\ c4 \in AutorunRows \cup {Autorun!NoRow}
    /\ c2 \subseteq FormProfiles /\ c5 \subseteq FormProfiles
    /\ c3 \in Nat
    /\ c6 \in AutorunForms /\ (c6.confirm => Sendable(c6))
    /\ IsSave(c7) /\ c8 \in Menus
    /\ c9 \in FormBudgets

\* A row that is there is not the one that is not.
LEMMA RowsAreThere == \A r \in AutorunRows : r # Autorun!NoRow /\ r.status # Autorun!NoRow.status
<1> SUFFICES ASSUME NEW r \in AutorunRows PROVE r.status # Autorun!NoRow.status OBVIOUS
<1> QED BY FormAssumption DEF AutorunRows, Autorun!NoRow

\* ---- what a save sends ----
LEMMA NoFields == DOMAIN <<>> = {}
  OBVIOUS

LEMMA TimesFacts ==
  ASSUME AutorunInv, c6.key # "none"
  PROVE  /\ DOMAIN Autorun!TimesSent \subseteq {"start", "end"}
         /\ \A field \in DOMAIN Autorun!TimesSent : Autorun!TimesSent[field] \in Nat
         /\ c6.key = "new" => DOMAIN Autorun!TimesSent = {"start", "end"}
<1>0. c6.start \in Nat /\ c6.end \in Nat BY DEF AutorunInv, AutorunForms
<1> DEFINE first == IF c6.key = "new" \/ c6.start # c4.start THEN [start |-> c6.start] ELSE <<>>
           last == IF c6.key = "new" \/ c6.end # c4.end THEN [end |-> c6.end] ELSE <<>>
<1>1. DOMAIN first \subseteq {"start"} /\ (\A field \in DOMAIN first : first[field] \in Nat) /\ (c6.key = "new" => DOMAIN first = {"start"})
  BY <1>0, NoFields
<1>2. DOMAIN last \subseteq {"end"} /\ (\A field \in DOMAIN last : last[field] \in Nat) /\ (c6.key = "new" => DOMAIN last = {"end"})
  BY <1>0, NoFields
<1> HIDE DEF first, last
<1>3. CASE Autorun!LiveForm
  <2>1. c6.key # "new" BY <1>3 DEF Autorun!LiveForm
  <2>2. Autorun!TimesSent = [end |-> c6.end] \/ Autorun!TimesSent = <<>> BY <1>3 DEF Autorun!TimesSent
  <2> QED BY <1>0, <2>1, <2>2, NoFields
<1>4. CASE ~Autorun!LiveForm
  <2>1. Autorun!TimesSent = Autorun!Over(first, last) BY <1>4 DEF Autorun!TimesSent, first, last
  <2> QED BY <1>1, <1>2, <2>1 DEF Autorun!Over
<1> QED BY <1>3, <1>4

LEMMA BodyFacts ==
  ASSUME AutorunInv, Sendable(c6)
  PROVE  IsBody(Autorun!BodySent) /\ (c6.key = "new" => {"start", "end"} \subseteq DOMAIN Autorun!BodySent)
<1> DEFINE times == Autorun!TimesSent
           named == Autorun!Over([slug |-> c6.slug], times)
           source == IF c6.mode = "profile" THEN [profile |-> c6.profile] ELSE [capture |-> c6.capture]
<1>1. DOMAIN times \subseteq {"start", "end"} /\ (\A field \in DOMAIN times : times[field] \in Nat) /\ (c6.key = "new" => DOMAIN times = {"start", "end"})
  BY TimesFacts DEF Sendable
<1>2. Autorun!BodySent = Autorun!Over(named, source) BY DEF Autorun!BodySent
<1>3. DOMAIN source = IF c6.mode = "profile" THEN {"profile"} ELSE {"capture"} OBVIOUS
<1>4. /\ "profile" \in DOMAIN source => source["profile"] \in FormProfiles
      /\ "capture" \in DOMAIN source => source["capture"] \in Captures
  <2>1. c6.capture \in Captures \cup {None} BY DEF AutorunInv, AutorunForms
  <2> QED BY <2>1 DEF Sendable
<1> HIDE DEF times, source
<1>5. DOMAIN named = {"slug"} \cup DOMAIN times /\ named["slug"] = c6.slug /\ \A field \in DOMAIN times : named[field] = times[field]
  BY <1>1 DEF Autorun!Over
<1> HIDE DEF named
<1>6. /\ DOMAIN Autorun!BodySent = {"slug"} \cup DOMAIN times \cup DOMAIN source
      /\ Autorun!BodySent = [field \in DOMAIN Autorun!BodySent |-> Autorun!BodySent[field]]
  BY <1>2, <1>5 DEF Autorun!Over
<1>7. /\ Autorun!BodySent["slug"] = c6.slug /\ \A field \in DOMAIN times : Autorun!BodySent[field] = times[field]
      /\ \A field \in DOMAIN source : Autorun!BodySent[field] = source[field]
  BY <1>1, <1>2, <1>3, <1>5 DEF Autorun!Over
<1>8. c6.slug \in {"a", "taken"} BY DEF Sendable
<1> QED BY <1>1, <1>3, <1>4, <1>6, <1>7, <1>8 DEF IsBody

LEMMA PatchFacts ==
  ASSUME IsBody(c7.body)
  PROVE  /\ DOMAIN Autorun!Patch = DOMAIN c7.body \cup {"capture"}
         /\ Autorun!Patch["capture"] \in Captures
         /\ \A field \in DOMAIN c7.body : Autorun!Patch[field] = c7.body[field]
<1>1. CASE "profile" \in DOMAIN c7.body
  <2>1. Autorun!Patch = Autorun!Over(c7.body, [capture |-> c7.body.profile]) BY <1>1 DEF Autorun!Patch
  <2>2. c7.body.profile \in Captures BY <1>1 DEF IsBody, Captures
  <2>3. "capture" \notin DOMAIN c7.body BY <1>1 DEF IsBody
  <2> QED BY <2>1, <2>2, <2>3 DEF Autorun!Over
<1>2. CASE "profile" \notin DOMAIN c7.body
  <2>1. Autorun!Patch = c7.body BY <1>2 DEF Autorun!Patch
  <2> QED BY <1>2, <2>1 DEF IsBody
<1> QED BY <1>1, <1>2

LEMMA RowMade ==
  ASSUME NEW r, r = [field \in RowFields |-> r[field]],
         r["status"] \in {"scheduled", "active", "terminating", "completed"}, r["slug"] \in {"a"}, r["start"] \in Nat, r["end"] \in Nat,
         r["profile"] \in FormProfiles \cup {None}, r["capture"] \in Captures, r["issue"] \in BOOLEAN
  PROVE  r \in AutorunRows
<1>1. r = [status |-> r["status"], slug |-> r["slug"], start |-> r["start"], end |-> r["end"], profile |-> r["profile"],
           capture |-> r["capture"], issue |-> r["issue"]]
  BY DEF RowFields
<1> QED BY <1>1 DEF AutorunRows

LEMMA CreatedRow ==
  ASSUME IsSave(c7), c7.at = "creating", c7.body.slug # "taken",
         NEW r, r = Autorun!Over(Autorun!Patch, [status |-> "scheduled", profile |-> None, issue |-> FALSE])
  PROVE  r \in AutorunRows
<1>1. IsBody(c7.body) /\ {"start", "end"} \subseteq DOMAIN c7.body BY DEF IsSave
<1> DEFINE patch == Autorun!Patch
           rest == [status |-> "scheduled", profile |-> None, issue |-> FALSE]
<1>2. /\ DOMAIN patch = DOMAIN c7.body \cup {"capture"} /\ patch["capture"] \in Captures
      /\ \A field \in DOMAIN c7.body : patch[field] = c7.body[field]
  BY <1>1, PatchFacts
<1>3. r = Autorun!Over(patch, rest) OBVIOUS
<1>4. DOMAIN rest = {"status", "profile", "issue"} /\ rest["status"] = "scheduled" /\ rest["profile"] = None /\ rest["issue"] = FALSE OBVIOUS
<1> HIDE DEF patch, rest
<1>5. DOMAIN patch \cup DOMAIN rest = RowFields BY <1>1, <1>2, <1>4 DEF IsBody, RowFields
<1>6. r = [field \in RowFields |-> IF field \in DOMAIN patch THEN patch[field] ELSE rest[field]] BY <1>3, <1>5 DEF Autorun!Over
<1>7. /\ r["slug"] = c7.body["slug"] /\ r["start"] = c7.body["start"] /\ r["end"] = c7.body["end"] /\ r["capture"] = patch["capture"]
      /\ r["status"] = "scheduled" /\ r["issue"] = FALSE
  BY <1>1, <1>2, <1>4, <1>6 DEF IsBody, RowFields
<1>8. r["profile"] \in FormProfiles \cup {None} BY <1>1, <1>2, <1>4, <1>6 DEF IsBody, RowFields
<1>9. r["slug"] \in {"a"} BY <1>1, <1>7 DEF IsBody
<1> QED BY <1>1, <1>2, <1>6, <1>7, <1>8, <1>9, RowMade DEF IsBody

\* A save writes the fields it sends, and no others but the flag.
LEMMA PatchedRow ==
  ASSUME IsSave(c7), c7.at = "checked", c7.body.slug # "taken", c1 \in AutorunRows, NEW r, r = Autorun!Patched
  PROVE  /\ r \in AutorunRows /\ r.status = c1.status
         /\ \A field \in {"start", "end", "slug"} \ DOMAIN c7.body : r[field] = c1[field]
         /\ c1.issue /\ ~r.issue => c7.read.issue
<1>1. IsBody(c7.body) /\ c7.read \in AutorunRows BY DEF IsSave
<1> DEFINE patch == Autorun!Patch
           read == [c7.read EXCEPT !.issue = FALSE]
           written == Autorun!Over(patch, read)
<1>2. /\ DOMAIN patch = DOMAIN c7.body \cup {"capture"} /\ patch["capture"] \in Captures
      /\ \A field \in DOMAIN c7.body : patch[field] = c7.body[field]
  BY <1>1, PatchFacts
<1>3. read \in AutorunRows /\ read.issue = FALSE /\ \A field \in RowFields \ {"issue"} : read[field] = c7.read[field]
  BY <1>1 DEF AutorunRows, RowFields
<1>4. DOMAIN c1 = RowFields /\ DOMAIN read = RowFields BY <1>3 DEF AutorunRows, RowFields
<1>5. r = [field \in RowFields |-> IF written[field] # c7.read[field] THEN written[field] ELSE c1[field]]
  BY <1>4 DEF Autorun!Patched, Autorun!Fresh
<1> HIDE DEF patch, read
<1>6. \A field \in RowFields : written[field] = IF field \in DOMAIN patch THEN patch[field] ELSE read[field]
  BY <1>4 DEF Autorun!Over
<1> HIDE DEF written
<1>7. \A field \in RowFields : r[field] = IF written[field] # c7.read[field] THEN written[field] ELSE c1[field] BY <1>5
<1>8. r = [field \in RowFields |-> r[field]] BY <1>5
<1>9. /\ written["status"] = c7.read["status"] /\ written["issue"] = FALSE
      /\ \A field \in {"start", "end", "slug"} \ DOMAIN c7.body : written[field] = c7.read[field]
  BY <1>1, <1>2, <1>3, <1>6 DEF IsBody, RowFields
<1>10. /\ written["slug"] \in {"a"} /\ written["start"] \in Nat /\ written["end"] \in Nat
       /\ written["profile"] \in FormProfiles \cup {None} /\ written["capture"] \in Captures
  BY <1>1, <1>2, <1>3, <1>6 DEF IsBody, RowFields, AutorunRows
<1>11. r["status"] = c1["status"] /\ \A field \in {"start", "end", "slug"} \ DOMAIN c7.body : r[field] = c1[field]
  BY <1>7, <1>9 DEF RowFields
<1>12. r["issue"] \in BOOLEAN /\ (c1["issue"] /\ ~r["issue"] => c7.read["issue"])
  <2>1. c1["issue"] \in BOOLEAN /\ c7.read["issue"] \in BOOLEAN BY <1>1 DEF AutorunRows
  <2>2. r["issue"] = IF FALSE # c7.read["issue"] THEN FALSE ELSE c1["issue"] BY <1>7, <1>9 DEF RowFields
  <2> QED BY <2>1, <2>2
<1>13. r \in AutorunRows
  <2>1. /\ c1["status"] \in {"scheduled", "active", "terminating", "completed"} /\ c1["slug"] \in {"a"} /\ c1["start"] \in Nat
        /\ c1["end"] \in Nat /\ c1["profile"] \in FormProfiles \cup {None} /\ c1["capture"] \in Captures
    BY DEF AutorunRows
  <2>2. /\ r["slug"] \in {"a"} /\ r["start"] \in Nat /\ r["end"] \in Nat
        /\ r["profile"] \in FormProfiles \cup {None} /\ r["capture"] \in Captures
    BY <1>7, <1>10, <2>1 DEF RowFields
  <2> QED BY <1>8, <1>11, <1>12, <2>1, <2>2, RowMade
<1> QED BY <1>11, <1>12, <1>13

\* ---- its steps ----
AutorunSteps == Autorun!TypedStaysStep /\ Autorun!NeverRearmedStep /\ Autorun!UnsentStaysStep /\ Autorun!FlagStandsStep

LEMMA BudgetUsed ==
  ASSUME AutorunInv
  PROVE  \A what \in {"edits", "saves", "others", "refreshes"} : Autorun!Uses(what) => c9' \in FormBudgets /\ c9'[what] # c9[what]
  BY DEF AutorunInv, FormBudgets, Autorun!Uses

LEMMA AutorunBegins == Autorun!AutorunInit => AutorunInv
<1> SUFFICES ASSUME Autorun!AutorunInit PROVE AutorunInv OBVIOUS
<1>1. Autorun!NewRow(1, 2, CHOOSE p \in FormProfiles : TRUE) \in AutorunRows
  BY FormAssumption DEF Autorun!NewRow, AutorunRows, Captures
<1>2. c1 \in AutorunRows \cup {Autorun!NoRow} /\ c4 = c1 BY <1>1 DEF Autorun!AutorunInit
<1>3. Autorun!Blank \in AutorunForms /\ Autorun!Blank.confirm = FALSE
  BY DEF Autorun!Blank, AutorunForms
<1>4. IsSave(Autorun!NoSave) BY DEF IsSave, Autorun!NoSave, Stages
<1>5. c9 \in FormBudgets BY FormAssumption DEF Autorun!AutorunInit, FormBudgets
<1>6. Autorun!NoMenu \in Menus BY DEF Autorun!NoMenu, Menus
<1> QED BY <1>2, <1>3, <1>4, <1>5, <1>6 DEF Autorun!AutorunInit, AutorunInv

\* What the scheduler and other people do.
LEMMA OthersKeep ==
  ASSUME AutorunInv,
         \/ Autorun!Tick \/ Autorun!Starts \/ Autorun!Stops
         \/ Autorun!OtherEdits \/ Autorun!OtherDeletes \/ Autorun!ProfileDeleted
  PROVE  AutorunInv' /\ AutorunSteps
<1>0. UNCHANGED <<c4, c5, c6, c7, c8>>
  BY DEF Autorun!Tick, Autorun!Starts, Autorun!Stops, Autorun!OtherEdits, Autorun!OtherDeletes, Autorun!ProfileDeleted
<1>1. Autorun!TypedStaysStep /\ Autorun!UnsentStaysStep BY <1>0 DEF Autorun!TypedStaysStep, Autorun!UnsentStaysStep, Autorun!Typed
<1>2. c9' \in FormBudgets /\ c3' \in Nat /\ c2' \subseteq FormProfiles
  <2>1. CASE Autorun!Tick \/ Autorun!Starts \/ Autorun!Stops BY <2>1 DEF Autorun!Tick, Autorun!Starts, Autorun!Stops, AutorunInv
  <2>2. CASE Autorun!OtherEdits \/ Autorun!OtherDeletes BY <2>2, BudgetUsed DEF Autorun!OtherEdits, Autorun!OtherDeletes, AutorunInv
  <2>3. CASE Autorun!ProfileDeleted BY <2>3, BudgetUsed DEF Autorun!ProfileDeleted, AutorunInv
  <2> QED BY <2>1, <2>2, <2>3
<1> DEFINE Lawful(r) ==
       \/ r = c1 \/ r = Autorun!NoRow
       \/ /\ c1 \in AutorunRows /\ r \in AutorunRows /\ Autorun!Rank[c1.status] <= Autorun!Rank[r.status]
          /\ c1.issue /\ ~r.issue => c9'.others # c9.others
<1>3. Lawful(c1')
  <2>1. CASE Autorun!Tick BY <2>1 DEF Autorun!Tick
  <2>2. CASE Autorun!Starts
    <3>1. c1.status = "scheduled" /\ c1' = [c1 EXCEPT !.status = "active"] BY <2>2 DEF Autorun!Starts
    <3>2. c1 \in AutorunRows BY <3>1, FormAssumption DEF AutorunInv, Autorun!NoRow
    <3>3. c1' \in AutorunRows /\ c1'.status = "active" /\ c1'.issue = c1.issue BY <3>1, <3>2 DEF AutorunRows
    <3> QED BY <3>1, <3>2, <3>3 DEF Autorun!Rank
  <2>3. CASE Autorun!Stops
    <3>1. \/ c1.status = "active" /\ c1' = [c1 EXCEPT !.status = "terminating"]
          \/ c1.status \in {"active", "terminating"} /\ c1' = [c1 EXCEPT !.status = "completed"]
      BY <2>3 DEF Autorun!Stops
    <3>2. c1 \in AutorunRows BY <3>1, FormAssumption DEF AutorunInv, Autorun!NoRow
    <3>3. c1' \in AutorunRows /\ c1'.issue = c1.issue BY <3>1, <3>2 DEF AutorunRows
    <3>4. \/ c1.status = "active" /\ c1'.status = "terminating"
          \/ c1.status \in {"active", "terminating"} /\ c1'.status = "completed"
      BY <3>1, <3>2 DEF AutorunRows
    <3>5. Autorun!Rank[c1.status] <= Autorun!Rank[c1'.status] BY <3>4 DEF Autorun!Rank
    <3> QED BY <3>2, <3>3, <3>5
  <2>4. CASE Autorun!OtherEdits
    <3>0. PICK start \in Autorun!Times, end \in Autorun!Times : c1' = [c1 EXCEPT !.start = start, !.end = end, !.issue = FALSE]
      BY <2>4 DEF Autorun!OtherEdits
    <3>5. start \in Nat /\ end \in Nat BY FormAssumption DEF Autorun!Times
    <3>1. c1.status = "scheduled" /\ c1' = [c1 EXCEPT !.start = start, !.end = end, !.issue = FALSE]
      BY <2>4, <3>0 DEF Autorun!OtherEdits
    <3>2. c1 \in AutorunRows BY <3>1, FormAssumption DEF AutorunInv, Autorun!NoRow
    <3>3. c1' \in AutorunRows /\ c1'.status = c1.status BY <3>1, <3>2, <3>5 DEF AutorunRows
    <3>4. c9'.others # c9.others BY <2>4, BudgetUsed DEF Autorun!OtherEdits
    <3> QED BY <3>1, <3>2, <3>3, <3>4 DEF Autorun!Rank
  <2>5. CASE Autorun!OtherDeletes BY <2>5 DEF Autorun!OtherDeletes
  <2>6. CASE Autorun!ProfileDeleted
    <3>1. c1' = c1 \/ (c1 # Autorun!NoRow /\ c1' = [c1 EXCEPT !.profile = None, !.issue = TRUE]) BY <2>6 DEF Autorun!ProfileDeleted
    <3>2. CASE c1 # Autorun!NoRow /\ c1' = [c1 EXCEPT !.profile = None, !.issue = TRUE]
      <4>1. c1 \in AutorunRows BY <3>2 DEF AutorunInv
      <4>2. c1' \in AutorunRows /\ c1'.status = c1.status /\ c1'.issue = TRUE BY <3>2, <4>1 DEF AutorunRows
      <4>3. Autorun!Rank[c1.status] \in Nat BY <4>1 DEF Autorun!Rank, AutorunRows
      <4> QED BY <4>1, <4>2, <4>3
    <3> QED BY <3>1, <3>2
  <2> QED BY <2>1, <2>2, <2>3, <2>4, <2>5, <2>6
<1>4. c1' \in AutorunRows \cup {Autorun!NoRow} BY <1>3 DEF AutorunInv
<1>5. c1 # Autorun!NoRow => c1 \in AutorunRows /\ Autorun!Rank[c1.status] \in Nat BY DEF AutorunInv, AutorunRows, Autorun!Rank
<1>6. Autorun!NeverRearmedStep /\ Autorun!FlagStandsStep
  BY <1>3, <1>5 DEF Autorun!NeverRearmedStep, Autorun!FlagStandsStep
<1>7. AutorunInv' BY <1>0, <1>2, <1>4 DEF AutorunInv
<1> QED BY <1>1, <1>6, <1>7 DEF AutorunSteps

\* A step that leaves the row, the save and what was read alone breaks nothing.
LEMMA FormStepsHarmless == ASSUME AutorunInv, UNCHANGED <<c1, c4, c5, c7>> PROVE AutorunSteps
<1>1. c1 # Autorun!NoRow => c1 \in AutorunRows /\ Autorun!Rank[c1.status] \in Nat BY DEF AutorunInv, AutorunRows, Autorun!Rank
<1> QED BY <1>1 DEF AutorunSteps, Autorun!TypedStaysStep, Autorun!NeverRearmedStep, Autorun!UnsentStaysStep, Autorun!FlagStandsStep

LEMMA FormInputs ==
  /\ Autorun!Times \subseteq Nat
  /\ \A name \in DOMAIN Autorun!slugify : Autorun!slugify[name] \in {"a", "taken", ""}
<1>1. MaxTime \in Nat BY FormAssumption
<1>2. Autorun!Times \subseteq Nat BY <1>1 DEF Autorun!Times
<1>3. DOMAIN Autorun!slugify = {"a", "taken", "symbols"} BY DEF Autorun!slugify
<1>4. Autorun!slugify["a"] = "a" /\ Autorun!slugify["taken"] = "taken" /\ Autorun!slugify["symbols"] = "" BY DEF Autorun!slugify
<1> QED BY <1>2, <1>3, <1>4

LEMMA FormOpensKeeps ==
  ASSUME AutorunInv, Autorun!AutorunFormOpens \/ Autorun!AutorunFormCloses
  PROVE  AutorunInv' /\ AutorunSteps
<1>0. UNCHANGED <<c1, c2, c3, c4, c5, c7, c8, c9>> BY DEF Autorun!AutorunFormOpens, Autorun!AutorunFormCloses
<1>1. Autorun!Blank \in AutorunForms /\ Autorun!Blank.confirm = FALSE BY DEF Autorun!Blank, AutorunForms
<1>2. CASE c6' = Autorun!Blank BY <1>0, <1>1, <1>2, FormStepsHarmless DEF AutorunInv, IsSave, IsBody
<1>3. CASE c4 # Autorun!NoRow /\ c6' = Autorun!Filling(c4)
  <2>1. c4 \in AutorunRows BY <1>3 DEF AutorunInv
  <2>2. Autorun!Filling(c4) \in AutorunForms /\ Autorun!Filling(c4).confirm = FALSE
    BY <2>1 DEF AutorunRows, AutorunForms, Autorun!Filling, Autorun!Blank
  <2>3. c6' \in AutorunForms /\ c6'.confirm = FALSE BY <1>3, <2>2
  <2> QED BY <1>0, <2>3, FormStepsHarmless DEF AutorunInv, IsSave, IsBody
<1>4. CASE \E mode \in {"profile", "custom"} : c6' = [Autorun!Blank EXCEPT !.key = "new", !.mode = mode]
  <2>0. PICK mode \in {"profile", "custom"} : c6' = [Autorun!Blank EXCEPT !.key = "new", !.mode = mode] BY <1>4
  <2>2. c6' = [key |-> "new", slug |-> "", byHand |-> FALSE, start |-> 0, end |-> 0, mode |-> mode, profile |-> None, capture |-> None,
               confirm |-> FALSE, error |-> "none"]
    BY <2>0 DEF Autorun!Blank
  <2>1. c6' \in AutorunForms /\ c6'.confirm = FALSE BY <2>2 DEF AutorunForms
  <2> QED BY <1>0, <2>1, FormStepsHarmless DEF AutorunInv, IsSave, IsBody
<1> QED BY <1>2, <1>3, <1>4 DEF Autorun!AutorunFormOpens, Autorun!AutorunFormCloses, Autorun!CanEdit

LEMMA TypingKeeps ==
  ASSUME AutorunInv, Autorun!ScheduleFields \/ Autorun!CaptureFields
  PROVE  AutorunInv' /\ AutorunSteps
<1> USE DEF Autorun!ScheduleFields, Autorun!CaptureFields, Autorun!TypeName, Autorun!TypeSlug, Autorun!PickTimes, Autorun!PickMode,
            Autorun!PickFormProfile, Autorun!PickCustom
<1>0. UNCHANGED <<c1, c2, c3, c4, c5, c7, c8>> /\ Autorun!Uses("edits") /\ Autorun!Editing OBVIOUS
<1>1. c9' \in FormBudgets BY <1>0, BudgetUsed
<1>2. c6 \in AutorunForms /\ ~c6.confirm BY <1>0 DEF AutorunInv, Autorun!Editing
<1>3. c6' \in AutorunForms /\ c6'.confirm = c6.confirm
  <2>1. CASE Autorun!TypeName
    <3>1. PICK name \in DOMAIN Autorun!slugify : c6' = [c6 EXCEPT !.slug = Autorun!slugify[name]] BY <2>1
    <3>2. Autorun!slugify[name] \in {"a", "taken", ""} BY FormInputs
    <3> QED BY <1>2, <3>1, <3>2 DEF AutorunForms
  <2>2. CASE Autorun!TypeSlug BY <1>2, <2>2 DEF AutorunForms
  <2>3. CASE Autorun!PickTimes
    <3>1. PICK time \in Autorun!Times : c6' \in {[c6 EXCEPT !.start = time], [c6 EXCEPT !.end = time]} BY <2>3
    <3>2. time \in Nat BY FormInputs
    <3> QED BY <1>2, <3>1, <3>2 DEF AutorunForms
  <2>4. CASE Autorun!PickMode BY <1>2, <2>4 DEF AutorunForms
  <2>5. CASE Autorun!PickFormProfile
    <3>1. PICK p \in c5 : c6' = [c6 EXCEPT !.profile = p] BY <2>5
    <3>2. p \in FormProfiles BY DEF AutorunInv
    <3> QED BY <1>2, <3>1, <3>2 DEF AutorunForms
  <2>6. CASE Autorun!PickCustom BY <1>2, <2>6 DEF AutorunForms, Captures
  <2> QED BY <2>1, <2>2, <2>3, <2>4, <2>5, <2>6
<1>4. AutorunSteps BY <1>0, FormStepsHarmless
<1> QED BY <1>0, <1>1, <1>2, <1>3, <1>4 DEF AutorunInv, IsSave, IsBody

\* A form is sent with what it holds, and stays as it is.
LEMMA PersistKeeps ==
  ASSUME AutorunInv, Autorun!Persist, Sendable(c6), UNCHANGED <<c1, c2, c3, c4, c5, c8>>
  PROVE  AutorunInv' /\ AutorunSteps
<1>1. c6 \in AutorunForms BY DEF AutorunInv
<1>2. c6' = [c6 EXCEPT !.confirm = FALSE, !.error = "none"] BY DEF Autorun!Persist
<1>3. c6' \in AutorunForms /\ c6'.confirm = FALSE /\ Autorun!Typed(c6') = Autorun!Typed(c6) BY <1>1, <1>2 DEF AutorunForms, Autorun!Typed
<1>4. c7' = [at |-> IF c6.key = "new" THEN "creating" ELSE "sent", body |-> Autorun!BodySent, read |-> Autorun!NoRow, rule |-> "none"]
  BY DEF Autorun!Persist, Autorun!NoSave
<1>5. IsBody(Autorun!BodySent) /\ (c6.key = "new" => {"start", "end"} \subseteq DOMAIN Autorun!BodySent) BY BodyFacts
<1>6. IsSave(c7')
  <2> HIDE DEF Autorun!BodySent
  <2> QED BY <1>4, <1>5 DEF IsSave, Stages
<1>7. IsSave(c7)' BY <1>6 DEF IsSave, IsBody
<1>8. c9' \in FormBudgets BY BudgetUsed DEF Autorun!Persist
<1>9. c1 # Autorun!NoRow => c1 \in AutorunRows /\ Autorun!Rank[c1.status] \in Nat BY DEF AutorunInv, AutorunRows, Autorun!Rank
<1>10. c7'.at # "done" BY <1>4
<1>11. AutorunSteps
  BY <1>3, <1>9, <1>10 DEF AutorunSteps, Autorun!TypedStaysStep, Autorun!NeverRearmedStep, Autorun!UnsentStaysStep, Autorun!FlagStandsStep
<1> QED BY <1>3, <1>7, <1>8, <1>11 DEF AutorunInv

LEMMA SubmitKeeps ==
  ASSUME AutorunInv, Autorun!SubmitForm \/ Autorun!AnswerEndEarlier
  PROVE  AutorunInv' /\ AutorunSteps
<1>0. UNCHANGED <<c1, c2, c3, c4, c5, c8>> BY DEF Autorun!SubmitForm, Autorun!AnswerEndEarlier
<1>1. c6 \in AutorunForms BY DEF AutorunInv
<1>2. CASE UNCHANGED <<c7, c9>> /\ \E error \in {"slug", "time", "none"} : c6' = [c6 EXCEPT !.confirm = FALSE, !.error = error]
  <2>1. c6' \in AutorunForms /\ c6'.confirm = FALSE BY <1>1, <1>2 DEF AutorunForms
  <2> QED BY <1>0, <1>2, <2>1, FormStepsHarmless DEF AutorunInv, IsSave, IsBody
<1>3. CASE Autorun!AnswerEndEarlier
  <2>1. c6.confirm /\ Sendable(c6) BY <1>3 DEF Autorun!AnswerEndEarlier, AutorunInv
  <2>2. CASE Autorun!Persist
    <3> QED BY <1>0, <2>1, <2>2, PersistKeeps
  <2>3. CASE c6' = [c6 EXCEPT !.confirm = FALSE] /\ UNCHANGED <<c7, c9>>
    <3>1. c6' \in AutorunForms /\ c6'.confirm = FALSE BY <1>1, <2>3 DEF AutorunForms
    <3> QED BY <1>0, <2>3, <3>1, FormStepsHarmless DEF AutorunInv, IsSave, IsBody
  <2> QED BY <1>3, <2>2, <2>3 DEF Autorun!AnswerEndEarlier
<1>4. CASE Autorun!SubmitForm
  <2>0. Autorun!Editing /\ Autorun!FormComplete BY <1>4 DEF Autorun!SubmitForm
  <2>1. CASE Autorun!Trouble # "none"
    <3>1. UNCHANGED <<c7, c9>> /\ c6' = [c6 EXCEPT !.error = Autorun!Trouble] BY <1>4, <2>1 DEF Autorun!SubmitForm
    <3>2. Autorun!Trouble \in {"slug", "time", "none"} BY DEF Autorun!Trouble
    <3> HIDE DEF Autorun!Trouble
    <3>3. c6' \in AutorunForms /\ ~c6'.confirm BY <1>1, <2>0, <3>1, <3>2 DEF AutorunForms, Autorun!Editing
    <3> QED BY <1>0, <3>1, <3>3, FormStepsHarmless DEF AutorunInv, IsSave, IsBody
  <2>2. CASE Autorun!Trouble = "none"
    <3>1. c6.key # "none" /\ c6.slug \in {"a", "taken"} BY <2>0, <2>2 DEF Autorun!Trouble, Autorun!Editing
    <3>2. (c6.mode = "profile" => c6.profile \in FormProfiles) /\ (c6.mode # "profile" => c6.capture # None)
      BY <2>0 DEF Autorun!FormComplete, AutorunInv
    <3>3. Sendable(c6) BY <3>1, <3>2 DEF Sendable
    <3>4. CASE Autorun!Persist BY <1>0, <3>3, <3>4, PersistKeeps
    <3>5. CASE c6' = [c6 EXCEPT !.confirm = TRUE, !.error = "none"] /\ UNCHANGED <<c7, c9>>
      <4>1. /\ c6' \in AutorunForms /\ c6'.key = c6.key /\ c6'.slug = c6.slug /\ c6'.mode = c6.mode /\ c6'.profile = c6.profile
            /\ c6'.capture = c6.capture
        BY <1>1, <3>5 DEF AutorunForms
      <4>2. Sendable(c6)' BY <3>3, <4>1 DEF Sendable
      <4> QED BY <1>0, <3>5, <4>1, <4>2, FormStepsHarmless DEF AutorunInv, IsSave, IsBody
    <3> QED BY <1>4, <2>2, <3>4, <3>5 DEF Autorun!SubmitForm
  <2> QED BY <2>1, <2>2
<1> QED BY <1>3, <1>4

\* ---- the core saves, the page reads ----
\* The stage a save is at does not change what it sends.
LEMMA SaveMoves ==
  ASSUME IsSave(c7), NEW at \in Stages, at \notin {"sent", "creating", "checked"}, NEW rule, c7' = [c7 EXCEPT !.at = at, !.rule = rule]
  PROVE  IsSave(c7)'
<1>1. c7' = [at |-> at, body |-> c7.body, read |-> c7.read, rule |-> rule] BY DEF IsSave
<1> QED BY <1>1 DEF IsSave

LEMMA RefuseKeeps ==
  ASSUME AutorunInv, NEW rule, Autorun!Refuse(rule), UNCHANGED <<c2, c3, c4, c5, c6, c8, c9>>
  PROVE  AutorunInv' /\ AutorunSteps
<1>1. c7' = [c7 EXCEPT !.at = "refused", !.rule = rule] /\ c1' = c1 BY DEF Autorun!Refuse
<1>2. IsSave(c7) BY DEF AutorunInv
<1>3. IsSave(c7)' BY <1>1, <1>2, SaveMoves DEF Stages
<1>4. c7'.at = "refused" BY <1>1, <1>2 DEF IsSave
<1>5. c1 # Autorun!NoRow => c1 \in AutorunRows /\ Autorun!Rank[c1.status] \in Nat BY DEF AutorunInv, AutorunRows, Autorun!Rank
<1>6. AutorunSteps
  BY <1>1, <1>4, <1>5 DEF AutorunSteps, Autorun!TypedStaysStep, Autorun!NeverRearmedStep, Autorun!UnsentStaysStep, Autorun!FlagStandsStep, Autorun!Typed
<1> QED BY <1>1, <1>3, <1>6 DEF AutorunInv, Sendable

LEMMA CheckKeeps == ASSUME AutorunInv, Autorun!UpdateChecked PROVE AutorunInv' /\ AutorunSteps
<1>0. UNCHANGED <<c2, c3, c4, c5, c6, c8, c9>> /\ c7.at = "sent" BY DEF Autorun!UpdateChecked
<1>1. CASE \E rule : Autorun!Refuse(rule) BY <1>0, <1>1, RefuseKeeps
<1>2. CASE c1 # Autorun!NoRow /\ c7' = [c7 EXCEPT !.at = "checked", !.read = c1] /\ UNCHANGED c1
  <2>1. IsSave(c7) /\ c1 \in AutorunRows BY <1>2 DEF AutorunInv
  <2>2. c7' = [at |-> "checked", body |-> c7.body, read |-> c1, rule |-> c7.rule] BY <1>2, <2>1 DEF IsSave
  <2>3. IsBody(c7.body) BY <1>0, <2>1 DEF IsSave
  <2>4. IsSave(c7') BY <2>1, <2>2, <2>3 DEF IsSave, Stages
  <2>5. IsSave(c7)' BY <2>4 DEF IsSave, IsBody
  <2>6. Autorun!Rank[c1.status] \in Nat BY <2>1 DEF AutorunRows, Autorun!Rank
  <2>7. c7'.at # "done" BY <2>2
  <2>8. AutorunSteps
    BY <1>0, <1>2, <2>6, <2>7 DEF AutorunSteps, Autorun!TypedStaysStep, Autorun!NeverRearmedStep, Autorun!UnsentStaysStep, Autorun!FlagStandsStep, Autorun!Typed
  <2> QED BY <1>0, <1>2, <2>5, <2>8 DEF AutorunInv, Sendable
<1> QED BY <1>1, <1>2 DEF Autorun!UpdateChecked

LEMMA WriteKeeps == ASSUME AutorunInv, Autorun!UpdateWritten PROVE AutorunInv' /\ AutorunSteps
<1>0. UNCHANGED <<c2, c3, c4, c5, c6, c8, c9>> /\ c7.at = "checked" BY DEF Autorun!UpdateWritten
<1>1. CASE \E rule : Autorun!Refuse(rule) BY <1>0, <1>1, RefuseKeeps
<1>2. CASE c1 # Autorun!NoRow /\ c7.body.slug # "taken" /\ c1' = Autorun!Patched /\ c7' = [c7 EXCEPT !.at = "done"]
  <2>1. IsSave(c7) /\ c1 \in AutorunRows BY <1>2 DEF AutorunInv
  <2>2. /\ c1' \in AutorunRows /\ c1'.status = c1.status
        /\ \A field \in {"start", "end", "slug"} \ DOMAIN c7.body : c1'[field] = c1[field]
        /\ c1.issue /\ ~c1'.issue => c7.read.issue
    BY <1>0, <1>2, <2>1, PatchedRow
  <2>3. c7' = [c7 EXCEPT !.at = "done", !.rule = c7.rule] BY <1>2, <2>1 DEF IsSave
  <2>4. IsSave(c7)' BY <2>1, <2>3, SaveMoves DEF Stages
  <2>5. Autorun!Rank[c1.status] \in Nat BY <2>1 DEF AutorunRows, Autorun!Rank
  <2>6. AutorunSteps
    BY <1>0, <2>2, <2>5 DEF AutorunSteps, Autorun!TypedStaysStep, Autorun!NeverRearmedStep, Autorun!UnsentStaysStep, Autorun!FlagStandsStep, Autorun!Typed
  <2> QED BY <1>0, <2>2, <2>4, <2>6 DEF AutorunInv, Sendable
<1> QED BY <1>1, <1>2 DEF Autorun!UpdateWritten

LEMMA CreateKeeps == ASSUME AutorunInv, Autorun!Created PROVE AutorunInv' /\ AutorunSteps
<1>0. UNCHANGED <<c2, c3, c4, c5, c6, c8, c9>> /\ c7.at = "creating" BY DEF Autorun!Created
<1>1. CASE \E rule : Autorun!Refuse(rule) BY <1>0, <1>1, RefuseKeeps
<1>2. CASE /\ c7.body.slug # "taken" /\ ~(c1 # Autorun!NoRow /\ c7.body.slug = c1.slug)
           /\ c1' = Autorun!Over(Autorun!Patch, [status |-> "scheduled", profile |-> None, issue |-> FALSE])
           /\ c7' = [c7 EXCEPT !.at = "done"]
  <2>1. IsSave(c7) BY DEF AutorunInv
  <2>2. c1' \in AutorunRows BY <1>0, <1>2, <2>1, CreatedRow
  <2>3. c7' = [c7 EXCEPT !.at = "done", !.rule = c7.rule] BY <1>2, <2>1 DEF IsSave
  <2>4. IsSave(c7)' BY <2>1, <2>3, SaveMoves DEF Stages
  <2>5. c7.body["slug"] = "a" BY <1>0, <1>2, <2>1 DEF IsSave, IsBody
  <2>6. c1 = Autorun!NoRow BY <1>2, <2>5 DEF AutorunInv, AutorunRows
  <2>7. AutorunSteps
    BY <1>0, <2>6 DEF AutorunSteps, Autorun!TypedStaysStep, Autorun!NeverRearmedStep, Autorun!UnsentStaysStep, Autorun!FlagStandsStep, Autorun!Typed
  <2> QED BY <1>0, <2>2, <2>4, <2>7 DEF AutorunInv, Sendable
<1> QED BY <1>1, <1>2 DEF Autorun!Created

LEMMA SaveLandsKeeps == ASSUME AutorunInv, Autorun!SaveLands PROVE AutorunInv' /\ AutorunSteps
<1>0. UNCHANGED <<c1, c2, c3, c4, c5, c8>> /\ c7' = Autorun!NoSave /\ c7.at \in {"done", "refused"} BY DEF Autorun!SaveLands
<1>1. IsSave(c7)' /\ c7'.at = "idle" BY <1>0 DEF IsSave, Autorun!NoSave, Stages
<1>2. c9' \in FormBudgets BY DEF Autorun!SaveLands, AutorunInv, FormBudgets
<1>3. Autorun!Blank \in AutorunForms /\ Autorun!Blank.confirm = FALSE /\ Autorun!Blank.key = "none" BY DEF Autorun!Blank, AutorunForms
<1>4. c6 \in AutorunForms BY DEF AutorunInv
<1>5. \/ c6' = Autorun!Blank \/ c6' = c6 \/ c6' = [c6 EXCEPT !.error = Autorun!ErrorOf] BY DEF Autorun!SaveLands
<1>6. /\ c6' \in AutorunForms /\ (c6'.confirm => Sendable(c6'))
      /\ c6'.key # "none" => Autorun!Typed(c6') = Autorun!Typed(c6)
  <2>1. CASE c6' = [c6 EXCEPT !.error = Autorun!ErrorOf]
    <3>1. Autorun!ErrorOf \in {"slug", "general"} BY DEF Autorun!ErrorOf
    <3> HIDE DEF Autorun!ErrorOf
    <3>2. /\ c6' \in AutorunForms /\ c6'.key = c6.key /\ c6'.slug = c6.slug /\ c6'.mode = c6.mode /\ c6'.profile = c6.profile
          /\ c6'.capture = c6.capture /\ c6'.start = c6.start /\ c6'.end = c6.end /\ c6'.confirm = c6.confirm
      BY <1>4, <2>1, <3>1 DEF AutorunForms
    <3> QED BY <3>2 DEF AutorunInv, Sendable, Autorun!Typed
  <2>2. CASE c6' = Autorun!Blank \/ c6' = c6 BY <1>3, <1>4, <2>2 DEF AutorunInv, Sendable, Autorun!Typed
  <2> QED BY <1>5, <2>1, <2>2
<1>7. c1 # Autorun!NoRow => c1 \in AutorunRows /\ Autorun!Rank[c1.status] \in Nat BY DEF AutorunInv, AutorunRows, Autorun!Rank
<1>8. AutorunSteps
  BY <1>0, <1>1, <1>6, <1>7 DEF AutorunSteps, Autorun!TypedStaysStep, Autorun!NeverRearmedStep, Autorun!UnsentStaysStep, Autorun!FlagStandsStep
<1>9. (c6.confirm => Sendable(c6))' BY <1>6 DEF Sendable
<1> QED BY <1>0, <1>1, <1>2, <1>6, <1>8, <1>9 DEF AutorunInv

LEMMA PageReadsKeep == ASSUME AutorunInv, Autorun!RowRead \/ Autorun!ProfilesRead PROVE AutorunInv' /\ AutorunSteps
<1>0. UNCHANGED <<c1, c2, c3, c7, c8>> /\ Autorun!Uses("refreshes") BY DEF Autorun!RowRead, Autorun!ProfilesRead
<1>1. c4' \in AutorunRows \cup {Autorun!NoRow} /\ c5' \subseteq FormProfiles BY DEF Autorun!RowRead, Autorun!ProfilesRead, AutorunInv
<1>2. c6' = c6 \/ c6' = Autorun!Blank BY DEF Autorun!RowRead, Autorun!ProfilesRead, Autorun!Reopened
<1>3. Autorun!Blank \in AutorunForms /\ Autorun!Blank.confirm = FALSE /\ Autorun!Blank.key = "none" BY DEF Autorun!Blank, AutorunForms
<1>4. c9' \in FormBudgets BY <1>0, BudgetUsed
<1>5. c1 # Autorun!NoRow => c1 \in AutorunRows /\ Autorun!Rank[c1.status] \in Nat BY DEF AutorunInv, AutorunRows, Autorun!Rank
<1>6. AutorunSteps
  BY <1>0, <1>2, <1>3, <1>5 DEF AutorunSteps, Autorun!TypedStaysStep, Autorun!NeverRearmedStep, Autorun!UnsentStaysStep, Autorun!FlagStandsStep
<1>7. c6' \in AutorunForms /\ (c6.confirm => Sendable(c6))' BY <1>2, <1>3 DEF AutorunInv, Sendable
<1>8. IsSave(c7)' BY <1>0 DEF AutorunInv, IsSave, IsBody
<1> QED BY <1>0, <1>1, <1>4, <1>6, <1>7, <1>8 DEF AutorunInv

LEMMA MenuKeeps ==
  ASSUME AutorunInv, Autorun!AutorunActionsMenu \/ Autorun!DeleteLands \/ Autorun!OtherActionLands
  PROVE  AutorunInv' /\ AutorunSteps
<1> USE DEF Autorun!AutorunActionsMenu, Autorun!MenuOpens, Autorun!MenuCloses, Autorun!MenuSends, Autorun!DeleteLands, Autorun!OtherActionLands
<1>0. UNCHANGED <<c2, c3, c4, c5, c6, c7>> OBVIOUS
<1>1. c1' = c1 \/ c1' = Autorun!NoRow OBVIOUS
<1>2. c8 \in Menus /\ Autorun!NoMenu \in Menus BY DEF AutorunInv, Autorun!NoMenu, Menus
<1>3. c8' \in Menus
  <2>1. CASE Autorun!MenuOpens BY <2>1 DEF Menus, Autorun!NoMenu
  <2>2. CASE Autorun!MenuSends BY <1>2, <2>2 DEF Menus
  <2>3. CASE Autorun!MenuCloses \/ Autorun!DeleteLands \/ Autorun!OtherActionLands BY <1>2, <2>3 DEF Menus
  <2> QED BY <2>1, <2>2, <2>3
<1>4. c9' \in FormBudgets
  <2>1. CASE Autorun!MenuSends BY <2>1, BudgetUsed
  <2>2. CASE ~Autorun!MenuSends BY <2>2 DEF AutorunInv, FormBudgets
  <2> QED BY <2>1, <2>2
<1>5. c1 # Autorun!NoRow => c1 \in AutorunRows /\ Autorun!Rank[c1.status] \in Nat BY DEF AutorunInv, AutorunRows, Autorun!Rank
<1>6. AutorunSteps
  BY <1>0, <1>1, <1>5 DEF AutorunSteps, Autorun!TypedStaysStep, Autorun!NeverRearmedStep, Autorun!UnsentStaysStep, Autorun!FlagStandsStep, Autorun!Typed
<1>7. IsSave(c7)' /\ (c6.confirm => Sendable(c6))' BY <1>0 DEF AutorunInv, IsSave, IsBody, Sendable
<1> QED BY <1>0, <1>1, <1>3, <1>4, <1>6, <1>7 DEF AutorunInv

LEMMA AutorunKeeps == AutorunInv /\ Autorun!AutorunNext => AutorunInv' /\ AutorunSteps
  BY OthersKeep, FormOpensKeeps, TypingKeeps, SubmitKeeps, CheckKeeps, WriteKeeps, CreateKeeps, SaveLandsKeeps, PageReadsKeep, MenuKeeps
  DEF Autorun!AutorunNext, Autorun!AutorunDetailView, Autorun!AutorunFormDialog

LEMMA AutorunStays == AutorunInv /\ UNCHANGED cells => AutorunInv'
<1> SUFFICES ASSUME AutorunInv, UNCHANGED cells PROVE AutorunInv' OBVIOUS
<1>1. UNCHANGED <<c1, c2, c3, c4, c5, c6, c7, c8, c9>> BY DEF cells
<1> QED BY <1>1 DEF AutorunInv, IsSave, IsBody, Sendable

LEMMA AutorunShows == AutorunInv => Autorun!AutorunTypeOK
<1> SUFFICES ASSUME AutorunInv PROVE Autorun!AutorunTypeOK OBVIOUS
<1>1. c1 = Autorun!NoRow \/ (c1.profile \in FormProfiles \cup {None} /\ c1.capture \in FormProfiles \cup {Custom})
  BY DEF AutorunInv, AutorunRows, Captures
<1> QED BY <1>1 DEF AutorunInv, AutorunForms, IsSave, Stages, Menus, Autorun!AutorunTypeOK

-----------------------------------------------------------------------------
\* ---- imports: the rows of a table ----
\* There are finitely many, and none has a number the table never gave.
Table(rows) ==
    /\ rows \subseteq OwnProfile /\ IsFiniteSet(rows)
    /\ \A row \in rows : row.id \in 1 .. Cardinality(rows)

\* Rows of one name there are if and only if one is found by it.
LEMMA FoundByName ==
  ASSUME NEW rows, Table(rows), NEW name
  PROVE  Imports!Existing(rows, name) = {} <=> Imports!Named(rows, name) = {}
<1> DEFINE named == Imports!Named(rows, name)
           N == Imports!Cardinality(rows)
<1>1. N \in Nat /\ \A row \in named : row.id \in 1 .. N
  BY FS_CardinalityType DEF Table, Imports!Named, Cardinality, Imports!Cardinality
<1>2. Imports!Existing(rows, name) = {row \in named : \A other \in named : other.id <= row.id}
  BY DEF Imports!Existing
<1> HIDE DEF named, N
<1>3. ASSUME NEW row \in named PROVE \E last \in named : \A other \in named : other.id <= last.id
  <2> DEFINE T == {n \in Nat : (\E r \in named : N - r.id <= n) => \E last \in named : \A other \in named : other.id <= last.id}
  <2>1. 0 \in T
    <3> SUFFICES ASSUME NEW r \in named, N - r.id <= 0
                 PROVE \E last \in named : \A other \in named : other.id <= last.id
      OBVIOUS
    <3>1. \A other \in named : other.id <= r.id BY <1>1
    <3> QED BY <3>1
  <2>2. ASSUME NEW n \in Nat, n \in T PROVE n + 1 \in T
    <3> SUFFICES ASSUME NEW r \in named, N - r.id <= n + 1
                 PROVE \E last \in named : \A other \in named : other.id <= last.id
      OBVIOUS
    <3>1. CASE \A other \in named : other.id <= r.id BY <3>1
    <3>2. CASE \E other \in named : ~(other.id <= r.id)
      <4>1. PICK other \in named : ~(other.id <= r.id) BY <3>2
      <4>2. N - other.id <= n BY <1>1, <4>1
      <4> QED BY <2>2, <4>2
    <3> QED BY <3>1, <3>2
  <2>3. Nat \subseteq T
    <3> HIDE DEF T
    <3> QED BY <2>1, <2>2, SetInduction
  <2>4. N - row.id \in Nat /\ N - row.id <= N - row.id BY <1>1
  <2> QED BY <2>3, <2>4
<1> QED BY <1>2, <1>3 DEF named

\* The number that makes a name unique is the first that is free, or the last there is.
LEMMA NumberFacts ==
  ASSUME NEW rows, NEW name
  PROVE  LET n == Imports!UniqueNumber(rows, name)
         IN  /\ n \in 2 .. Imports!LastNumber /\ (n # Imports!LastNumber => Imports!Free(rows, name, n))
             /\ \A k \in 2 .. n - 1 : ~Imports!Free(rows, name, k)
<1> DEFINE Free(n) == Imports!Free(rows, name, n)
           L == Imports!LastNumber
           Least(n) == n \in 2 .. L /\ Free(n) /\ \A k \in 2 .. n - 1 : ~Free(k)
<1>1. L = 199 BY DEF Imports!LastNumber
<1>2. CASE \E n \in 2 .. L : Free(n)
  <2>1. \E n \in 2 .. L : Least(n)
    <3> HIDE DEF Free
    <3> DEFINE T == {n \in Nat : (\E k \in 2 .. L : k <= n /\ Free(k)) => \E k \in 2 .. L : Least(k)}
    <3>1. 0 \in T BY <1>1
    <3>2. ASSUME NEW n \in Nat, n \in T PROVE n + 1 \in T
      <4> SUFFICES ASSUME NEW k \in 2 .. L, k <= n + 1, Free(k) PROVE \E m \in 2 .. L : Least(m)
        OBVIOUS
      <4>1. CASE \E m \in 2 .. k - 1 : Free(m)
        <5>1. PICK m \in 2 .. k - 1 : Free(m) BY <4>1
        <5>2. m \in 2 .. L /\ m <= n BY <1>1, <5>1
        <5> QED BY <3>2, <5>1, <5>2
      <4>2. CASE \A m \in 2 .. k - 1 : ~Free(m) BY <4>2
      <4> QED BY <4>1, <4>2
    <3>3. Nat \subseteq T
      <4> HIDE DEF T
      <4> QED BY <3>1, <3>2, SetInduction
    <3>4. PICK n \in 2 .. L : Free(n) BY <1>2 DEF Free
    <3>5. n \in Nat /\ n <= n BY <1>1
    <3> QED BY <3>3, <3>4, <3>5
  <2> DEFINE u == CHOOSE n \in 2 .. L : Free(n) /\ \A k \in 2 .. n - 1 : ~Free(k)
  <2>2. u \in 2 .. L /\ Free(u) /\ \A k \in 2 .. u - 1 : ~Free(k) BY <2>1
  <2>3. Imports!UniqueNumber(rows, name) = u BY <1>2 DEF Imports!UniqueNumber
  <2> QED BY <2>2, <2>3
<1>3. CASE ~\E n \in 2 .. L : Free(n)
  <2>1. Imports!UniqueNumber(rows, name) = L BY <1>3 DEF Imports!UniqueNumber
  <2>2. \A k \in 2 .. L - 1 : k \in 2 .. L BY <1>1
  <2> QED BY <1>1, <1>3, <2>1, <2>2
<1> QED BY <1>2, <1>3

\* It stays the same in a table that grows, as long as it is free there.
LEMMA SameNumber ==
  ASSUME NEW rows, NEW more, rows \subseteq more, NEW name, Imports!Free(more, name, Imports!UniqueNumber(rows, name))
  PROVE  Imports!UniqueNumber(more, name) = Imports!UniqueNumber(rows, name)
<1> DEFINE L == Imports!LastNumber
           u == Imports!UniqueNumber(rows, name)
           v == Imports!UniqueNumber(more, name)
<1>1. \A n : Imports!Free(more, name, n) => Imports!Free(rows, name, n) BY DEF Imports!Free, Imports!Named
<1>2. u \in 2 .. L /\ \A k \in 2 .. u - 1 : ~Imports!Free(rows, name, k) BY NumberFacts
<1>3. v \in 2 .. L /\ (v # L => Imports!Free(more, name, v)) /\ \A k \in 2 .. v - 1 : ~Imports!Free(more, name, k) BY NumberFacts
<1>4. L = 199 /\ Imports!Free(more, name, u) BY DEF Imports!LastNumber
<1> HIDE DEF L, u, v
<1>5. ~(u < v) BY <1>2, <1>3, <1>4
<1>6. ~(v < u) BY <1>1, <1>2, <1>3, <1>4
<1>7. u \in Int /\ v \in Int BY <1>2, <1>3, <1>4
<1>8. u = v BY <1>5, <1>6, <1>7
<1> QED BY <1>8 DEF u, v

\* A name with a number is a name that ends in it.
LEMMA NumberedFacts ==
  ASSUME NEW name \in Name, NEW n \in Nat
  PROVE  Imports!Numbered(name, n) \in Name /\ (n = Imports!LastNumber => Imports!EndsInLast(Imports!Numbered(name, n)))
<1> DEFINE longer == Append(name.numbers, n)
           new == Imports!Numbered(name, n)
<1>1. name.numbers \in Seq(Nat) /\ name.text \in STRING BY DEF Name
<1>2. longer \in Seq(Nat) /\ longer # <<>> /\ longer[Len(longer)] = n BY <1>1
<1> HIDE DEF longer
<1>3. new = [name EXCEPT !.numbers = longer] BY DEF Imports!Numbered, longer
<1>4. new \in Name /\ new.numbers = longer BY <1>2, <1>3 DEF Name
<1> HIDE DEF new
<1>5. n = Imports!LastNumber => Imports!EndsInLast(new) BY <1>2, <1>4 DEF Imports!EndsInLast
<1> QED BY <1>4, <1>5 DEF new

-----------------------------------------------------------------------------
\* ---- imports: one entry of a bundle ----
\* What can be sent: a bundle, and plugins for the hashes it names.
WellFormed(sent) ==
    /\ sent.bundle \in Bundle
    /\ sent.map \subseteq [hash : STRING, plugin : Installed]
\* A recording that is made has a profile.
Made == [name : STRING, profile : OwnProfile]
\* What an import has come to, names being those its bundle mentions.
Progress(names) ==
    [rows : {rows \in SUBSET OwnProfile : Table(rows)}, created : [names -> SUBSET OwnProfile], made : Seq(Made), refused : BOOLEAN]

\* What a plugin reference resolves to is installed, if it is anything.
LEMMA PluginFacts ==
  ASSUME NEW ref \in Plugin, NEW map, map \subseteq [hash : STRING, plugin : Installed]
  PROVE  LET plugin == Imports!ResolveWithMap(ref, map) IN
         /\ plugin \in Installed \cup {Imports!NoPlugin}
         /\ Imports!ByHash(ref) # {} /\ (\A m \in map : m.hash # ref.hash) => plugin.hash = ref.hash
<1> DEFINE plugin == Imports!ResolveWithMap(ref, map)
<1>1. CASE \E m \in map : m.hash = ref.hash
  <2> DEFINE m == CHOOSE m \in map : m.hash = ref.hash
  <2>1. m \in map BY <1>1
  <2>2. plugin = m.plugin BY <1>1 DEF Imports!ResolveWithMap
  <2> HIDE DEF m
  <2>3. plugin \in Installed BY <2>1, <2>2
  <2> QED BY <1>1, <2>3
<1>2. CASE ~(\E m \in map : m.hash = ref.hash) /\ Imports!ByHash(ref) # {}
  <2> DEFINE p == CHOOSE p \in Imports!ByHash(ref) : TRUE
  <2>1. p \in Imports!ByHash(ref) BY <1>2
  <2>2. plugin = p BY <1>2 DEF Imports!ResolveWithMap
  <2> HIDE DEF p
  <2>3. plugin \in Installed /\ plugin.hash = ref.hash BY <2>1, <2>2 DEF Imports!ByHash
  <2> QED BY <2>3
<1>3. CASE ~(\E m \in map : m.hash = ref.hash) /\ Imports!ByHash(ref) = {}
  <2>1. CASE Imports!ByName(ref) # {}
    <3> DEFINE p == CHOOSE p \in Imports!ByName(ref) : TRUE
    <3>1. p \in Imports!ByName(ref) BY <2>1
    <3>2. plugin = p BY <1>3, <2>1 DEF Imports!ResolveWithMap
    <3> HIDE DEF p
    <3>3. plugin \in Installed BY <3>1, <3>2 DEF Imports!ByName
    <3> QED BY <1>3, <3>3
  <2>2. CASE Imports!ByName(ref) = {}
    <3>1. plugin = Imports!NoPlugin BY <1>3, <2>2 DEF Imports!ResolveWithMap
    <3> QED BY <1>3, <3>1
  <2> QED BY <2>1, <2>2
<1> QED BY <1>1, <1>2, <1>3

\* The row made of an entry.
Row(rows, entry, map) ==
    [id |-> Imports!Cardinality(rows) + 1, name |-> Imports!NameFor(rows, entry),
     plugin |-> Imports!ResolveWithMap(entry.plugin, map), content |-> entry.content]
\* It is new, and so is its name until the numbers are used up.
Fresh(rows, row, entry) ==
    /\ row \in OwnProfile /\ row \notin rows /\ Table(rows \cup {row}) /\ Imports!MadeOf(row, entry)
    /\ Imports!Named(rows, row.name) = {} \/ Imports!EndsInLast(row.name)
LEMMA RowFacts ==
  ASSUME NEW rows, Table(rows), NEW entry \in BundledProfile, NEW map, map \subseteq [hash : STRING, plugin : Installed],
         Imports!ResolveWithMap(entry.plugin, map) # Imports!NoPlugin
  PROVE  Fresh(rows, Row(rows, entry, map), entry)
<1> DEFINE row == Row(rows, entry, map)
           N == Cardinality(rows)
           n == Imports!UniqueNumber(rows, entry.name)
<1>1. N \in Nat /\ Imports!Cardinality(rows) = N
  BY FS_CardinalityType DEF Table, Cardinality, Imports!Cardinality
<1>2. n \in 2 .. Imports!LastNumber /\ (n # Imports!LastNumber => Imports!Free(rows, entry.name, n)) BY NumberFacts
<1>3. n \in Nat BY <1>2 DEF Imports!LastNumber
<1>4. Imports!ResolveWithMap(entry.plugin, map) \in Installed
  <2>1. entry.plugin \in Plugin BY DEF BundledProfile
  <2> QED BY <2>1, PluginFacts
<1>5. entry.name \in Name /\ entry.content \in STRING BY DEF BundledProfile
<1>6. row.id = N + 1 /\ row.content = entry.content /\ row.name = Imports!NameFor(rows, entry) BY <1>1 DEF Row
<1>7. \/ row.name = entry.name /\ Imports!Named(rows, entry.name) = {}
      \/ row.name = Imports!Numbered(entry.name, n)
  <2>1. CASE Imports!Existing(rows, entry.name) = {} BY <1>6, <2>1, FoundByName DEF Imports!NameFor
  <2>2. CASE Imports!Existing(rows, entry.name) # {} BY <1>6, <2>2 DEF Imports!NameFor, Imports!UniqueName
  <2> QED BY <2>1, <2>2
<1> HIDE DEF n
<1>8. /\ Imports!Numbered(entry.name, n) \in Name
      /\ n = Imports!LastNumber => Imports!EndsInLast(Imports!Numbered(entry.name, n))
  BY <1>3, <1>5, NumberedFacts
<1>9. row \in OwnProfile
  <2>1. Imports!NameFor(rows, entry) \in Name BY <1>5, <1>6, <1>7, <1>8
  <2> QED BY <1>1, <1>4, <1>5, <2>1 DEF Row, OwnProfile
<1>10. row \notin rows
  <2>1. row \in rows => N + 1 \in 1 .. N BY <1>6 DEF Table
  <2> QED BY <1>1, <2>1
<1> HIDE DEF row
<1>11. Table(rows \cup {row})
  <2>1. IsFiniteSet(rows) BY DEF Table
  <2>2. IsFiniteSet(rows \cup {row}) /\ Cardinality(rows \cup {row}) = N + 1
    BY <1>10, <2>1, FS_AddElement
  <2>3. \A r \in rows \cup {row} : r.id \in 1 .. N + 1 BY <1>1, <1>6 DEF Table
  <2> QED BY <1>9, <2>2, <2>3 DEF Table
<1>12. Imports!Named(rows, row.name) = {} \/ Imports!EndsInLast(row.name) BY <1>2, <1>7, <1>8 DEF Imports!Free
<1>13. Imports!MadeOf(row, entry) BY <1>2, <1>6, <1>7 DEF Imports!MadeOf
<1> QED BY <1>9, <1>10, <1>11, <1>12, <1>13 DEF Fresh, row

\* What becomes of an entry: it is left out, found, refused, or a row.
Matches(rows, entry) == \E old \in Imports!Existing(rows, entry.name) : Imports!SameProfile(old, entry)
LEMMA ProfileFacts ==
  ASSUME NEW names, NEW so \in Progress(names), NEW sent, WellFormed(sent), NEW entry \in BundledProfile, entry.name \in names
  PROVE  LET next == Imports!NextProfile(so, sent, entry) IN
         /\ next \in Progress(names) /\ next.made = so.made
         /\ so.refused => next = so
         /\ \/ next.rows = so.rows /\ (next.refused \/ entry.name \in sent.removedProfiles \/ Matches(so.rows, entry))
            \/ /\ next.rows = so.rows \cup {Row(so.rows, entry, sent.map)}
               /\ ~Matches(so.rows, entry) /\ entry.name \notin sent.removedProfiles /\ ~next.refused
               /\ Imports!ResolveWithMap(entry.plugin, sent.map) # Imports!NoPlugin
<1> DEFINE next == Imports!NextProfile(so, sent, entry)
           taken == Imports!Existing(so.rows, entry.name)
           row == Row(so.rows, entry, sent.map)
           found == [so EXCEPT !.created = Imports!With(@, {entry.name}, taken)]
           none == [so EXCEPT !.refused = TRUE]
           more == [so EXCEPT !.rows = @ \cup {row}, !.created = Imports!With(@, {entry.name, row.name}, {row})]
           plugin == Imports!ResolveWithMap(entry.plugin, sent.map)
<1>1. /\ so.rows \in SUBSET OwnProfile /\ Table(so.rows) /\ so.created \in [names -> SUBSET OwnProfile]
      /\ so.made \in Seq(Made) /\ so.refused \in BOOLEAN
  BY DEF Progress
<1>2. next = IF entry.name \in sent.removedProfiles \/ so.refused THEN so
             ELSE IF Matches(so.rows, entry) THEN found
             ELSE IF plugin = Imports!NoPlugin THEN none ELSE more
  BY DEF Imports!NextProfile, Imports!ImportProfile, Matches, Row
<1>3. CASE entry.name \in sent.removedProfiles \/ so.refused BY <1>2, <1>3
<1>4. CASE ~(entry.name \in sent.removedProfiles \/ so.refused) /\ Matches(so.rows, entry)
  <2>1. taken \in SUBSET OwnProfile BY <1>1 DEF Imports!Existing, Imports!Named
  <2> HIDE DEF taken
  <2>2. found.rows = so.rows /\ found.made = so.made /\ found.refused = so.refused BY DEF Progress
  <2>3. found \in Progress(names) BY <2>1 DEF Progress, Imports!With
  <2> QED BY <1>2, <1>4, <2>2, <2>3
<1>5. CASE ~(entry.name \in sent.removedProfiles \/ so.refused) /\ ~Matches(so.rows, entry) /\ plugin = Imports!NoPlugin
  <2>1. none.rows = so.rows /\ none.made = so.made /\ none.refused BY DEF Progress
  <2>2. none \in Progress(names) BY DEF Progress
  <2> QED BY <1>2, <1>5, <2>1, <2>2
<1>6. CASE ~(entry.name \in sent.removedProfiles \/ so.refused) /\ ~Matches(so.rows, entry) /\ plugin # Imports!NoPlugin
  <2>1. row \in OwnProfile /\ Table(so.rows \cup {row}) BY <1>1, <1>6, RowFacts DEF WellFormed, Fresh
  <2> HIDE DEF row
  <2>2. more.rows = so.rows \cup {row} /\ more.made = so.made /\ more.refused = so.refused BY DEF Progress
  <2>3. more \in Progress(names)
    <3>1. Imports!With(so.created, {entry.name, row.name}, {row}) \in [names -> SUBSET OwnProfile]
      BY <1>1, <2>1 DEF Imports!With
    <3> QED BY <1>1, <2>1, <3>1 DEF Progress
  <2>4. next = more BY <1>2, <1>6
  <2> HIDE DEF more
  <2> QED BY <1>6, <2>2, <2>3, <2>4 DEF row
<1> QED BY <1>3, <1>4, <1>5, <1>6

\* What becomes of an entry for an autorun.
Adds(so, next, sent, entry) ==
    /\ next.rows = so.rows /\ (so.refused => next.refused)
    /\ \/ next.made = so.made
       \/ /\ entry.name \notin sent.removedAutoruns
          /\ \E profile \in OwnProfile : next.made = Append(so.made, [name |-> entry.name, profile |-> profile])
LEMMA AutorunFacts ==
  ASSUME NEW names, NEW so \in Progress(names), NEW sent, NEW entry \in BundledAutorun, entry.profile \in names
  PROVE  LET next == Imports!NextAutorun(so, sent, entry) IN next \in Progress(names) /\ Adds(so, next, sent, entry)
<1> DEFINE next == Imports!NextAutorun(so, sent, entry)
           linked == IF so.created[entry.profile] # {} THEN so.created[entry.profile] ELSE Imports!Existing(so.rows, entry.profile)
           profile == CHOOSE row \in linked : TRUE
           run == [name |-> entry.name, profile |-> profile]
           none == [so EXCEPT !.refused = TRUE]
           more == [so EXCEPT !.made = Append(@, run)]
<1>1. /\ so.rows \in SUBSET OwnProfile /\ so.created \in [names -> SUBSET OwnProfile]
      /\ so.made \in Seq(Made) /\ so.refused \in BOOLEAN
  BY DEF Progress
<1>2. linked \in SUBSET OwnProfile BY <1>1 DEF Imports!Existing, Imports!Named
<1>3. \/ next = so
      \/ next = none
      \/ next = more /\ linked # {} /\ entry.name \notin sent.removedAutoruns
  BY DEF Imports!NextAutorun, Imports!ImportAutorun
<1> HIDE DEF next, linked
<1>4. CASE next = so BY <1>4 DEF next, Adds
<1>5. CASE next = none
  <2>1. none.rows = so.rows /\ none.made = so.made /\ none.refused BY DEF Progress
  <2>2. none \in Progress(names) BY DEF Progress
  <2> QED BY <1>5, <2>1, <2>2 DEF next, Adds
<1>6. CASE next = more /\ linked # {} /\ entry.name \notin sent.removedAutoruns
  <2>1. profile \in OwnProfile BY <1>2, <1>6
  <2> HIDE DEF profile
  <2>2. run \in Made BY <2>1 DEF Made, BundledAutorun
  <2>3. Append(so.made, run) \in Seq(Made) BY <1>1, <2>2
  <2>4. more.rows = so.rows /\ more.made = Append(so.made, run) /\ more.refused = so.refused BY DEF Progress
  <2>5. more \in Progress(names) BY <2>3 DEF Progress
  <2> HIDE DEF more
  <2> QED BY <1>6, <2>1, <2>4, <2>5 DEF next, Adds
<1> QED BY <1>3, <1>4, <1>5, <1>6 DEF next

-----------------------------------------------------------------------------
\* ---- imports: a whole bundle ----
NamesOf(bundle) ==
    {bundle.profiles[i].name : i \in DOMAIN bundle.profiles} \cup {bundle.autoruns[i].profile : i \in DOMAIN bundle.autoruns}
\* The states an import goes through, its profiles first, its autoruns then.
Course(first, then, rows, sent) ==
    LET entries == sent.bundle.profiles
        runs == sent.bundle.autoruns
        names == NamesOf(sent.bundle)
    IN /\ first \in [0 .. Len(entries) -> Progress(names)] /\ first[0] = Imports!NothingYet(rows, sent.bundle)
       /\ \A n \in 1 .. Len(entries) : first[n] = Imports!NextProfile(first[n - 1], sent, entries[n])
       /\ then \in [0 .. Len(runs) -> Progress(names)] /\ then[0] = first[Len(entries)]
       /\ \A n \in 1 .. Len(runs) : then[n] = Imports!NextAutorun(then[n - 1], sent, runs[n])
       /\ Imports!Apply(rows, sent) = then[Len(runs)]

LEMMA ApplyUnfolds ==
  ASSUME NEW rows, Table(rows), NEW sent, WellFormed(sent)
  PROVE  \E first, then : Course(first, then, rows, sent)
<1> DEFINE entries == sent.bundle.profiles
           runs == sent.bundle.autoruns
           N == Len(entries)
           M == Len(runs)
           names == NamesOf(sent.bundle)
           S == Progress(names)
           start == Imports!NothingYet(rows, sent.bundle)
           NextP(so, n) == Imports!NextProfile(so, sent, entries[n])
           NextA(so, n) == Imports!NextAutorun(so, sent, runs[n])
           first == CHOOSE h : h = [n \in 0 .. N |-> IF n = 0 THEN start ELSE NextP(h[n - 1], n)]
           then == CHOOSE h : h = [n \in 0 .. M |-> IF n = 0 THEN first[N] ELSE NextA(h[n - 1], n)]
           F == [n \in 1 .. N |-> [so \in S |-> NextP(so, n)]]
           G == [n \in 1 .. M |-> [so \in S |-> NextA(so, n)]]
<1>1. entries \in Seq(BundledProfile) /\ runs \in Seq(BundledAutorun) /\ N \in Nat /\ M \in Nat
  BY DEF WellFormed, Bundle
<1>2. Imports!Apply(rows, sent) = then[M] BY DEF Imports!Apply
<1>3. start \in S
  <2>1. start = [rows |-> rows, created |-> [name \in names |-> {}], made |-> <<>>, refused |-> FALSE]
    BY DEF Imports!NothingYet, NamesOf
  <2>2. [name \in names |-> {}] \in [names -> SUBSET OwnProfile] OBVIOUS
  <2>3. rows \in {r \in SUBSET OwnProfile : Table(r)} BY DEF Table
  <2>4. <<>> \in Seq(Made) OBVIOUS
  <2> QED BY <2>1, <2>2, <2>3, <2>4 DEF Progress
<1>4. ASSUME NEW n \in 1 .. N, NEW so \in S PROVE NextP(so, n) \in S
  <2>1. entries[n] \in BundledProfile /\ entries[n].name \in names BY <1>1 DEF NamesOf
  <2> QED BY <2>1, ProfileFacts
<1>5. ASSUME NEW n \in 1 .. M, NEW so \in S PROVE NextA(so, n) \in S
  <2>1. runs[n] \in BundledAutorun /\ runs[n].profile \in names BY <1>1 DEF NamesOf
  <2> QED BY <2>1, AutorunFacts
<1> HIDE DEF NextP, NextA, start, S
<1>6. first \in [0 .. N -> S] /\ first[0] = start /\ \A n \in 1 .. N : first[n] = NextP(first[n - 1], n)
  <2>1. F \in [1 .. N -> [S -> S]] BY <1>4
  <2>2. PICK h \in [0 .. N -> S] : h[0] = start /\ \A n \in 1 .. N : h[n] = F[n][h[n - 1]]
    <3> HIDE DEF F
    <3>1. Unfolds(S, N) BY <1>1, Unfolding
    <3> QED BY <1>3, <2>1, <3>1 DEF Unfolds
  <2>3. \A n \in 1 .. N : h[n] = NextP(h[n - 1], n)
    <3> TAKE n \in 1 .. N
    <3>1. n - 1 \in 0 .. N BY <1>1
    <3>2. h[n - 1] \in S BY <2>2, <3>1
    <3> QED BY <2>2, <3>2
  <2> HIDE DEF F
  <2>4. h = [n \in 0 .. N |-> IF n = 0 THEN start ELSE NextP(h[n - 1], n)]
    <3>1. \A n \in 0 .. N : n = 0 \/ n \in 1 .. N BY <1>1
    <3> QED BY <2>2, <2>3, <3>1
  <2>5. first = [n \in 0 .. N |-> IF n = 0 THEN start ELSE NextP(first[n - 1], n)] BY <2>4
  <2> HIDE DEF first
  <2>6. first[0] = start BY <1>1, <2>5
  <2>7. \A n \in 1 .. N : first[n] = NextP(first[n - 1], n)
    <3> TAKE n \in 1 .. N
    <3>1. n \in 0 .. N /\ n # 0 BY <1>1
    <3> QED BY <2>5, <3>1
  <2>8. \A n \in 0 .. N : n \in {m \in 0 .. N : first[m] \in S}
    <3> DEFINE T == {m \in 0 .. N : first[m] \in S}
    <3>1. 0 \in T BY <1>1, <1>3, <2>6
    <3>2. ASSUME NEW n \in 1 .. N, n - 1 \in T PROVE n \in T
      <4>1. n \in 0 .. N BY <1>1
      <4> QED BY <1>4, <2>7, <3>2, <4>1
    <3> HIDE DEF T
    <3>3. \A n \in 0 .. N : n \in T BY <1>1, <3>1, <3>2, Climb
    <3> QED BY <3>3 DEF T
  <2>9. first \in [0 .. N -> S] BY <2>5, <2>8
  <2> QED BY <2>6, <2>7, <2>9
<1> HIDE DEF first
<1>7. first[N] \in S
  <2>1. N \in 0 .. N BY <1>1
  <2> QED BY <1>6, <2>1
<1>8. then \in [0 .. M -> S] /\ then[0] = first[N] /\ \A n \in 1 .. M : then[n] = NextA(then[n - 1], n)
  <2>1. G \in [1 .. M -> [S -> S]] BY <1>5
  <2>2. PICK h \in [0 .. M -> S] : h[0] = first[N] /\ \A n \in 1 .. M : h[n] = G[n][h[n - 1]]
    <3> HIDE DEF G
    <3>1. Unfolds(S, M) BY <1>1, Unfolding
    <3> QED BY <1>7, <2>1, <3>1 DEF Unfolds
  <2>3. \A n \in 1 .. M : h[n] = NextA(h[n - 1], n)
    <3> TAKE n \in 1 .. M
    <3>1. n - 1 \in 0 .. M BY <1>1
    <3>2. h[n - 1] \in S BY <2>2, <3>1
    <3> QED BY <2>2, <3>2
  <2> HIDE DEF G
  <2>4. h = [n \in 0 .. M |-> IF n = 0 THEN first[N] ELSE NextA(h[n - 1], n)]
    <3>1. \A n \in 0 .. M : n = 0 \/ n \in 1 .. M BY <1>1
    <3> QED BY <2>2, <2>3, <3>1
  <2>5. then = [n \in 0 .. M |-> IF n = 0 THEN first[N] ELSE NextA(then[n - 1], n)] BY <2>4
  <2> HIDE DEF then
  <2>6. then[0] = first[N] BY <1>1, <2>5
  <2>7. \A n \in 1 .. M : then[n] = NextA(then[n - 1], n)
    <3> TAKE n \in 1 .. M
    <3>1. n \in 0 .. M /\ n # 0 BY <1>1
    <3> QED BY <2>5, <3>1
  <2>8. \A n \in 0 .. M : n \in {m \in 0 .. M : then[m] \in S}
    <3> DEFINE T == {m \in 0 .. M : then[m] \in S}
    <3>1. 0 \in T BY <1>1, <1>7, <2>6
    <3>2. ASSUME NEW n \in 1 .. M, n - 1 \in T PROVE n \in T
      <4>1. n \in 0 .. M BY <1>1
      <4> QED BY <1>5, <2>7, <3>2, <4>1
    <3> HIDE DEF T
    <3>3. \A n \in 0 .. M : n \in T BY <1>1, <3>1, <3>2, Climb
    <3> QED BY <3>3 DEF T
  <2>9. then \in [0 .. M -> S] BY <2>5, <2>8
  <2> QED BY <2>6, <2>7, <2>9
<1> HIDE DEF then
<1>9. Course(first, then, rows, sent) BY <1>2, <1>6, <1>8 DEF Course, NextP, NextA, S, start
<1> QED BY <1>9

\* What an import adds to a table.
Grown(rows, more, sent) ==
    LET entries == sent.bundle.profiles IN
    /\ rows \subseteq more
    /\ \A row \in more \ rows :
          /\ \E i \in DOMAIN entries : entries[i].name \notin sent.removedProfiles /\ Imports!MadeOf(row, entries[i])
          /\ Imports!Named(more, row.name) = {row} \/ Imports!EndsInLast(row.name)
LEMMA GrowsOn ==
  ASSUME NEW rows, NEW more, Table(more), NEW sent, WellFormed(sent), Grown(rows, more, sent),
         NEW i \in DOMAIN sent.bundle.profiles, sent.bundle.profiles[i].name \notin sent.removedProfiles,
         Imports!ResolveWithMap(sent.bundle.profiles[i].plugin, sent.map) # Imports!NoPlugin
  PROVE  Grown(rows, more \cup {Row(more, sent.bundle.profiles[i], sent.map)}, sent)
<1> DEFINE entry == sent.bundle.profiles[i]
           row == Row(more, entry, sent.map)
           next == more \cup {row}
<1>1. /\ row \notin more /\ Imports!MadeOf(row, entry)
      /\ Imports!Named(more, row.name) = {} \/ Imports!EndsInLast(row.name)
  <2>1. entry \in BundledProfile /\ sent.map \subseteq [hash : STRING, plugin : Installed] BY DEF WellFormed, Bundle
  <2> HIDE DEF entry
  <2>2. Imports!ResolveWithMap(entry.plugin, sent.map) # Imports!NoPlugin BY DEF entry
  <2>3. Fresh(more, row, entry) BY <2>1, <2>2, RowFacts
  <2> QED BY <2>3 DEF Fresh
<1> HIDE DEF row
<1>2. ASSUME NEW r \in next \ rows PROVE Imports!Named(next, r.name) = {r} \/ Imports!EndsInLast(r.name)
  <2>1. CASE r = row BY <1>1, <2>1 DEF Imports!Named
  <2>2. CASE r # row
    <3>1. r \in more \ rows BY <1>2, <2>2
    <3>2. Imports!Named(more, r.name) = {r} \/ Imports!EndsInLast(r.name) BY <3>1 DEF Grown
    <3>3. row.name = r.name => Imports!EndsInLast(r.name) BY <1>1, <3>1 DEF Imports!Named
    <3> QED BY <3>2, <3>3 DEF Imports!Named
  <2> QED BY <2>1, <2>2
<1>3. ASSUME NEW r \in next \ rows
      PROVE  \E j \in DOMAIN sent.bundle.profiles :
                sent.bundle.profiles[j].name \notin sent.removedProfiles /\ Imports!MadeOf(r, sent.bundle.profiles[j])
  <2>1. CASE r = row BY <1>1, <2>1
  <2>2. CASE r # row BY <1>3, <2>2 DEF Grown
  <2> QED BY <2>1, <2>2
<1>4. rows \subseteq next BY DEF Grown
<1> QED BY <1>2, <1>3, <1>4 DEF Grown, row

LEMMA CourseFacts ==
  ASSUME NEW rows, Table(rows), NEW sent, WellFormed(sent), NEW first, NEW then, Course(first, then, rows, sent)
  PROVE  LET N == Len(sent.bundle.profiles)
             so == Imports!Apply(rows, sent)
         IN  /\ Table(so.rows) /\ so.made \in Seq(Made) /\ so.refused \in BOOLEAN
             /\ so.rows = first[N].rows /\ first[0].rows = rows
             /\ ~so.refused => \A n \in 0 .. N : ~first[n].refused
             /\ \A i \in DOMAIN so.made : so.made[i].name \notin sent.removedAutoruns
             /\ Grown(rows, so.rows, sent)
<1> DEFINE entries == sent.bundle.profiles
           runs == sent.bundle.autoruns
           N == Len(entries)
           M == Len(runs)
           names == NamesOf(sent.bundle)
           so == Imports!Apply(rows, sent)
           Kept(made) == \A i \in DOMAIN made : made[i].name \notin sent.removedAutoruns
<1>1. entries \in Seq(BundledProfile) /\ runs \in Seq(BundledAutorun) /\ N \in Nat /\ M \in Nat
  BY DEF WellFormed, Bundle
<1>2. /\ first \in [0 .. N -> Progress(names)] /\ first[0] = Imports!NothingYet(rows, sent.bundle)
      /\ \A n \in 1 .. N : first[n] = Imports!NextProfile(first[n - 1], sent, entries[n])
      /\ then \in [0 .. M -> Progress(names)] /\ then[0] = first[N]
      /\ \A n \in 1 .. M : then[n] = Imports!NextAutorun(then[n - 1], sent, runs[n])
      /\ so = then[M]
  BY DEF Course
<1>3. first[0].rows = rows /\ first[0].made = <<>> BY <1>2 DEF Imports!NothingYet
<1>4. ASSUME NEW n \in 1 .. N
      PROVE  /\ first[n].made = first[n - 1].made /\ (first[n - 1].refused => first[n].refused)
             /\ Grown(rows, first[n - 1].rows, sent) => Grown(rows, first[n].rows, sent)
  <2>1. n - 1 \in 0 .. N /\ first[n - 1] \in Progress(names) BY <1>1, <1>2
  <2>2. entries[n] \in BundledProfile /\ entries[n].name \in names BY <1>1 DEF NamesOf
  <2>3. Table(first[n - 1].rows) BY <2>1 DEF Progress
  <2> DEFINE row == Row(first[n - 1].rows, entries[n], sent.map)
  <2>4. /\ first[n].made = first[n - 1].made /\ (first[n - 1].refused => first[n] = first[n - 1])
        /\ \/ first[n].rows = first[n - 1].rows
           \/ /\ first[n].rows = first[n - 1].rows \cup {row} /\ entries[n].name \notin sent.removedProfiles
              /\ Imports!ResolveWithMap(entries[n].plugin, sent.map) # Imports!NoPlugin
    BY <1>2, <2>1, <2>2, ProfileFacts
  <2>5. ASSUME Grown(rows, first[n - 1].rows, sent), entries[n].name \notin sent.removedProfiles,
               Imports!ResolveWithMap(entries[n].plugin, sent.map) # Imports!NoPlugin
        PROVE  Grown(rows, first[n - 1].rows \cup {row}, sent)
    <3> DEFINE more == first[n - 1].rows
    <3>1. n \in DOMAIN sent.bundle.profiles BY <1>1
    <3>2. Table(more) /\ Grown(rows, more, sent) BY <2>3, <2>5
    <3> HIDE DEF more
    <3>3. Grown(rows, more \cup {Row(more, sent.bundle.profiles[n], sent.map)}, sent) BY <2>5, <3>1, <3>2, GrowsOn
    <3> QED BY <3>3 DEF more
  <2> HIDE DEF row
  <2> QED BY <2>4, <2>5
<1>5. ASSUME NEW n \in 1 .. M
      PROVE  /\ then[n].rows = then[n - 1].rows /\ (then[n - 1].refused => then[n].refused)
             /\ Kept(then[n - 1].made) => Kept(then[n].made)
  <2>0. n - 1 \in 0 .. M BY <1>1
  <2>1. then[n - 1] \in Progress(names) /\ then[n] = Imports!NextAutorun(then[n - 1], sent, runs[n]) BY <1>2, <2>0
  <2>2. runs[n] \in BundledAutorun /\ runs[n].profile \in names BY <1>1 DEF NamesOf
  <2>3. then[n - 1].made \in Seq(Made) BY <2>1 DEF Progress
  <2>4. Adds(then[n - 1], then[n], sent, runs[n]) BY <2>1, <2>2, AutorunFacts
  <2>5. ASSUME Kept(then[n - 1].made), runs[n].name \notin sent.removedAutoruns, NEW profile \in OwnProfile
        PROVE  Kept(Append(then[n - 1].made, [name |-> runs[n].name, profile |-> profile]))
    <3> DEFINE run == [name |-> runs[n].name, profile |-> profile]
    <3>1. run \in Made BY <2>2 DEF Made, BundledAutorun
    <3>2. run.name = runs[n].name OBVIOUS
    <3> HIDE DEF run
    <3>3. Kept(Append(then[n - 1].made, run)) BY <2>3, <2>5, <3>1, <3>2
    <3> QED BY <3>3 DEF run
  <2> HIDE DEF Kept
  <2> QED BY <2>4, <2>5 DEF Adds
<1> HIDE DEF Kept
<1>6. \A n \in 0 .. N : first[n].made = <<>> /\ Grown(rows, first[n].rows, sent)
  <2> DEFINE T == {n \in 0 .. N : first[n].made = <<>> /\ Grown(rows, first[n].rows, sent)}
  <2>1. Grown(rows, rows, sent) BY DEF Grown
  <2>2. 0 \in T BY <1>1, <1>3, <2>1
  <2>3. ASSUME NEW n \in 1 .. N, n - 1 \in T PROVE n \in T
    <3>1. n \in 0 .. N BY <1>1
    <3> QED BY <1>4, <2>3, <3>1
  <2> HIDE DEF T
  <2>4. \A n \in 0 .. N : n \in T BY <1>1, <2>2, <2>3, Climb
  <2> QED BY <2>4 DEF T
<1>7. \A n \in 0 .. M : then[n].rows = first[N].rows /\ Kept(then[n].made) /\ (first[N].refused => then[n].refused)
  <2> DEFINE T == {n \in 0 .. M : then[n].rows = first[N].rows /\ Kept(then[n].made) /\ (first[N].refused => then[n].refused)}
  <2>1. N \in 0 .. N BY <1>1
  <2>2. then[0].made = <<>> BY <1>2, <1>6, <2>1
  <2>3. Kept(<<>>) BY DEF Kept
  <2>4. 0 \in T BY <1>1, <1>2, <2>2, <2>3
  <2>5. ASSUME NEW n \in 1 .. M, n - 1 \in T PROVE n \in T
    <3>1. n \in 0 .. M BY <1>1
    <3> QED BY <1>5, <2>5, <3>1
  <2> HIDE DEF T
  <2>6. \A n \in 0 .. M : n \in T BY <1>1, <2>4, <2>5, Climb
  <2> QED BY <2>6 DEF T
<1>8. ASSUME NEW k \in 0 .. N, first[k].refused PROVE first[N].refused
  <2> DEFINE T == {n \in 0 .. N : k <= n => first[n].refused}
  <2>1. 0 \in T BY <1>1, <1>8
  <2>2. ASSUME NEW n \in 1 .. N, n - 1 \in T PROVE n \in T
    <3>1. n \in 0 .. N /\ (k <= n => k <= n - 1 \/ k = n) BY <1>1
    <3> QED BY <1>4, <1>8, <2>2, <3>1
  <2> HIDE DEF T
  <2>3. \A n \in 0 .. N : n \in T BY <1>1, <2>1, <2>2, Climb
  <2>4. N \in 0 .. N /\ k <= N BY <1>1
  <2> QED BY <2>3, <2>4 DEF T
<1>9. M \in 0 .. M /\ N \in 0 .. N BY <1>1
<1>10. so \in Progress(names) BY <1>2, <1>9
<1>11. Table(so.rows) /\ so.made \in Seq(Made) /\ so.refused \in BOOLEAN
  <2> HIDE DEF so
  <2> QED BY <1>10 DEF Progress
<1>12. so.rows = first[N].rows /\ Kept(so.made) /\ (first[N].refused => so.refused) BY <1>2, <1>7, <1>9
<1>13. Grown(rows, so.rows, sent) BY <1>6, <1>9, <1>12
<1> HIDE DEF so
<1>14. ~so.refused => \A n \in 0 .. N : ~first[n].refused BY <1>8, <1>12
<1> QED BY <1>3, <1>11, <1>12, <1>13, <1>14 DEF Kept, so

-----------------------------------------------------------------------------
\* ---- imports: what an import leaves ----

\* A bundle whose every profile is found makes none.
LEMMA AllFound ==
  ASSUME NEW rows, Table(rows), NEW sent, WellFormed(sent),
         \A i \in DOMAIN sent.bundle.profiles :
            sent.bundle.profiles[i].name \in sent.removedProfiles \/ Matches(rows, sent.bundle.profiles[i])
  PROVE  Imports!Apply(rows, sent).rows = rows
<1> DEFINE entries == sent.bundle.profiles
           N == Len(entries)
           names == NamesOf(sent.bundle)
<1>1. PICK first, then : Course(first, then, rows, sent) BY ApplyUnfolds
<1>2. entries \in Seq(BundledProfile) /\ N \in Nat BY DEF WellFormed, Bundle
<1>3. /\ first \in [0 .. N -> Progress(names)] /\ \A n \in 1 .. N : first[n] = Imports!NextProfile(first[n - 1], sent, entries[n])
  BY <1>1 DEF Course
<1>4. Imports!Apply(rows, sent).rows = first[N].rows /\ first[0].rows = rows BY <1>1, CourseFacts
<1> DEFINE T == {n \in 0 .. N : first[n].rows = rows}
<1>5. 0 \in T BY <1>2, <1>4
<1>6. ASSUME NEW n \in 1 .. N, n - 1 \in T PROVE n \in T
  <2>1. n - 1 \in 0 .. N /\ n \in 0 .. N BY <1>2
  <2>2. first[n - 1] \in Progress(names) /\ first[n] = Imports!NextProfile(first[n - 1], sent, entries[n]) BY <1>3, <2>1
  <2>3. entries[n] \in BundledProfile /\ entries[n].name \in names /\ n \in DOMAIN entries BY <1>2 DEF NamesOf
  <2>4. entries[n].name \in sent.removedProfiles \/ Matches(first[n - 1].rows, entries[n]) BY <1>6, <2>3
  <2>5. first[n].rows = first[n - 1].rows BY <2>2, <2>3, <2>4, ProfileFacts
  <2> QED BY <1>6, <2>1, <2>5
<1> HIDE DEF T
<1>7. \A n \in 0 .. N : n \in T BY <1>2, <1>5, <1>6, Climb
<1>8. N \in T BY <1>2, <1>7
<1> QED BY <1>4, <1>8 DEF T

\* A finite set is listed.
LEMMA ProfilesListed ==
  ASSUME NEW S, IsFiniteSet(S)
  PROVE  Imports!SetToSeq(S) \in Seq(S)
<1> DEFINE N == Cardinality(S)
           s == Imports!SetToSeq(S)
<1>1. N \in Nat /\ ExistsBijection(1 .. N, S) BY FS_CardinalityType
<1>2. PICK f \in Bijection(1 .. N, S) : TRUE BY <1>1 DEF ExistsBijection
<1>3. f \in [1 .. N -> S] /\ Imports!IsInjective(f)
  BY <1>2 DEF Bijection, Injection, Imports!IsInjective, IsInjective
<1>4. s \in [1 .. N -> S]
  <2>1. Imports!Cardinality(S) = N BY DEF Imports!Cardinality, Cardinality
  <2> QED BY <1>3, <2>1 DEF Imports!SetToSeq
<1> HIDE DEF s
<1> QED BY <1>1, <1>4 DEF s

\* What was exported here is found here.
LEMMA ExportedIsFound == ASSUME NEW rows, Table(rows) PROVE Imports!ExportImportsBack(rows)
<1> DEFINE own == {row \in rows : row \in Imports!Existing(rows, row.name)}
           order == Imports!SetToSeq(own)
           entry(row) == Imports!ProfileEntry(row)
           entries == [i \in DOMAIN order |-> entry(order[i])]
           bundle == Imports!MergeBundles(own)
           sent == [bundle |-> bundle, map |-> {}, removedProfiles |-> {}, removedAutoruns |-> {}]
<1>1. order \in Seq(own)
  <2>1. IsFiniteSet(own)
    <3>1. own \subseteq rows /\ IsFiniteSet(rows) BY DEF Table
    <3> QED BY <3>1, FS_Subset
  <2> QED BY <2>1, ProfilesListed
<1>2. bundle = [profiles |-> entries, autoruns |-> <<>>] BY DEF Imports!MergeBundles
<1> HIDE DEF order
<1>3. ASSUME NEW row \in own PROVE entry(row) \in BundledProfile /\ Matches(rows, entry(row))
  <2>1. row \in OwnProfile BY DEF Table
  <2>2. /\ row.name \in Name /\ row.content \in STRING /\ row.plugin \in Plugin
    BY <2>1, ImportAssumption DEF OwnProfile
  <2>3. entry(row) = [name |-> row.name, plugin |-> row.plugin, content |-> row.content] BY DEF Imports!ProfileEntry
  <2>4. row \in Imports!Existing(rows, row.name) OBVIOUS
  <2> QED BY <2>2, <2>3, <2>4 DEF BundledProfile, Matches, Imports!SameProfile
<1>4. entries \in Seq(BundledProfile) /\ \A i \in DOMAIN entries : Matches(rows, entries[i])
  <2>1. \A i \in DOMAIN order : order[i] \in own BY <1>1
  <2>2. Len(order) \in Nat /\ DOMAIN order = 1 .. Len(order) BY <1>1
  <2> HIDE DEF own, entry
  <2>3. entries \in [1 .. Len(order) -> BundledProfile] /\ \A i \in DOMAIN entries : Matches(rows, entries[i])
    BY <1>3, <2>1, <2>2
  <2> QED BY <2>2, <2>3
<1>5. /\ sent.bundle = bundle /\ sent.map = {} /\ bundle.profiles = entries /\ bundle.autoruns = <<>> BY <1>2
<1>6. bundle \in Bundle
  <2>1. <<>> \in Seq(BundledAutorun) OBVIOUS
  <2>2. entries \in Seq(BundledProfile) BY <1>4
  <2> HIDE DEF entries, bundle
  <2> QED BY <1>2, <2>1, <2>2 DEF Bundle
<1> HIDE DEF entries, bundle
<1>7. WellFormed(sent) BY <1>5, <1>6 DEF WellFormed
<1>8. Imports!Apply(rows, sent).rows = rows
  <2>1. \A i \in DOMAIN sent.bundle.profiles : Matches(rows, sent.bundle.profiles[i]) BY <1>4, <1>5
  <2> HIDE DEF sent
  <2> QED BY <1>7, <2>1, AllFound
<1> QED BY <1>8 DEF Imports!ExportImportsBack, bundle

\* What one row more changes of what is found by names.
AsFound(rows, more, name) ==
    Imports!Named(more, name) = Imports!Named(rows, name) /\ Imports!Existing(more, name) = Imports!Existing(rows, name)
LEMMA FoundGrows ==
  ASSUME NEW rows, NEW row, NEW name
  PROVE  /\ row.name # name => AsFound(rows, rows \cup {row}, name)
         /\ row.name = name /\ Imports!Named(rows, name) = {} /\ row.id \in Int => Imports!Existing(rows \cup {row}, name) = {row}
<1> DEFINE more == rows \cup {row}
<1>1. ASSUME row.name # name PROVE AsFound(rows, more, name)
  <2>1. Imports!Named(more, name) = Imports!Named(rows, name) BY <1>1 DEF Imports!Named
  <2> HIDE DEF more
  <2> QED BY <2>1 DEF AsFound, Imports!Existing
<1>2. ASSUME row.name = name, Imports!Named(rows, name) = {}, row.id \in Int PROVE Imports!Existing(more, name) = {row}
  <2>1. Imports!Named(more, name) = {row} BY <1>2 DEF Imports!Named
  <2> HIDE DEF more
  <2> QED BY <1>2, <2>1 DEF Imports!Existing
<1> QED BY <1>1, <1>2

\* The plugins of all profiles are installed, no other profile has the name of
\* one, and of two entries of one name none is different.
Repeatable(rows, sent) ==
    LET entries == sent.bundle.profiles IN
    \A i \in DOMAIN entries :
       /\ Imports!ByHash(entries[i].plugin) # {} /\ \A m \in sent.map : m.hash # entries[i].plugin.hash
       /\ \A row \in Imports!Existing(rows, entries[i].name) : Imports!SameProfile(row, entries[i])
       /\ \A j \in DOMAIN entries : entries[j].name = entries[i].name => entries[j] = entries[i]
LEMMA RepeatFacts ==
  ASSUME NEW rows, Table(rows), NEW sent, WellFormed(sent), Repeatable(rows, sent), ~Imports!Apply(rows, sent).refused
  PROVE  LET left == Imports!Apply(rows, sent).rows IN Imports!Apply(left, sent).rows = left
<1> DEFINE entries == sent.bundle.profiles
           N == Len(entries)
           names == NamesOf(sent.bundle)
           removed == sent.removedProfiles
           Same(table) == \A i \in DOMAIN entries : \A row \in Imports!Existing(table, entries[i].name) : Imports!SameProfile(row, entries[i])
           Found(table, n) == \A i \in 1 .. n : entries[i].name \in removed \/ Matches(table, entries[i])
<1>1. PICK first, then : Course(first, then, rows, sent) BY ApplyUnfolds
<1>2. entries \in Seq(BundledProfile) /\ N \in Nat /\ DOMAIN entries = 1 .. N BY DEF WellFormed, Bundle
<1>3. /\ first \in [0 .. N -> Progress(names)] /\ \A n \in 1 .. N : first[n] = Imports!NextProfile(first[n - 1], sent, entries[n])
  BY <1>1 DEF Course
<1>4. /\ Imports!Apply(rows, sent).rows = first[N].rows /\ first[0].rows = rows /\ Table(Imports!Apply(rows, sent).rows)
      /\ \A n \in 0 .. N : ~first[n].refused
  BY <1>1, CourseFacts
<1> DEFINE T == {n \in 0 .. N : Same(first[n].rows) /\ Found(first[n].rows, n)}
<1>5. 0 \in T
  <2>1. Same(rows) BY DEF Repeatable
  <2>2. Found(rows, 0) OBVIOUS
  <2> HIDE DEF Same, Found
  <2> QED BY <1>2, <1>4, <2>1, <2>2
<1>6. ASSUME NEW n \in 1 .. N, n - 1 \in T PROVE n \in T
  <2> DEFINE table == first[n - 1].rows
             entry == entries[n]
             row == Row(table, entry, sent.map)
  <2>1. n - 1 \in 0 .. N /\ n \in 0 .. N /\ (1 .. n) = (1 .. n - 1) \cup {n} BY <1>2
  <2>2. first[n - 1] \in Progress(names) /\ first[n] = Imports!NextProfile(first[n - 1], sent, entry) BY <1>3, <2>1
  <2>3. entry \in BundledProfile /\ entry.name \in names /\ n \in DOMAIN entries BY <1>2 DEF NamesOf
  <2>4. ~first[n].refused BY <1>4, <2>1
  <2>5. Table(table) BY <2>2 DEF Progress
  <2>6. \/ first[n].rows = table /\ (entry.name \in removed \/ Matches(table, entry))
        \/ /\ first[n].rows = table \cup {row} /\ ~Matches(table, entry)
           /\ Imports!ResolveWithMap(entry.plugin, sent.map) # Imports!NoPlugin
    BY <2>2, <2>3, <2>4, ProfileFacts
  <2>7. Same(table) /\ Found(table, n - 1) BY <1>6
  <2> HIDE DEF table, entry, row, Same, Found
  <2>8. CASE first[n].rows = table /\ (entry.name \in removed \/ Matches(table, entry))
    <3>1. Found(table, n) BY <2>1, <2>7, <2>8 DEF Found, entry
    <3> QED BY <2>1, <2>7, <2>8, <3>1
  <2>9. CASE /\ first[n].rows = table \cup {row} /\ ~Matches(table, entry)
             /\ Imports!ResolveWithMap(entry.plugin, sent.map) # Imports!NoPlugin
    <3> DEFINE more == table \cup {row}
    <3>1. Imports!Existing(table, entry.name) = {}
      <4>1. \A old \in Imports!Existing(table, entry.name) : Imports!SameProfile(old, entry)
        BY <2>3, <2>7 DEF Same, entry
      <4> QED BY <2>9, <4>1 DEF Matches
    <3>2. Imports!Named(table, entry.name) = {} BY <2>5, <3>1, FoundByName
    <3>3. row \in OwnProfile /\ row.name = entry.name
      <4>0. Imports!NameFor(table, entry) = entry.name BY <3>1 DEF Imports!NameFor
      <4>1. sent.map \subseteq [hash : STRING, plugin : Installed] BY DEF WellFormed
      <4>2. Fresh(table, Row(table, entry, sent.map), entry) BY <2>3, <2>5, <2>9, <4>1, RowFacts
      <4> QED BY <4>0, <4>2 DEF Fresh, row, Row
    <3>4. row.content = entry.content /\ row.plugin = Imports!ResolveWithMap(entry.plugin, sent.map) BY DEF row, Row
    <3>5. row.plugin.hash = entry.plugin.hash
      <4>1. entry.plugin \in Plugin BY <2>3 DEF BundledProfile
      <4>2. Imports!ByHash(entry.plugin) # {} /\ \A m \in sent.map : m.hash # entry.plugin.hash
        BY <2>3 DEF Repeatable, entry
      <4> QED BY <3>4, <4>1, <4>2, PluginFacts DEF WellFormed
    <3>6. Imports!SameProfile(row, entry) BY <3>4, <3>5 DEF Imports!SameProfile
    <3>7. Imports!Existing(more, entry.name) = {row}
      <4>1. row.id \in Int BY <3>3 DEF OwnProfile
      <4>2. Imports!Existing(table \cup {row}, entry.name) = {row} BY <3>2, <3>3, <4>1, FoundGrows
      <4> QED BY <4>2
    <3>8. ASSUME NEW i \in DOMAIN entries, entries[i].name # entry.name
          PROVE  Imports!Existing(more, entries[i].name) = Imports!Existing(table, entries[i].name)
      <4>1. AsFound(table, table \cup {row}, entries[i].name) BY <3>3, <3>8, FoundGrows
      <4> QED BY <4>1 DEF AsFound
    <3>9. ASSUME NEW i \in DOMAIN entries, entries[i].name = entry.name PROVE entries[i] = entry
      BY <2>3, <3>9 DEF Repeatable, entry
    <3> HIDE DEF more
    <3>10. Same(more)
      <4> SUFFICES ASSUME NEW i \in DOMAIN entries, NEW r \in Imports!Existing(more, entries[i].name)
                   PROVE  Imports!SameProfile(r, entries[i])
        BY DEF Same
      <4>1. CASE entries[i].name = entry.name BY <3>6, <3>7, <3>9, <4>1
      <4>2. CASE entries[i].name # entry.name BY <2>7, <3>8, <4>2 DEF Same
      <4> QED BY <4>1, <4>2
    <3>11. Found(more, n)
      <4> SUFFICES ASSUME NEW i \in 1 .. n, entries[i].name \notin removed PROVE Matches(more, entries[i])
        BY DEF Found
      <4>0. i \in DOMAIN entries BY <1>2
      <4>1. CASE entries[i].name = entry.name
        <5>1. entries[i] = entry BY <3>9, <4>0, <4>1
        <5> QED BY <3>6, <3>7, <5>1 DEF Matches
      <4>2. CASE entries[i].name # entry.name
        <5>1. i \in 1 .. n - 1 BY <2>1, <4>2 DEF entry
        <5>2. Matches(table, entries[i]) BY <2>7, <5>1 DEF Found
        <5> QED BY <3>8, <4>0, <4>2, <5>2 DEF Matches
      <4> QED BY <4>1, <4>2
    <3> QED BY <2>1, <2>9, <3>10, <3>11 DEF more
  <2> QED BY <2>6, <2>8, <2>9
<1> HIDE DEF T
<1>7. \A n \in 0 .. N : n \in T BY <1>2, <1>5, <1>6, Climb
<1>8. N \in T BY <1>2, <1>7
<1>9. Found(first[N].rows, N) BY <1>8 DEF T
<1>10. \A i \in DOMAIN entries : entries[i].name \in removed \/ Matches(Imports!Apply(rows, sent).rows, entries[i])
  BY <1>2, <1>4, <1>9
<1> QED BY <1>4, <1>10, AllFound

\* What the validation says an entry becomes.
Becomes(rows, entry) == Imports!ProfileItem(rows, entry).becomes
LEMMA BecomesFacts ==
  ASSUME NEW rows, Table(rows), NEW entry
  PROVE  /\ Becomes(rows, entry) = IF Matches(rows, entry) THEN {} ELSE {Imports!NameFor(rows, entry)}
         /\ Imports!Named(rows, entry.name) = {} => Becomes(rows, entry) = {entry.name}
<1>1. Becomes(rows, entry) = IF Matches(rows, entry) THEN {} ELSE {Imports!NameFor(rows, entry)}
  BY DEF Becomes, Matches, Imports!ProfileItem
<1>2. ASSUME Imports!Named(rows, entry.name) = {} PROVE Becomes(rows, entry) = {entry.name}
  <2>1. Imports!Existing(rows, entry.name) = {} BY <1>2, FoundByName
  <2> QED BY <1>1, <2>1 DEF Matches, Imports!NameFor
<1> QED BY <1>1, <1>2

\* The entries a name is announced for, up to the n-th.
Due(rows, sent, n) ==
    LET entries == sent.bundle.profiles IN
    {i \in 1 .. n : Becomes(rows, entries[i]) # {} /\ entries[i].name \notin sent.removedProfiles}
Told(rows, sent, n) == UNION {Becomes(rows, sent.bundle.profiles[i]) : i \in Due(rows, sent, n)}
NewNames(rows, more) == {row.name : row \in more \ rows}
\* A report that announces no name twice, and none that is taken.
Clear(rows, sent) ==
    LET entries == sent.bundle.profiles
        due == Due(rows, sent, Len(entries))
    IN /\ \A i, j \in due : i # j => Becomes(rows, entries[i]) # Becomes(rows, entries[j])
       /\ \A row \in rows : \A i \in due : row.name \notin Becomes(rows, entries[i])

\* One entry of such a report: it is as it was announced, whatever the entries
\* before it became.
LEMMA ToldIsMade ==
  ASSUME NEW rows, Table(rows), NEW sent, WellFormed(sent), Clear(rows, sent),
         NEW n \in DOMAIN sent.bundle.profiles, sent.bundle.profiles[n].name \notin sent.removedProfiles,
         NEW more, rows \subseteq more, NewNames(rows, more) = Told(rows, sent, n - 1)
  PROVE  LET entry == sent.bundle.profiles[n] IN
         /\ Matches(more, entry) <=> Becomes(rows, entry) = {}
         /\ Becomes(rows, entry) # {} => Becomes(rows, entry) = {Imports!NameFor(more, entry)}
<1> DEFINE entries == sent.bundle.profiles
           N == Len(entries)
           entry == entries[n]
           due == Due(rows, sent, N)
           name == entry.name
           u == Imports!UniqueNumber(rows, name)
<1>1. entries \in Seq(BundledProfile) /\ N \in Nat /\ n \in 1 .. N BY DEF WellFormed, Bundle
<1>2. ASSUME NEW new \in NewNames(rows, more)
      PROVE  \E i \in due : i # n /\ Becomes(rows, entries[i]) = {new}
  <2>1. PICK i \in Due(rows, sent, n - 1) : new \in Becomes(rows, entries[i]) BY <1>2 DEF Told
  <2>2. i \in 1 .. n - 1 /\ Becomes(rows, entries[i]) # {} /\ entries[i].name \notin sent.removedProfiles BY <2>1 DEF Due
  <2>3. i \in 1 .. N /\ i # n BY <1>1, <2>2
  <2>4. i \in due BY <2>2, <2>3 DEF Due
  <2>5. Becomes(rows, entries[i]) = {new}
    <3>1. Becomes(rows, entries[i]) = IF Matches(rows, entries[i]) THEN {} ELSE {Imports!NameFor(rows, entries[i])}
      BY BecomesFacts
    <3> QED BY <2>1, <3>1
  <2> QED BY <2>3, <2>4, <2>5
<1>3. \A row \in rows : \A i \in due : row.name \notin Becomes(rows, entries[i]) BY DEF Clear
<1>4. \A i, j \in due : i # j => Becomes(rows, entries[i]) # Becomes(rows, entries[j]) BY DEF Clear
<1>5. Becomes(rows, entry) # {} => n \in due BY <1>1 DEF Due
<1>6. /\ Becomes(rows, entry) = IF Matches(rows, entry) THEN {} ELSE {Imports!NameFor(rows, entry)}
      /\ Imports!Named(rows, name) = {} => Becomes(rows, entry) = {name}
  BY BecomesFacts
<1> HIDE DEF due, entry, entries
<1>7. \A row \in more \ rows : row.name \in NewNames(rows, more) BY DEF NewNames
<1>8. AsFound(rows, more, name)
  <2>1. name \notin NewNames(rows, more)
    <3> SUFFICES ASSUME name \in NewNames(rows, more) PROVE FALSE OBVIOUS
    <3>1. PICK i \in due : i # n /\ Becomes(rows, entries[i]) = {name} BY <1>2
    <3>2. Imports!Named(rows, name) = {} BY <1>3, <3>1 DEF Imports!Named
    <3> QED BY <1>4, <1>5, <1>6, <3>1, <3>2 DEF entry
  <2>2. Imports!Named(more, name) = Imports!Named(rows, name) BY <1>7, <2>1 DEF Imports!Named
  <2> QED BY <2>2 DEF AsFound, Imports!Existing
<1>9. Matches(more, entry) <=> Matches(rows, entry) BY <1>8 DEF AsFound, Matches
<1>10. Becomes(rows, entry) # {} => Imports!NameFor(more, entry) = Imports!NameFor(rows, entry)
  <2>1. CASE Imports!Existing(rows, name) = {} BY <1>8, <2>1 DEF AsFound, Imports!NameFor
  <2>2. CASE Imports!Existing(rows, name) # {}
    <3> SUFFICES ASSUME Becomes(rows, entry) # {} PROVE Imports!UniqueNumber(more, name) = u
      BY <1>8, <2>2 DEF AsFound, Imports!NameFor, Imports!UniqueName
    <3> DEFINE new == Imports!Numbered(name, u)
    <3>1. n \in due /\ Becomes(rows, entry) = {new} BY <1>5, <1>6, <2>2 DEF Imports!NameFor, Imports!UniqueName
    <3> HIDE DEF new
    <3>2. \A row \in rows : row.name # new BY <1>3, <3>1 DEF entry
    <3>3. new \notin NewNames(rows, more) BY <1>2, <1>4, <3>1 DEF entry
    <3>4. Imports!Named(more, new) = {} BY <1>7, <3>2, <3>3 DEF Imports!Named
    <3>5. Imports!Free(more, name, u) BY <3>4 DEF Imports!Free, new
    <3> QED BY <3>5, SameNumber
  <2> QED BY <2>1, <2>2
<1> QED BY <1>6, <1>9, <1>10 DEF entry, entries

\* What an import makes is what such a report announces.
LEMMA PreviewFacts ==
  ASSUME NEW rows, Table(rows), NEW sent, WellFormed(sent), Clear(rows, sent), ~Imports!Apply(rows, sent).refused
  PROVE  NewNames(rows, Imports!Apply(rows, sent).rows) = Told(rows, sent, Len(sent.bundle.profiles))
<1> DEFINE entries == sent.bundle.profiles
           N == Len(entries)
           names == NamesOf(sent.bundle)
           removed == sent.removedProfiles
           Done(table, n) == rows \subseteq table /\ NewNames(rows, table) = Told(rows, sent, n)
<1>1. PICK first, then : Course(first, then, rows, sent) BY ApplyUnfolds
<1>2. entries \in Seq(BundledProfile) /\ N \in Nat /\ DOMAIN entries = 1 .. N BY DEF WellFormed, Bundle
<1>3. /\ first \in [0 .. N -> Progress(names)] /\ \A n \in 1 .. N : first[n] = Imports!NextProfile(first[n - 1], sent, entries[n])
  BY <1>1 DEF Course
<1>4. /\ Imports!Apply(rows, sent).rows = first[N].rows /\ first[0].rows = rows
      /\ \A n \in 0 .. N : ~first[n].refused
  BY <1>1, CourseFacts
<1> DEFINE T == {n \in 0 .. N : Done(first[n].rows, n)}
<1>5. 0 \in T
  <2>1. Done(rows, 0) BY DEF NewNames, Told, Due
  <2> HIDE DEF Done
  <2> QED BY <1>2, <1>4, <2>1
<1>6. ASSUME NEW n \in 1 .. N, n - 1 \in T PROVE n \in T
  <2> DEFINE table == first[n - 1].rows
             entry == entries[n]
             row == Row(table, entry, sent.map)
             becomes == Becomes(rows, entry)
  <2>1. n - 1 \in 0 .. N /\ n \in 0 .. N /\ (1 .. n) = (1 .. n - 1) \cup {n} BY <1>2
  <2>2. first[n - 1] \in Progress(names) /\ first[n] = Imports!NextProfile(first[n - 1], sent, entry) BY <1>3, <2>1
  <2>3. entry \in BundledProfile /\ entry.name \in names /\ n \in DOMAIN entries BY <1>2 DEF NamesOf
  <2>4. ~first[n].refused BY <1>4, <2>1
  <2>5. Table(table) BY <2>2 DEF Progress
  <2>6. \/ first[n].rows = table /\ (entry.name \in removed \/ Matches(table, entry))
        \/ /\ first[n].rows = table \cup {row} /\ ~Matches(table, entry) /\ entry.name \notin removed
           /\ Imports!ResolveWithMap(entry.plugin, sent.map) # Imports!NoPlugin
    BY <2>2, <2>3, <2>4, ProfileFacts
  <2>7. Done(table, n - 1) BY <1>6
  <2>8. entry.name \notin removed => /\ Matches(table, entry) <=> becomes = {}
                                     /\ becomes # {} => becomes = {row.name}
    <3>1. entry.name \notin removed => /\ Matches(table, entry) <=> becomes = {}
                                       /\ becomes # {} => becomes = {Imports!NameFor(table, entry)}
      <4> SUFFICES ASSUME entry.name \notin removed
                   PROVE  /\ Matches(table, entry) <=> becomes = {}
                          /\ becomes # {} => becomes = {Imports!NameFor(table, entry)}
        OBVIOUS
      <4>1. rows \subseteq table /\ NewNames(rows, table) = Told(rows, sent, n - 1) BY <2>7
      <4> HIDE DEF table, Done
      <4> QED BY <2>3, <4>1, ToldIsMade
    <3>2. row.name = Imports!NameFor(table, entry) BY DEF Row
    <3> HIDE DEF row, entry, table, becomes
    <3> QED BY <3>1, <3>2
  <2>9. Told(rows, sent, n) = Told(rows, sent, n - 1) \cup (IF becomes # {} /\ entry.name \notin removed THEN becomes ELSE {})
    <3>1. Due(rows, sent, n) = Due(rows, sent, n - 1) \cup (IF becomes # {} /\ entry.name \notin removed THEN {n} ELSE {})
      BY <2>1 DEF Due
    <3> QED BY <3>1 DEF Told
  <2>10. row \notin table \/ ~(Imports!ResolveWithMap(entry.plugin, sent.map) # Imports!NoPlugin)
    <3>1. sent.map \subseteq [hash : STRING, plugin : Installed] BY DEF WellFormed
    <3> QED BY <2>3, <2>5, <3>1, RowFacts DEF Fresh
  <2> HIDE DEF table, row, becomes, entry
  <2>11. CASE first[n].rows = table /\ (entry.name \in removed \/ Matches(table, entry))
    <3>1. Done(table, n) BY <2>7, <2>8, <2>9, <2>11
    <3> HIDE DEF Done
    <3> QED BY <2>1, <2>11, <3>1
  <2>12. CASE /\ first[n].rows = table \cup {row} /\ ~Matches(table, entry) /\ entry.name \notin removed
              /\ Imports!ResolveWithMap(entry.plugin, sent.map) # Imports!NoPlugin
    <3> DEFINE more == table \cup {row}
    <3>1. more \ rows = (table \ rows) \cup {row} /\ rows \subseteq more BY <2>7, <2>10, <2>12
    <3>2. NewNames(rows, more) = NewNames(rows, table) \cup {row.name} BY <3>1 DEF NewNames
    <3>3. becomes # {} /\ becomes = {row.name} BY <2>8, <2>12
    <3> HIDE DEF more
    <3>4. Done(more, n) BY <2>7, <2>9, <2>12, <3>1, <3>2, <3>3
    <3> HIDE DEF Done
    <3> QED BY <2>1, <2>12, <3>4 DEF more
  <2> QED BY <2>6, <2>11, <2>12
<1> HIDE DEF T
<1>7. \A n \in 0 .. N : n \in T BY <1>2, <1>5, <1>6, Climb
<1>8. N \in T BY <1>2, <1>7
<1> QED BY <1>4, <1>8 DEF T

\* The items of a report: of the profiles first, of the autoruns then.
Reports(items, rows, bundle) ==
    /\ DOMAIN items = 1 .. Len(bundle.profiles) + Len(bundle.autoruns)
    /\ \A i \in 1 .. Len(bundle.profiles) : items[i] = Imports!ProfileItem(rows, bundle.profiles[i])
    /\ \A i \in DOMAIN items : items[i].kind = IF i \in 1 .. Len(bundle.profiles) THEN "profile" ELSE "autorun"
    /\ \A i \in DOMAIN items : items[i].plugin \in Plugin
LEMMA ValidateFacts ==
  ASSUME NEW rows, NEW bundle \in Bundle
  PROVE  Reports(Imports!Validate(rows, bundle), rows, bundle)
<1> DEFINE N == Len(bundle.profiles)
           M == Len(bundle.autoruns)
           P == [i \in DOMAIN bundle.profiles |-> Imports!ProfileItem(rows, bundle.profiles[i])]
           A == [i \in DOMAIN bundle.autoruns |-> Imports!AutorunItem(rows, bundle, bundle.autoruns[i])]
           S == {P[i] : i \in 1 .. N} \cup {A[i] : i \in 1 .. M}
           items == Imports!Validate(rows, bundle)
<1>1. /\ bundle.profiles \in Seq(BundledProfile) /\ bundle.autoruns \in Seq(BundledAutorun) /\ N \in Nat /\ M \in Nat
      /\ DOMAIN bundle.profiles = 1 .. N /\ DOMAIN bundle.autoruns = 1 .. M
  BY DEF Bundle
<1>2. ASSUME NEW i \in 1 .. N PROVE P[i] = Imports!ProfileItem(rows, bundle.profiles[i]) /\ P[i].kind = "profile" /\ P[i].plugin \in Plugin
  <2>1. bundle.profiles[i] \in BundledProfile BY <1>1
  <2>2. P[i] = Imports!ProfileItem(rows, bundle.profiles[i]) BY <1>1
  <2> HIDE DEF P
  <2> QED BY <2>1, <2>2 DEF BundledProfile, Imports!ProfileItem
<1>3. ASSUME NEW i \in 1 .. M PROVE A[i].kind = "autorun" /\ A[i].plugin \in Plugin
  <2>1. bundle.autoruns[i] \in BundledAutorun BY <1>1
  <2>2. A[i] = Imports!AutorunItem(rows, bundle, bundle.autoruns[i]) BY <1>1
  <2> HIDE DEF A
  <2> QED BY <2>1, <2>2 DEF BundledAutorun, Imports!AutorunItem
<1>4. DOMAIN P = 1 .. N /\ DOMAIN A = 1 .. M BY <1>1
<1>5. P \in [1 .. N -> S] /\ A \in [1 .. M -> S]
  <2>1. (\A i \in 1 .. N : P[i] \in S) /\ (\A i \in 1 .. M : A[i] \in S) OBVIOUS
  <2>2. P = [i \in 1 .. N |-> P[i]] /\ A = [i \in 1 .. M |-> A[i]] BY <1>1
  <2> HIDE DEF P, A, S
  <2> QED BY <2>1, <2>2
<1>6. items = P \o A BY DEF Imports!Validate
<1>0. N \in Nat /\ M \in Nat BY <1>1
<1> HIDE DEF P, A, S, items, N, M
<1>7. P \in Seq(S) /\ A \in Seq(S) /\ Len(P) = N /\ Len(A) = M BY <1>0, <1>5
<1>8. /\ DOMAIN items = 1 .. N + M
      /\ \A i \in 1 .. N + M : items[i] = IF i <= N THEN P[i] ELSE A[i - N]
  BY <1>0, <1>6, <1>7
<1>9. \A i \in 1 .. N : items[i] = Imports!ProfileItem(rows, bundle.profiles[i])
  <2> TAKE i \in 1 .. N
  <2>1. i \in 1 .. N + M /\ i <= N BY <1>0
  <2> QED BY <1>2, <1>8, <2>1
<1>10. ASSUME NEW i \in DOMAIN items
       PROVE  items[i].kind = (IF i \in 1 .. N THEN "profile" ELSE "autorun") /\ items[i].plugin \in Plugin
  <2>0. i \in 1 .. N + M BY <1>8
  <2>1. CASE i \in 1 .. N
    <3>1. i <= N BY <1>0, <2>1
    <3> QED BY <1>2, <1>8, <2>0, <2>1, <3>1
  <2>2. CASE i \notin 1 .. N
    <3>1. i - N \in 1 .. M /\ ~(i <= N) BY <1>0, <2>0, <2>2
    <3>2. items[i] = A[i - N] BY <1>8, <2>0, <3>1
    <3> QED BY <1>3, <2>2, <3>1, <3>2
  <2> QED BY <2>1, <2>2
<1> QED BY <1>8, <1>9, <1>10 DEF Reports, items, N, M

\* What a report announces is what the entries become.
Tells(items, rows, sent) ==
    LET entries == sent.bundle.profiles IN
    /\ Imports!Announced(items, sent.removedProfiles) = Due(rows, sent, Len(entries))
    /\ \A i \in 1 .. Len(entries) : items[i].becomes = Becomes(rows, entries[i])
LEMMA AnnouncedFacts ==
  ASSUME NEW rows, NEW sent, WellFormed(sent)
  PROVE  Tells(Imports!Validate(rows, sent.bundle), rows, sent)
<1> DEFINE items == Imports!Validate(rows, sent.bundle)
           entries == sent.bundle.profiles
           N == Len(entries)
<1>1. Reports(items, rows, sent.bundle) /\ N \in Nat /\ Len(sent.bundle.autoruns) \in Nat
  <2>1. sent.bundle \in Bundle BY DEF WellFormed
  <2> QED BY <2>1, ValidateFacts DEF Bundle
<1> HIDE DEF items
<1>2. ASSUME NEW i \in 1 .. N PROVE i \in DOMAIN items /\ items[i].name = entries[i].name /\ items[i].becomes = Becomes(rows, entries[i])
  <2>0. 1 .. N \subseteq 1 .. N + Len(sent.bundle.autoruns)
    <3> DEFINE M == Len(sent.bundle.autoruns)
    <3>1. N \in Nat /\ M \in Nat BY <1>1
    <3> HIDE DEF N, M
    <3>2. 1 .. N \subseteq 1 .. N + M BY <3>1
    <3> QED BY <3>2 DEF M
  <2>1. i \in DOMAIN items /\ items[i] = Imports!ProfileItem(rows, entries[i]) BY <1>1, <2>0 DEF Reports
  <2>2. items[i].name = entries[i].name BY <2>1 DEF Imports!ProfileItem
  <2> QED BY <2>1, <2>2 DEF Becomes
<1>3. \A i \in DOMAIN items : items[i].kind = "profile" <=> i \in 1 .. N BY <1>1 DEF Reports
<1>4. Imports!Announced(items, sent.removedProfiles) = Due(rows, sent, N) BY <1>2, <1>3 DEF Imports!Announced, Due
<1> QED BY <1>2, <1>4 DEF Tells, items

-----------------------------------------------------------------------------
\* ---- imports: what the panel and the core hold while the page is shown ----
Ways == {"as is", "inline", "bound"}
Choice == [included : BOOLEAN, plugin : Installed \cup {Imports!NoPlugin}, profile : Ways]
\* A report is what the core answered for a table it had.
Answers(of, rows, items) == of \in DOMAIN Bundles /\ items = Imports!Validate(rows, Bundles[of])
Reported(shown) == shown = Imports!NoReport \/ Answers(shown.of, shown.rows, shown.items)
KeysOf(items) == {Imports!Key(items[i]) : i \in DOMAIN items}
\* The choices are of the items of the report.
ChosenOf(chosen, items) == chosen \in [DOMAIN chosen -> Choice] /\ DOMAIN chosen \subseteq KeysOf(items)
\* What was unticked is what is removed.
Leaves(sent) ==
    \A key \in DOMAIN sent.choices :
       ~sent.choices[key].included =>
          /\ key[1] = "profile" => key[2] \in sent.removedProfiles
          /\ key[1] = "autorun" => key[2] \in sent.removedAutoruns
InFlight(sent) == /\ sent.of \in DOMAIN Bundles /\ sent.bundle = Bundles[sent.of]
                  /\ WellFormed(sent) /\ Reported(sent.report) /\ Leaves(sent)
ImportInv ==
    /\ Table(c1) /\ c2 \in Seq(Made)
    /\ c3 \in DOMAIN Bundles \cup {NoBundle}
    /\ Reported(c4)
    /\ ChosenOf(c5, c4.items)
    /\ c6 \subseteq DOMAIN Bundles \cup {BadBundle} /\ c7 \subseteq DOMAIN Bundles
    /\ c8 = Imports!NoBody \/ InFlight(c8)

\* The items of the report shown.
LEMMA ShownFacts ==
  ASSUME NEW shown, Reported(shown)
  PROVE  \A i \in DOMAIN shown.items : shown.items[i].kind \in {"profile", "autorun"} /\ shown.items[i].plugin \in Plugin
<1>1. CASE shown = Imports!NoReport BY <1>1 DEF Imports!NoReport
<1>2. CASE Answers(shown.of, shown.rows, shown.items)
  <2> DEFINE bundle == Bundles[shown.of]
  <2>1. bundle \in Bundle /\ shown.items = Imports!Validate(shown.rows, bundle) BY <1>2, ImportAssumption DEF Answers
  <2>2. Reports(shown.items, shown.rows, bundle) BY <2>1, ValidateFacts
  <2> QED BY <2>2 DEF Reports
<1> QED BY <1>1, <1>2 DEF Reported

LEMMA ImportBegins == Imports!ImportInit => ImportInv
<1> SUFFICES ASSUME Imports!ImportInit PROVE ImportInv OBVIOUS
<1>1. c1 = StartProfiles /\ c2 = <<>> /\ c3 = NoBundle /\ c4 = Imports!NoReport /\ c5 = <<>> /\ c6 = {} /\ c7 = {} /\ c8 = Imports!NoBody
  BY DEF Imports!ImportInit
<1>2. Table(StartProfiles) BY ImportAssumption DEF Table
<1>3. ChosenOf(<<>>, c4.items) BY DEF ChosenOf
<1>4. Reported(c4) BY <1>1 DEF Reported
<1>5. c2 \in Seq(Made)
  <2>1. <<>> \in Seq(Made) OBVIOUS
  <2> QED BY <1>1, <2>1
<1> QED BY <1>1, <1>2, <1>3, <1>4, <1>5 DEF ImportInv

\* The panel is emptied, or holds another bundle.
LEMMA CellsCleared == ASSUME Imports!ClearStaged PROVE c3' = NoBundle /\ Reported(c4') /\ ChosenOf(c5', c4'.items)
<1>1. c3' = NoBundle /\ c4' = Imports!NoReport /\ c5' = <<>> BY DEF Imports!ClearStaged
<1>2. ChosenOf(<<>>, c4'.items) BY DEF ChosenOf
<1> QED BY <1>1, <1>2 DEF Reported
LEMMA CellsStaged ==
  ASSUME NEW b \in DOMAIN Bundles \cup {BadBundle}, Imports!Stage(b), c7 \subseteq DOMAIN Bundles
  PROVE  c3' \in DOMAIN Bundles \cup {NoBundle} /\ Reported(c4') /\ ChosenOf(c5', c4'.items) /\ c7' \subseteq DOMAIN Bundles
<1>1. CASE b = BadBundle
  <2>1. Imports!ClearStaged /\ c7' = c7 BY <1>1 DEF Imports!Stage
  <2> QED BY <2>1, CellsCleared
<1>2. CASE b # BadBundle
  <2>1. b \in DOMAIN Bundles /\ c3' = b /\ c4' = Imports!NoReport /\ c5' = <<>> /\ c7' = c7 \cup {b} BY <1>2 DEF Imports!Stage
  <2>2. ChosenOf(<<>>, c4'.items) BY DEF ChosenOf
  <2> QED BY <2>1, <2>2 DEF Reported
<1> QED BY <1>1, <1>2

LEMMA LoadsKeep ==
  ASSUME ImportInv, NEW b \in DOMAIN Bundles \cup {BadBundle}, Imports!LoadFile(b) \/ Imports!FetchUrl(b) \/ Imports!FetchLands(b)
  PROVE  ImportInv'
<1>1. CASE Imports!LoadFile(b)
  <2>1. Imports!Stage(b) /\ UNCHANGED <<c1, c2, c6, c8>> BY <1>1 DEF Imports!LoadFile
  <2> QED BY <2>1, CellsStaged DEF ImportInv
<1>2. CASE Imports!FetchUrl(b) BY <1>2 DEF ImportInv, Imports!FetchUrl
<1>3. CASE Imports!FetchLands(b)
  <2>1. c6' = {} /\ UNCHANGED <<c1, c2, c8>> /\ (Imports!Stage(b) \/ UNCHANGED <<c3, c4, c5, c7>>) BY <1>3 DEF Imports!FetchLands
  <2> QED BY <2>1, CellsStaged DEF ImportInv
<1> QED BY <1>1, <1>2, <1>3

LEMMA RemoveFileKeeps == ASSUME ImportInv, Imports!RemoveFile PROVE ImportInv'
<1>1. Imports!ClearStaged /\ UNCHANGED <<c1, c2, c6, c7, c8>> BY DEF Imports!RemoveFile
<1> QED BY <1>1, CellsCleared DEF ImportInv

LEMMA CheckLandsKeeps == ASSUME ImportInv, NEW b \in DOMAIN Bundles, Imports!CheckLands(b) PROVE ImportInv'
<1>1. c7' = c7 \ {b} /\ UNCHANGED <<c1, c2, c3, c6, c8>> BY DEF Imports!CheckLands
<1>2. CASE UNCHANGED <<c4, c5>> BY <1>1, <1>2 DEF ImportInv
<1>3. CASE c4' = [of |-> b, rows |-> c1, items |-> Imports!Validate(c1, Bundles[b])] /\ c5' = <<>>
  <2>1. Reported(c4') BY <1>3 DEF Reported, Answers
  <2>2. ChosenOf(<<>>, c4'.items) BY DEF ChosenOf
  <2> QED BY <1>1, <1>3, <2>1, <2>2 DEF ImportInv
<1> QED BY <1>2, <1>3 DEF Imports!CheckLands

\* What an item was decided to be.
LEMMA ChoiceFacts == ASSUME NEW items, ChosenOf(c5, items), NEW item PROVE Imports!ChoiceOf(item) \in Choice
<1>1. Imports!Plain \in Choice
  <2> DEFINE none == Imports!NoPlugin
  <2>1. Imports!Plain = [included |-> TRUE, plugin |-> none, profile |-> "as is"] BY DEF Imports!Plain
  <2> HIDE DEF none
  <2>2. TRUE \in BOOLEAN /\ none \in Installed \cup {none} /\ "as is" \in Ways
    <3>1. TRUE \in BOOLEAN OBVIOUS
    <3>2. none \in Installed \cup {none} /\ "as is" \in Ways BY DEF Ways
    <3> QED BY <3>1, <3>2
  <2>3. [included |-> TRUE, plugin |-> none, profile |-> "as is"] \in [included : BOOLEAN, plugin : Installed \cup {none}, profile : Ways]
    BY <2>2
  <2> QED BY <2>1, <2>3 DEF Choice, none
<1> QED BY <1>1 DEF Imports!ChoiceOf, ChosenOf
LEMMA ChooseKeeps ==
  ASSUME ImportInv, NEW i \in DOMAIN c4.items, NEW choice \in Choice, Imports!Choose(Imports!Key(c4.items[i]), choice),
         UNCHANGED <<c1, c2, c3, c4, c6, c7, c8>>
  PROVE  ImportInv'
<1> DEFINE key == Imports!Key(c4.items[i])
           keys == DOMAIN c5 \cup {key}
<1>1. c5' = [k \in keys |-> IF k = key THEN choice ELSE c5[k]] BY DEF Imports!Choose
<1>2. c5 \in [DOMAIN c5 -> Choice] /\ DOMAIN c5 \subseteq KeysOf(c4.items) BY DEF ImportInv, ChosenOf
<1>3. key \in KeysOf(c4.items) BY DEF KeysOf
<1> HIDE DEF key
<1>4. c5' \in [keys -> Choice] /\ DOMAIN c5' = keys BY <1>1, <1>2
<1>5. ChosenOf(c5', c4.items) BY <1>2, <1>3, <1>4 DEF ChosenOf
<1> QED BY <1>5 DEF ImportInv

LEMMA ResolutionKeeps == ASSUME ImportInv, Imports!Resolution PROVE ImportInv'
<1>1. UNCHANGED <<c1, c2, c3, c4, c6, c7, c8>> BY DEF Imports!Resolution
<1>2. PICK i \in DOMAIN c4.items :
         LET item == c4.items[i] IN
         \/ Imports!Include(item) \/ (\E p \in Installed : Imports!MapPlugin(item, p))
         \/ Imports!Bind(item, "inline") \/ (c1 # {} /\ Imports!Bind(item, "bound"))
  BY DEF Imports!Resolution
<1> DEFINE item == c4.items[i]
           old == Imports!ChoiceOf(item)
<1>3. old \in Choice BY ChoiceFacts DEF ImportInv
<1>4. \E choice \in Choice : Imports!Choose(Imports!Key(item), choice)
  <2> HIDE DEF old
  <2>1. /\ [old EXCEPT !.included = ~@] \in Choice
        /\ \A p \in Installed : [old EXCEPT !.plugin = p] \in Choice
        /\ [old EXCEPT !.profile = "inline"] \in Choice /\ [old EXCEPT !.profile = "bound"] \in Choice
    <3> DEFINE plugins == Installed \cup {Imports!NoPlugin}
    <3>1. old \in [included : BOOLEAN, plugin : plugins, profile : Ways] BY <1>3 DEF Choice
    <3>2. Installed \subseteq plugins OBVIOUS
    <3> HIDE DEF plugins
    <3>3. [old EXCEPT !.included = ~@] \in [included : BOOLEAN, plugin : plugins, profile : Ways]
      <4>0. \A b \in BOOLEAN : (~b) \in BOOLEAN BY SMT
      <4>1. (~old.included) \in BOOLEAN BY <3>1, <4>0
      <4> QED BY <3>1, <4>1
    <3>4. \A p \in plugins : [old EXCEPT !.plugin = p] \in [included : BOOLEAN, plugin : plugins, profile : Ways] BY <3>1
    <3>5. /\ [old EXCEPT !.profile = "inline"] \in [included : BOOLEAN, plugin : plugins, profile : Ways]
          /\ [old EXCEPT !.profile = "bound"] \in [included : BOOLEAN, plugin : plugins, profile : Ways]
      <4>1. "inline" \in Ways /\ "bound" \in Ways BY DEF Ways
      <4> QED BY <3>1, <4>1
    <3> HIDE DEF old
    <3> QED BY <3>2, <3>3, <3>4, <3>5 DEF Choice, plugins
  <2>2. CASE Imports!Include(item) BY <2>1, <2>2 DEF Imports!Include, old
  <2>3. CASE \E p \in Installed : Imports!MapPlugin(item, p) BY <2>1, <2>3 DEF Imports!MapPlugin, old
  <2>4. CASE Imports!Bind(item, "inline") \/ Imports!Bind(item, "bound") BY <2>1, <2>4 DEF Imports!Bind, old
  <2> QED BY <1>2, <2>2, <2>3, <2>4
<1> QED BY <1>1, <1>4, ChooseKeeps

\* What the panel sends is of a bundle that was loaded.
LEMMA SentBodyFacts == ASSUME ImportInv, c3 # NoBundle PROVE InFlight(Imports!BuildApplyBody(c3, c4.items))
<1> DEFINE items == c4.items
           sent == Imports!BuildApplyBody(c3, items)
           map == Imports!Mapped(items)
<1>1. c3 \in DOMAIN Bundles /\ Bundles[c3] \in Bundle BY ImportAssumption DEF ImportInv
<1>2. /\ sent.of = c3 /\ sent.bundle = Bundles[c3] /\ sent.map = map /\ sent.report = c4 /\ sent.choices = c5
      /\ sent.removedProfiles = Imports!Excluded(items, "profile") /\ sent.removedAutoruns = Imports!Excluded(items, "autorun")
  BY DEF Imports!BuildApplyBody
<1>3. \A i \in DOMAIN items : items[i].plugin \in Plugin BY ShownFacts DEF ImportInv
<1>4. ChosenOf(c5, items) BY DEF ImportInv
<1> HIDE DEF items
<1>5. map \subseteq [hash : STRING, plugin : Installed]
  <2> SUFFICES ASSUME NEW m \in map PROVE m \in [hash : STRING, plugin : Installed] OBVIOUS
  <2>1. PICK i \in DOMAIN items : /\ m = [hash |-> items[i].plugin.hash, plugin |-> Imports!ChoiceOf(items[i]).plugin]
                                  /\ Imports!ChoiceOf(items[i]).plugin # Imports!NoPlugin
    BY DEF Imports!Mapped
  <2>2. Imports!ChoiceOf(items[i]) \in Choice BY <1>4, ChoiceFacts
  <2>3. Imports!ChoiceOf(items[i]).plugin \in Installed BY <2>1, <2>2 DEF Choice
  <2>4. items[i].plugin.hash \in STRING BY <1>3 DEF Plugin
  <2> QED BY <2>1, <2>3, <2>4
<1> HIDE DEF sent, map
<1>6. WellFormed(sent) BY <1>1, <1>2, <1>5 DEF WellFormed
<1>7. ASSUME NEW key \in DOMAIN c5, ~c5[key].included PROVE key[2] \in Imports!Excluded(items, key[1])
  <2>1. PICK i \in DOMAIN items : key = Imports!Key(items[i]) BY <1>4 DEF ChosenOf, KeysOf
  <2>2. key[1] = items[i].kind /\ key[2] = items[i].name BY <2>1 DEF Imports!Key
  <2>3. ~Imports!ChoiceOf(items[i]).included BY <1>7, <2>1 DEF Imports!ChoiceOf
  <2> QED BY <2>2, <2>3 DEF Imports!Excluded
<1>8. Leaves(sent) BY <1>2, <1>7 DEF Leaves
<1> QED BY <1>1, <1>2, <1>6, <1>8 DEF InFlight, ImportInv, sent, items

LEMMA RunKeeps == ASSUME ImportInv, Imports!RunApply PROVE ImportInv'
<1>1. c3 # NoBundle /\ c8' = Imports!BuildApplyBody(c3, c4.items) /\ UNCHANGED <<c1, c2, c3, c4, c5, c6, c7>> BY DEF Imports!RunApply
<1>2. InFlight(c8') BY <1>1, SentBodyFacts
<1> QED BY <1>1, <1>2 DEF ImportInv

\* What an import that is answered leaves.
LEMMA AppliedFacts ==
  ASSUME NEW rows, Table(rows), NEW sent, WellFormed(sent)
  PROVE  LET so == Imports!Apply(rows, sent) IN
         /\ Table(so.rows) /\ Grown(rows, so.rows, sent) /\ so.made \in Seq(Made)
         /\ \A i \in DOMAIN so.made : so.made[i].name \notin sent.removedAutoruns
<1>1. PICK first, then : Course(first, then, rows, sent) BY ApplyUnfolds
<1> QED BY <1>1, CourseFacts

LEMMA AnswerKeeps ==
  ASSUME ImportInv, Imports!Applied \/ Imports!AppliedUnheard \/ Imports!ApplyRefused
  PROVE  ImportInv'
<1>1. c8 # Imports!NoBody /\ c8' = Imports!NoBody /\ UNCHANGED <<c6, c7>>
  BY DEF Imports!Applied, Imports!AppliedUnheard, Imports!ApplyRefused
<1>2. Table(c1') /\ c2' \in Seq(Made)
  <2> DEFINE so == Imports!Apply(c1, c8)
  <2>1. UNCHANGED <<c1, c2>> \/ (c1' = so.rows /\ c2' = c2 \o so.made)
    BY DEF Imports!Applied, Imports!AppliedUnheard, Imports!ApplyRefused, Imports!Answer
  <2>2. Table(c1) /\ WellFormed(c8) /\ c2 \in Seq(Made) BY <1>1 DEF ImportInv, InFlight
  <2>3. Table(so.rows) /\ so.made \in Seq(Made) BY <2>2, AppliedFacts
  <2> HIDE DEF so
  <2>4. c2 \o so.made \in Seq(Made) BY <2>2, <2>3
  <2> QED BY <2>1, <2>2, <2>3, <2>4
<1>3. c3' \in DOMAIN Bundles \cup {NoBundle} /\ Reported(c4') /\ ChosenOf(c5', c4'.items)
  <2>1. Imports!ClearStaged \/ UNCHANGED <<c3, c4, c5>> BY DEF Imports!Applied, Imports!AppliedUnheard, Imports!ApplyRefused
  <2> QED BY <2>1, CellsCleared DEF ImportInv
<1> QED BY <1>1, <1>2, <1>3 DEF ImportInv

LEMMA ImportKeeps == ASSUME ImportInv, Imports!ImportNext PROVE ImportInv'
<1>1. CASE \E b \in DOMAIN Bundles \cup {BadBundle} : Imports!LoadFile(b) \/ Imports!FetchUrl(b) \/ Imports!FetchLands(b)
  BY <1>1, LoadsKeep
<1>2. CASE \E b \in DOMAIN Bundles : Imports!CheckLands(b) BY <1>2, CheckLandsKeeps
<1>3. CASE Imports!RemoveFile BY <1>3, RemoveFileKeeps
<1>4. CASE Imports!Resolution BY <1>4, ResolutionKeeps
<1>5. CASE Imports!RunApply BY <1>5, RunKeeps
<1>6. CASE Imports!Applied \/ Imports!AppliedUnheard \/ Imports!ApplyRefused BY <1>6, AnswerKeeps
<1> QED BY <1>1, <1>2, <1>3, <1>4, <1>5, <1>6 DEF Imports!ImportNext
LEMMA ImportStays == ASSUME ImportInv, UNCHANGED cells PROVE ImportInv'
<1>1. UNCHANGED <<c1, c2, c3, c4, c5, c6, c7, c8>> BY DEF cells
<1> QED BY <1>1 DEF ImportInv

LEMMA ImportHolds == ConsoleSpec => [](page = "imports" => ImportInv)
<1>1. ConsoleInit => (page = "imports" => ImportInv) BY ImportBegins DEF ConsoleInit
<1>2. ASSUME page = "imports" => ImportInv, [ConsoleNext]_cells PROVE (page = "imports" => ImportInv)'
  <2>0. page' = page BY <1>2 DEF ConsoleNext, cells
  <2>1. CASE ConsoleNext BY <1>2, <2>0, <2>1, ImportKeeps DEF ConsoleNext
  <2>2. CASE UNCHANGED cells BY <1>2, <2>0, <2>2, ImportStays
  <2> QED BY <1>2, <2>1, <2>2
<1> QED BY <1>1, <1>2, PTL DEF ConsoleSpec

-----------------------------------------------------------------------------
\* ---- imports: what a step keeps ----
LEMMA ImportShows == ImportInv => Imports!ImportTypeOK
<1> SUFFICES ASSUME ImportInv PROVE Imports!ImportTypeOK OBVIOUS
<1>1. Table(c1) BY DEF ImportInv
<1>2. c4.of \in DOMAIN Bundles \cup {NoBundle} BY DEF ImportInv, Reported, Answers, Imports!NoReport
<1>3. \A row \in c1 : row.plugin \in Installed /\ row.id \in 1 .. Imports!Cardinality(c1)
  <2>1. Imports!Cardinality(c1) = Cardinality(c1) BY DEF Imports!Cardinality, Cardinality
  <2> QED BY <1>1, <2>1 DEF Table, OwnProfile
<1> QED BY <1>2, <1>3 DEF ImportInv, Imports!ImportTypeOK

LEMMA BackStep == ASSUME ImportInv, ImportInv' PROVE Imports!ExportImportsBackStep
<1>1. Table(c1) /\ Table(c1') BY DEF ImportInv
<1>2. Imports!ExportImportsBack(c1) BY <1>1, ExportedIsFound
<1>3. Imports!ExportImportsBack(c1') BY <1>1, ExportedIsFound
<1> QED BY <1>2, <1>3 DEF Imports!ExportImportsBackStep

\* Profiles change by an import that is answered.
LEMMA ProfileSteps ==
  ASSUME ImportInv, Imports!ImportNext, c1' # c1
  PROVE  /\ c8 # Imports!NoBody /\ InFlight(c8) /\ ~Imports!Apply(c1, c8).refused /\ c1' = Imports!Apply(c1, c8).rows
<1>1. Imports!Applied \/ Imports!AppliedUnheard
  BY DEF Imports!ImportNext, Imports!LoadFile, Imports!FetchUrl, Imports!FetchLands, Imports!CheckLands, Imports!RemoveFile,
         Imports!Resolution, Imports!RunApply, Imports!ApplyRefused
<1>2. c8 # Imports!NoBody /\ ~Imports!Apply(c1, c8).refused /\ c1' = Imports!Apply(c1, c8).rows
  BY <1>1 DEF Imports!Applied, Imports!AppliedUnheard, Imports!Answer
<1> QED BY <1>2 DEF ImportInv

LEMMA RepeatStep == ASSUME ImportInv PROVE Imports!RepeatMakesNoProfileStep
<1> SUFFICES ASSUME c8 # Imports!NoBody, ~Imports!Apply(c1, c8).refused, Repeatable(c1, c8)
             PROVE  Imports!Apply(Imports!Apply(c1, c8).rows, c8).rows = Imports!Apply(c1, c8).rows
  BY DEF Imports!RepeatMakesNoProfileStep, Imports!Answer, Repeatable
<1>1. Table(c1) /\ WellFormed(c8) BY DEF ImportInv, InFlight
<1> QED BY <1>1, RepeatFacts

LEMMA PreviewedStep == ASSUME ImportInv, Imports!ImportNext PROVE Imports!ImportedAsPreviewedStep
<1> DEFINE items == c8.report.items
           due == Imports!Announced(items, c8.removedProfiles)
           entries == c8.bundle.profiles
<1> SUFFICES ASSUME c1' # c1, c8.report.of = c8.of, c8.report.rows = c1,
                    \A i, j \in due : i # j => items[i].becomes # items[j].becomes,
                    \A row \in c1 : \A i \in due : row.name \notin items[i].becomes
             PROVE  NewNames(c1, c1') = UNION {items[i].becomes : i \in due}
  BY DEF Imports!ImportedAsPreviewedStep, NewNames
<1>1. InFlight(c8) /\ ~Imports!Apply(c1, c8).refused /\ c1' = Imports!Apply(c1, c8).rows BY ProfileSteps
<1>2. Table(c1) /\ WellFormed(c8) BY <1>1 DEF ImportInv, InFlight
<1>3. items = Imports!Validate(c1, c8.bundle)
  <2>1. c8.of \in DOMAIN Bundles /\ c8.bundle = Bundles[c8.of] /\ Reported(c8.report) BY <1>1 DEF InFlight
  <2>2. c8.report # Imports!NoReport BY <2>1, ImportAssumption DEF Imports!NoReport
  <2> QED BY <2>1, <2>2 DEF Reported, Answers
<1>4. due = Due(c1, c8, Len(entries)) /\ \A i \in 1 .. Len(entries) : items[i].becomes = Becomes(c1, entries[i])
  <2>1. Tells(Imports!Validate(c1, c8.bundle), c1, c8) BY <1>2, AnnouncedFacts
  <2>2. Tells(items, c1, c8) BY <1>3, <2>1
  <2> QED BY <2>2 DEF Tells
<1>5. \A i \in due : items[i].becomes = Becomes(c1, entries[i]) BY <1>4 DEF Due
<1> HIDE DEF due, items
<1>6. Clear(c1, c8) BY <1>4, <1>5 DEF Clear
<1>7. NewNames(c1, c1') = Told(c1, c8, Len(entries)) BY <1>1, <1>2, <1>6, PreviewFacts
<1>8. Told(c1, c8, Len(entries)) = UNION {items[i].becomes : i \in due} BY <1>4, <1>5 DEF Told
<1> QED BY <1>7, <1>8 DEF due, items

LEMMA FreeStep == ASSUME ImportInv, Imports!ImportNext PROVE Imports!NewNamesAreFreeStep
<1> SUFFICES ASSUME NEW row \in c1' \ c1 PROVE Imports!Named(c1', row.name) = {row} \/ Imports!EndsInLast(row.name)
  BY DEF Imports!NewNamesAreFreeStep
<1>1. InFlight(c8) /\ c1' = Imports!Apply(c1, c8).rows BY ProfileSteps
<1>2. Table(c1) /\ WellFormed(c8) BY <1>1 DEF ImportInv, InFlight
<1>3. Grown(c1, c1', c8) BY <1>1, <1>2, AppliedFacts
<1> QED BY <1>3 DEF Grown

LEMMA ExcludedStep == ASSUME ImportInv, Imports!ImportNext PROVE Imports!ExcludedStaysOutStep
<1> DEFINE so == Imports!Apply(c1, c8)
           entries == c8.bundle.profiles
<1> SUFFICES ASSUME c8 # Imports!NoBody, c8' = Imports!NoBody, NEW key \in DOMAIN c8.choices, ~c8.choices[key].included
             PROVE  /\ key[1] = "profile" =>
                          \A row \in c1' \ c1 : \E i \in DOMAIN entries : entries[i].name # key[2] /\ Imports!MadeOf(row, entries[i])
                    /\ key[1] = "autorun" => \A i \in DOMAIN c2' : i > Len(c2) => c2'[i].name # key[2]
  BY DEF Imports!ExcludedStaysOutStep
<1>1. Imports!Applied \/ Imports!AppliedUnheard \/ Imports!ApplyRefused
  BY DEF Imports!ImportNext, Imports!LoadFile, Imports!FetchUrl, Imports!FetchLands, Imports!CheckLands, Imports!RemoveFile,
         Imports!Resolution, Imports!RunApply
<1>2. UNCHANGED <<c1, c2>> \/ (c1' = so.rows /\ c2' = c2 \o so.made)
  BY <1>1 DEF Imports!Applied, Imports!AppliedUnheard, Imports!ApplyRefused, Imports!Answer
<1>3. InFlight(c8) /\ Table(c1) /\ c2 \in Seq(Made) BY DEF ImportInv
<1>4. Grown(c1, so.rows, c8) /\ so.made \in Seq(Made) /\ \A i \in DOMAIN so.made : so.made[i].name \notin c8.removedAutoruns
  BY <1>3, AppliedFacts DEF InFlight
<1>5. /\ key[1] = "profile" => key[2] \in c8.removedProfiles
      /\ key[1] = "autorun" => key[2] \in c8.removedAutoruns
  BY <1>3 DEF InFlight, Leaves
<1> HIDE DEF so
<1>6. \A row \in so.rows \ c1 : \E i \in DOMAIN entries : entries[i].name \notin c8.removedProfiles /\ Imports!MadeOf(row, entries[i])
  BY <1>4 DEF Grown
<1>7. ASSUME c2' = c2 \o so.made, NEW i \in DOMAIN c2', i > Len(c2) PROVE c2'[i].name \notin c8.removedAutoruns
  <2> DEFINE k == i - Len(c2)
  <2>1. k \in DOMAIN so.made /\ c2'[i] = so.made[k] BY <1>3, <1>4, <1>7
  <2> HIDE DEF k
  <2> QED BY <1>4, <2>1
<1>8. UNCHANGED c2 => \A i \in DOMAIN c2' : ~(i > Len(c2)) BY <1>3
<1> QED BY <1>2, <1>5, <1>6, <1>7, <1>8

-----------------------------------------------------------------------------
LEMMA StarterHolds == ConsoleSpec => [](page = "start" => StarterInv)
<1>1. ConsoleInit => (page = "start" => StarterInv) BY StarterBegins DEF ConsoleInit
<1>2. ASSUME page = "start" => StarterInv, [ConsoleNext]_cells PROVE (page = "start" => StarterInv)'
  <2>1. CASE ConsoleNext BY <1>2, <2>1, StarterKeeps DEF ConsoleNext
  <2>2. CASE UNCHANGED cells BY <1>2, <2>2 DEF cells, StarterInv, StarterTyped, StarterSound
  <2> QED BY <1>2, <2>1, <2>2
<1> QED BY <1>1, <1>2, PTL DEF ConsoleSpec

\* A dialog that says its session could not be started has started none, unless
\* the answer was lost, and profiles read while it is open change nothing in it
\* (NewSessionDialog, create_session).
THEOREM StarterHonest == ConsoleSpec => StarterIsHonest
<1>1. ASSUME page = "start" => StarterInv, (page = "start" => StarterInv)', [ConsoleNext]_cells
      PROVE [page = "start" => /\ Keeps(Starter!StartTypeOK /\ Starter!ErrorMeansNoSession)
                               /\ Starter!LateListsWipeNothingStep]_cells
  <2>1. CASE ConsoleNext
    <3>1. StarterInv' => (Starter!StartTypeOK /\ Starter!ErrorMeansNoSession)' BY StarterShows, PTL
    <3> QED BY <1>1, <2>1, <3>1, StarterKeeps, StarterShows DEF ConsoleNext, Keeps
  <2>2. CASE UNCHANGED cells BY <2>2
  <2> QED BY <1>1, <2>1, <2>2
<1> QED BY <1>1, StarterHolds, PTL DEF ConsoleSpec, StarterIsHonest

\* The config of a preset is one written for its resolver, its retry mode one its
\* engine declares or a row came with, and what the discovery panel offers answers
\* what it is asked now (PresetsDialog, DiscoveryDrawer).
THEOREM PresetsFit == ConsoleSpec => []PresetFits
<1>1. ConsoleInit => (page = "presets" => PresetInv) BY PresetBegins DEF ConsoleInit
<1>2. ASSUME page = "presets" => PresetInv, [ConsoleNext]_cells PROVE (page = "presets" => PresetInv)'
  <2>1. CASE ConsoleNext BY <1>2, <2>1, PresetKeeps DEF ConsoleNext
  <2>2. CASE UNCHANGED cells BY <1>2, <2>2 DEF cells, PresetInv
  <2> QED BY <1>2, <2>1, <2>2
<1>3. (page = "presets" => PresetInv) => PresetFits BY PresetShows DEF PresetFits
<1> QED BY <1>1, <1>2, <1>3, PTL DEF ConsoleSpec

\* Of the videos a card ever made, only the one on the page plays, only while
\* somebody watches it and of the address shown, and as soon as it can
\* (SessionPreview, SessionPreviewPlayer).
THEOREM PreviewFollows == ConsoleSpec => []PreviewFollowsWatcher
<1>1. ConsoleInit => (page = "preview" => PreviewInv) BY PreviewBegins DEF ConsoleInit
<1>2. ASSUME page = "preview" => PreviewInv, [ConsoleNext]_cells PROVE (page = "preview" => PreviewInv)'
  <2>1. CASE ConsoleNext BY <1>2, <2>1, PreviewKeeps DEF ConsoleNext
  <2>2. CASE UNCHANGED cells
    <3>1. UNCHANGED <<page, c1, c2, c3, c4>> BY <2>2 DEF cells
    <3> QED BY <1>2, <3>1 DEF PreviewInv, Sane, Preview!Shows, Preview!Source, Preview!Active
  <2> QED BY <1>2, <2>1, <2>2
<1>3. (page = "preview" => PreviewInv) => PreviewFollowsWatcher BY PreviewShows DEF PreviewFollowsWatcher
<1> QED BY <1>1, <1>2, <1>3, PTL DEF ConsoleSpec

LEMMA DetailHolds == ConsoleSpec => [](page = "session" => DetailInv)
<1>1. ConsoleInit => (page = "session" => DetailInv) BY DetailBegins DEF ConsoleInit
<1>2. ASSUME page = "session" => DetailInv, [ConsoleNext]_cells PROVE (page = "session" => DetailInv)'
  <2>1. CASE ConsoleNext BY <1>2, <2>1, DetailKeeps DEF ConsoleNext
  <2>2. CASE UNCHANGED cells BY <1>2, <2>2 DEF cells, DetailInv, EndsHalted, IsRun, Halted
  <2> QED BY <1>2, <2>1, <2>2
<1> QED BY <1>1, <1>2, PTL DEF ConsoleSpec

\* The timeline of a session shows each of its attempts once, also those of a
\* capture that is not filed yet, and what the page deletes, on whatever answer it
\* was read from, was told to stop or has ended (groupTimeline,
\* SessionStopDeleteButton, delete_session).
THEOREM DetailTells == ConsoleSpec => PageTellsTheRun
<1>1. ASSUME page = "session" => DetailInv, (page = "session" => DetailInv)', [ConsoleNext]_cells
      PROVE [page = "session" => /\ Keeps(Detail!PageTypeOK /\ Detail!TimelineLosesNothing)
                                 /\ Detail!DeleteSparesRunningStep]_cells
  <2>1. CASE ConsoleNext
    <3>1. DetailInv' => (Detail!PageTypeOK /\ Detail!TimelineLosesNothing)' BY DetailShows, PTL
    <3> QED BY <1>1, <2>1, <3>1, DeletesHalted, DetailShows DEF ConsoleNext, Keeps
  <2>2. CASE UNCHANGED cells BY <2>2
  <2> QED BY <1>1, <2>1, <2>2
<1> QED BY <1>1, DetailHolds, PTL DEF ConsoleSpec, PageTellsTheRun

LEMMA ListsHold == ConsoleSpec => [](page = "lists" => ListsInv)
<1>1. ConsoleInit => (page = "lists" => ListsInv) BY ListsBegins DEF ConsoleInit
<1>2. ASSUME page = "lists" => ListsInv, [ConsoleNext]_cells PROVE (page = "lists" => ListsInv)'
  <2>0. page' = page BY <1>2 DEF ConsoleNext, cells
  <2>1. CASE ConsoleNext BY <1>2, <2>0, <2>1, ListsKeeps DEF ConsoleNext
  <2>2. CASE UNCHANGED cells BY <1>2, <2>0, <2>2, ListsStays
  <2> QED BY <1>2, <2>1, <2>2
<1> QED BY <1>1, <1>2, PTL DEF ConsoleSpec

\* A row reported removed never shows again, however reads of the list overlap
\* its removal; rows a bulk removal could not remove stay ticked; a change of
\* profile that reports no failure changed every row asked for; an export that
\* is saved holds every row ticked for it (SessionsListView,
\* AutorunsListView and the other lists, removeFromInfiniteLists).
THEOREM ListsHonest == ConsoleSpec => BulkWorkIsHonest
<1>1. ASSUME page = "lists" => ListsInv, (page = "lists" => ListsInv)', [ConsoleNext]_cells
      PROVE [page = "lists" => /\ Keeps(Lists!ListsTypeOK /\ Lists!RemovedStaysGone)
                               /\ Lists!SurvivorsStayTickedStep
                               /\ Lists!SetMeansSetStep
                               /\ Lists!ExportIsWholeStep]_cells
  <2>1. CASE ConsoleNext
    <3>1. ListsInv' => (Lists!ListsTypeOK /\ Lists!RemovedStaysGone)' BY ListsShows, PTL
    <3>2. page' = page /\ (page = "lists" => Lists!ListsNext) BY <2>1 DEF ConsoleNext
    <3> QED BY <1>1, <3>1, <3>2, ListsShows, SurvivorsTicked, SetMeansSet, ExportWhole DEF Keeps
  <2>2. CASE UNCHANGED cells BY <2>2
  <2> QED BY <1>1, <2>1, <2>2
<1> QED BY <1>1, ListsHold, PTL DEF ConsoleSpec, BulkWorkIsHonest

LEMMA AutorunHolds == ConsoleSpec => [](page = "autorun" => AutorunInv)
<1>1. ConsoleInit => (page = "autorun" => AutorunInv) BY AutorunBegins DEF ConsoleInit
<1>2. ASSUME page = "autorun" => AutorunInv, [ConsoleNext]_cells PROVE (page = "autorun" => AutorunInv)'
  <2>0. page' = page BY <1>2 DEF ConsoleNext, cells
  <2>1. CASE ConsoleNext BY <1>2, <2>0, <2>1, AutorunKeeps DEF ConsoleNext
  <2>2. CASE UNCHANGED cells BY <1>2, <2>0, <2>2, AutorunStays
  <2> QED BY <1>2, <2>1, <2>2
<1> QED BY <1>1, <1>2, PTL DEF ConsoleSpec

\* What was typed into a form that stays open is changed by the person alone; a
\* save leaves what it does not send, also when that changed between its read of
\* the row and its write; a flag is cleared only by a save that saw it; and a
\* recording that was started is never scheduled again (AutorunFormDialog,
\* update_autorun, create_autorun, the scheduler).
THEOREM SavesTouchLittle == ConsoleSpec => SavesWhatWasTouched
<1>1. ASSUME page = "autorun" => AutorunInv, (page = "autorun" => AutorunInv)', [ConsoleNext]_cells
      PROVE [page = "autorun" => /\ Keeps(Autorun!AutorunTypeOK)
                                 /\ Autorun!TypedStaysStep
                                 /\ Autorun!NeverRearmedStep
                                 /\ Autorun!UnsentStaysStep
                                 /\ Autorun!FlagStandsStep]_cells
  <2>1. CASE ConsoleNext
    <3>1. AutorunInv' => (Autorun!AutorunTypeOK)' BY AutorunShows, PTL
    <3>2. page' = page /\ (page = "autorun" => Autorun!AutorunNext) BY <2>1 DEF ConsoleNext
    <3> QED BY <1>1, <3>1, <3>2, AutorunShows, AutorunKeeps DEF Keeps, AutorunSteps
  <2>2. CASE UNCHANGED cells BY <2>2
  <2> QED BY <1>1, <2>1, <2>2
<1> QED BY <1>1, AutorunHolds, PTL DEF ConsoleSpec, SavesWhatWasTouched

\* An import does what its panel announced, whatever was loaded, fetched and
\* validated meanwhile and whether or not its answer was heard: the names it
\* makes are those its report announced and are free, what was left out stays
\* out, sent again it makes no profile again, and what is exported here is found
\* here (import_export.py, bundle.ts, import-export-view.tsx).
THEOREM ImportsAsReported == ConsoleSpec => ImportAsReported
<1>1. ASSUME page = "imports" => ImportInv, (page = "imports" => ImportInv)', [ConsoleNext]_cells
      PROVE [page = "imports" => /\ Keeps(Imports!ImportTypeOK)
                                 /\ Imports!RepeatMakesNoProfileStep
                                 /\ Imports!ExportImportsBackStep
                                 /\ Imports!ImportedAsPreviewedStep
                                 /\ Imports!NewNamesAreFreeStep
                                 /\ Imports!ExcludedStaysOutStep]_cells
  <2>1. CASE ConsoleNext
    <3>1. ImportInv' => Imports!ImportTypeOK' BY ImportShows, PTL
    <3>2. page' = page /\ (page = "imports" => Imports!ImportNext) BY <2>1 DEF ConsoleNext
    <3>3. ImportInv /\ ImportInv' => Keeps(Imports!ImportTypeOK) BY <3>1, ImportShows DEF Keeps
    <3> QED BY <1>1, <3>2, <3>3, BackStep, RepeatStep, PreviewedStep, FreeStep, ExcludedStep
  <2>2. CASE UNCHANGED cells BY <2>2
  <2> QED BY <1>1, <2>1, <2>2
<1> QED BY <1>1, ImportHolds, PTL DEF ConsoleSpec, ImportAsReported
==============================================================================
