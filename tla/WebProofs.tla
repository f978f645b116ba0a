----------------------------- MODULE WebProofs -----------------------------
(***************************************************************************)
(* Every tab of the browser shows what was asked of it, for any number of  *)
(* tabs, architectures and texts, whatever the users, the cache, the       *)
(* network and the server's operator do.                                   *)
(***************************************************************************)
EXTENDS WebProperties, FiniteSetTheorems, TLAPS

-----------------------------------------------------------------------------
(* The inductive invariant                                                 *)

BoundsInv ==
  /\ setup \in Setups
  /\ opens \in Nat /\ edits \in Nat /\ copies \in 0..setup.maxCopies

\* No tab has booted with data the server has not offered yet.
ManifestInv == \A t \in Tabs : manifest[t] <= deployed

\* Only one analysis runs, behind a disabled button; once it has a pack this is the one the tab's
\* manifest names, and once it waits for the assembler it has a text.
RunInv(t, r) ==
  /\ r.phase \in {"match", "delete", "fetch"} => r.pack = None
  /\ r.phase \in {"put", "assemble"} => r.pack = Pack(r.arch, manifest[t])
  /\ r.phase = "assemble" => r.source \in Sources
RunsInv == \A t \in Tabs :
  /\ \A r \in runs[t] : RunInv(t, r)
  /\ \A r, q \in runs[t] : r = q
  /\ Busy(t) => disabled[t]

ShownInv == \A t \in Tabs :
  shown[t] \in Results => shown[t].pack = Pack(shown[t].arch, manifest[t])

ButtonInv == \A t \in PureTabs : copyButton[t].hidden

\* There is a number for every timer, since each was preceded by a click of its own.
TimersInv == \A t \in Tabs :
  /\ IsFiniteSet(timers[t].scheduled)
  /\ Cardinality(timers[t].scheduled) + copying[t] <= copies

LinksInv == \A l \in links :
  l.of \in Selections /\ l.query = BuildDeepLink(l.query, l.of)

WebInv ==
  /\ ValuesOK /\ BoundsInv /\ ManifestInv
  /\ RunsInv /\ ShownInv /\ RequestMatchesPack /\ StaleCacheHarmless
  /\ ButtonInv /\ CopyShownOnSuccess /\ TimersInv /\ CopiedIsTransient
  /\ LinksInv

-----------------------------------------------------------------------------
(* Deep links and selections                                               *)

LEMMA DefaultTyped == DefaultSelection \in Selections
<1>1. DefaultSelection.asm \in Sources /\ DefaultSelection.hex \in HexTexts
  <2>1. \E s \in Sources \ {NoText} : TRUE  BY TextsAssumption
  <2>2. \E h \in HexTexts \ {NoText} : TRUE  BY TextsAssumption
  <2> QED  BY <2>1, <2>2 DEF DefaultSelection
<1> QED  BY <1>1, TabsAssumption DEF DefaultSelection, Selections

\* A page opens with a selection of the right kind, whatever the link says.
LEMMA AppliedTyped ==
  ASSUME NEW q, QueryOK(q)
  PROVE  ApplyDeepLink(q) \in Selections
<1> DEFINE link == ReadDeepLinkParams(q)
<1>1. CASE ConflictingParams(q) \/ UndecodableAsm(q)
  BY <1>1, DefaultTyped DEF ApplyDeepLink
<1>2. CASE ~(ConflictingParams(q) \/ UndecodableAsm(q))
  <2>1. link.inputMode = "hex" => link.hex \in HexTexts
    BY TextsAssumption DEF ReadDeepLinkParams, QueryOK
  <2>2. link.inputMode = "asm" => link.asm \in Sources
    BY <1>2, TextsAssumption DEF ReadDeepLinkParams, QueryOK, UndecodableAsm, Encode
  <2>3. link.inputMode \in {"hex", "asm", None}
    BY DEF ReadDeepLinkParams
  <2> QED
    BY <1>2, <2>1, <2>2, <2>3, DefaultTyped, TabsAssumption DEF ApplyDeepLink, Selections
<1> QED  BY <1>1, <1>2

LEMMA BuiltOK ==
  ASSUME NEW s \in Selections, NEW base
  PROVE  QueryOK(BuildDeepLink(base, s))
BY DEF Selections, QueryOK, BuildDeepLink, Encode

\* A link opens with the selection it was made from.
LEMMA LinksExact ==
  ASSUME NEW s \in Selections, NEW base
  PROVE  LET q == BuildDeepLink(base, s)
             text == IF s.mode = "hex" THEN s.hex ELSE s.asm
             opened == ApplyDeepLink(q) IN
         /\ opened.arch = s.arch /\ opened.mode = s.mode
         /\ text = IF opened.mode = "hex" THEN opened.hex ELSE opened.asm
         /\ ShouldAutoAnalyze(q) <=> text # NoText
<1> DEFINE q == BuildDeepLink(base, s)
<1>1. q = [p \in {"uarch", s.mode} |->
             CASE p = "uarch" -> s.arch [] p = "hex" -> s.hex [] OTHER -> Encode(s.asm)]
  BY DEF BuildDeepLink
<1>2. s.arch \in Archs /\ s.asm \in Sources /\ s.hex \in HexTexts
  BY DEF Selections
<1> HIDE DEF q
<1>3. CASE s.mode = "hex"
  <2>1. DOMAIN q = {"uarch", "hex"} /\ q["uarch"] = s.arch /\ q["hex"] = s.hex
    BY <1>1, <1>3
  <2>2. ~ConflictingParams(q) /\ ~UndecodableAsm(q)
    BY <2>1 DEF ConflictingParams, UndecodableAsm
  <2>3. ReadDeepLinkParams(q) = [inputMode |-> "hex", hex |-> s.hex, asm |-> NoText, uarch |-> s.arch]
    BY <2>1 DEF ReadDeepLinkParams
  <2> QED
    BY <1>2, <1>3, <2>2, <2>3, NoneAssumption DEF q, ApplyDeepLink, ShouldAutoAnalyze
<1>4. CASE s.mode = "asm"
  <2>1. DOMAIN q = {"uarch", "asm"} /\ q["uarch"] = s.arch /\ q["asm"] = Encode(s.asm)
    BY <1>1, <1>4
  <2>2. ~ConflictingParams(q) /\ ~UndecodableAsm(q)
    BY <1>2, <2>1, TextsAssumption DEF ConflictingParams, UndecodableAsm, Encode, NotBase64
  <2>3. ReadDeepLinkParams(q) = [inputMode |-> "asm", hex |-> NoText, asm |-> s.asm, uarch |-> s.arch]
    BY <2>1 DEF ReadDeepLinkParams, Encode
  <2> QED
    BY <1>2, <1>4, <2>2, <2>3, NoneAssumption DEF q, ApplyDeepLink, ShouldAutoAnalyze
<1> QED  BY <1>3, <1>4 DEF Selections
-----------------------------------------------------------------------------
(* Every analysis ends in a result or an error, and goes on or ends        *)

LEMMA Apart ==
  ASSUME setup \in Setups
  PROVE  /\ Errors \cap Results = {} /\ None \notin Results /\ None \notin Errors
         /\ \A e \in Errors : e = [error |-> e.error]
<1>1. None \notin Results
  BY NoneAssumption DEF Results, Packs
<1>2. None \notin Errors
  BY NoneAssumption
<1>3. ASSUME NEW e \in Errors, e \in Results PROVE FALSE
  <2>1. DOMAIN e = {"error"}  BY <1>3 DEF Errors
  <2>2. DOMAIN e = {"arch", "hex", "pack"}  BY <1>3 DEF Results, ResultsOf
  <2> QED  BY <2>1, <2>2
<1>4. \A e \in Errors : e = [error |-> e.error]
  BY DEF Errors
<1> QED  BY <1>1, <1>2, <1>3, <1>4

LEMMA PackTyped ==
  ASSUME WebInv, NEW t \in Tabs, NEW a \in Archs
  PROVE  Pack(a, manifest[t]) \in Packs
<1>1. manifest[t] \in 0..setup.deployments + 1
  BY DEF WebInv, ValuesOK
<1> QED  BY <1>1 DEF Packs, PacksOf

\* what a step leaves alone that only concerns the analyses of a tab
RunStep ==
  /\ deployed' = deployed /\ cache' \in [Archs -> Packs \cup {None}]
  /\ UNCHANGED <<pageVars, links, counters>>

LEMMA KindsKept ==
  ASSUME setup' = setup
  PROVE  Packs' = Packs /\ Results' = Results /\ Runs' = Runs
BY DEF Packs, PacksOf, Results, ResultsOf, Runs

\* An analysis that goes on has the pack of the manifest, or none yet.
LEMMA GoOnKeeps ==
  ASSUME WebInv, NEW t \in Tabs, NEW r \in runs[t], NEW next \in Runs, RunInv(t, next),
         GoOn(t, r, next), RunStep
  PROVE  WebInv'
<1> USE DEF RunStep, pageVars, counters, copyVars
<1>0. /\ setup' = setup /\ runs' = [runs EXCEPT ![t] = (@ \ {r}) \cup {next}]
      /\ UNCHANGED <<deployed, manifest, selection, links, edits, opens, copies, disabled, shown, copyButton, copying, timers>>
  BY DEF GoOn
<1>1. Packs' = Packs /\ Results' = Results /\ Runs' = Runs
  BY <1>0, KindsKept
<1>2. runs'[t] = {next} /\ \A x \in Tabs \ {t} : runs'[x] = runs[x]
  BY <1>0 DEF WebInv, ValuesOK, RunsInv
<1>3. runs' \in [Tabs -> SUBSET Runs]
  BY <1>0 DEF WebInv, ValuesOK
<1>4. ValuesOK'
  BY <1>0, <1>1, <1>3 DEF WebInv, ValuesOK
<1>5. RunsInv'
  BY <1>0, <1>2 DEF WebInv, RunsInv, RunInv, Busy
<1>6. CopyShownOnSuccess'
  BY <1>0, <1>1, <1>2 DEF WebInv, CopyShownOnSuccess, Busy
<1>7. BoundsInv' /\ ManifestInv' /\ ButtonInv' /\ TimersInv' /\ CopiedIsTransient' /\ LinksInv'
  BY <1>0 DEF WebInv, BoundsInv, ManifestInv, ButtonInv, TimersInv, CopiedIsTransient, LinksInv, BuildDeepLink
<1>8. ShownInv' /\ RequestMatchesPack' /\ StaleCacheHarmless'
  BY <1>0, <1>1 DEF WebInv, ShownInv, RequestMatchesPack, StaleCacheHarmless
<1> QED  BY <1>4, <1>5, <1>6, <1>7, <1>8 DEF WebInv

\* what an analysis of tab t may end in
OutcomeOK(t, outcome, success) ==
  /\ outcome \in Results \cup Errors
  /\ outcome \in Results => outcome.pack = Pack(outcome.arch, manifest[t])
  /\ outcome # [error |-> "architecture"]
  /\ outcome = [error |-> "mismatch"] => setup.fetchesStale \/ manifest[t] # deployed
  /\ success => outcome \in Results

LEMMA FinishKeeps ==
  ASSUME WebInv, NEW t \in Tabs, NEW r \in runs[t], NEW outcome, NEW success \in BOOLEAN,
         OutcomeOK(t, outcome, success), Finish(t, r, outcome, success), RunStep
  PROVE  WebInv'
<1> USE DEF RunStep, pageVars, counters
<1>0. /\ setup' = setup /\ runs' = [runs EXCEPT ![t] = @ \ {r}] /\ disabled' = [disabled EXCEPT ![t] = FALSE]
      /\ shown' = [shown EXCEPT ![t] = outcome]
      /\ UNCHANGED <<deployed, manifest, selection, links, edits, opens, copies, copying>>
  BY DEF Finish, copyVars
<1>1. Packs' = Packs /\ Results' = Results /\ Runs' = Runs
  BY <1>0, KindsKept
<1>2. runs'[t] = {} /\ \A x \in Tabs \ {t} : runs'[x] = runs[x]
  BY <1>0 DEF WebInv, ValuesOK, RunsInv
<1>3. shown'[t] = outcome /\ \A x \in Tabs \ {t} : shown'[x] = shown[x]
  BY <1>0 DEF WebInv, ValuesOK
<1>4. \/ copyButton' = copyButton /\ timers' = timers /\ ~(success /\ t \notin PureTabs)
      \/ /\ success /\ t \notin PureTabs
         /\ copyButton' = [copyButton EXCEPT ![t] = ShowCopyButton(t)]
         /\ timers' = [timers EXCEPT ![t] = ClearTimer(t)]
  BY DEF Finish, copyVars, RevealsCopyButton
<1>5. ShowCopyButton(t) \in [hidden : BOOLEAN, disabled : BOOLEAN, label : {"Copy deep-link", "Copied!"}]
  BY DEF ShowCopyButton
<1>6. /\ timers[t] \in [scheduled : SUBSET (1..setup.maxCopies), current : 0..setup.maxCopies]
      /\ setup.maxCopies \in Nat
  BY SetupsAssumption DEF WebInv, ValuesOK, BoundsInv
<1>7. /\ ClearTimer(t) \in [scheduled : SUBSET (1..setup.maxCopies), current : 0..setup.maxCopies]
      /\ ClearTimer(t).current = 0 /\ ClearTimer(t).scheduled = timers[t].scheduled \ {timers[t].current}
  BY <1>6 DEF ClearTimer
<1>a. /\ \A x \in Tabs \ {t} : copyButton'[x] = copyButton[x] /\ timers'[x] = timers[x] /\ disabled'[x] = disabled[x]
      /\ disabled'[t] = FALSE
      /\ \/ copyButton'[t] = copyButton[t] /\ timers'[t] = timers[t]
         \/ success /\ t \notin PureTabs /\ copyButton'[t] = ShowCopyButton(t) /\ timers'[t] = ClearTimer(t)
  <2>1. /\ copyButton \in [Tabs -> [hidden : BOOLEAN, disabled : BOOLEAN, label : {"Copy deep-link", "Copied!"}]]
        /\ timers \in [Tabs -> [scheduled : SUBSET (1..setup.maxCopies), current : 0..setup.maxCopies]]
        /\ disabled \in [Tabs -> BOOLEAN]
    BY DEF WebInv, ValuesOK
  <2> QED  BY <1>0, <1>4, <2>1
<1>8. /\ runs' \in [Tabs -> SUBSET Runs] /\ disabled' \in [Tabs -> BOOLEAN]
      /\ shown' \in [Tabs -> Results \cup Errors \cup {None}]
  BY <1>0 DEF WebInv, ValuesOK, OutcomeOK
<1>9. copyButton' \in [Tabs -> [hidden : BOOLEAN, disabled : BOOLEAN, label : {"Copy deep-link", "Copied!"}]]
  BY <1>4, <1>5 DEF WebInv, ValuesOK
<1>10. /\ timers' \in [Tabs -> [scheduled : SUBSET (1..setup.maxCopies), current : 0..setup.maxCopies]]
       /\ \A x \in Tabs : timers'[x].current \in {0} \cup timers'[x].scheduled
  <2>1. timers' \in [Tabs -> [scheduled : SUBSET (1..setup.maxCopies), current : 0..setup.maxCopies]]
    BY <1>4, <1>7 DEF WebInv, ValuesOK
  <2>2. \A x \in Tabs : timers[x].current \in {0} \cup timers[x].scheduled
    BY DEF WebInv, ValuesOK
  <2> QED  BY <1>7, <1>a, <2>1, <2>2
<1>11. ValuesOK'
  BY <1>0, <1>1, <1>8, <1>9, <1>10 DEF WebInv, ValuesOK
<1>12. RunsInv'
  BY <1>0, <1>2, <1>a DEF WebInv, RunsInv, RunInv, Busy
<1>13. ShownInv' /\ RequestMatchesPack' /\ StaleCacheHarmless'
  BY <1>0, <1>1, <1>3 DEF WebInv, ShownInv, RequestMatchesPack, StaleCacheHarmless, OutcomeOK
<1>16. CopyShownOnSuccess' /\ ButtonInv'
  BY <1>1, <1>2, <1>3, <1>a, TabsAssumption
  DEF WebInv, CopyShownOnSuccess, ButtonInv, Busy, OutcomeOK
<1>17. CopiedIsTransient'
  <2>1. ShowCopyButton(t).label # "Copied!"
    BY DEF ShowCopyButton
  <2>2. (copyButton'[t] = copyButton[t] /\ timers'[t] = timers[t]) \/ copyButton'[t].label # "Copied!"
    BY <1>a, <2>1
  <2> QED  BY <1>0, <1>a, <2>2 DEF WebInv, CopiedIsTransient
<1>18. TimersInv'
  <2>1. timers'[t] = timers[t] \/ timers'[t].scheduled = timers[t].scheduled \ {timers[t].current}
    BY <1>7, <1>a
  <2>2. timers'[t].scheduled \subseteq timers[t].scheduled
    BY <2>1
  <2>3. IsFiniteSet(timers'[t].scheduled) /\ Cardinality(timers'[t].scheduled) <= Cardinality(timers[t].scheduled)
    BY <2>2, FS_Subset DEF WebInv, TimersInv
  <2>4. Cardinality(timers'[t].scheduled) \in Nat /\ Cardinality(timers[t].scheduled) \in Nat
    BY <2>3, FS_CardinalityType DEF WebInv, TimersInv
  <2>5. copying[t] \in Nat /\ copies \in Nat
    <3>1. copying \in [Tabs -> 0..setup.maxCopies] /\ copies \in 0..setup.maxCopies
      BY DEF WebInv, ValuesOK, BoundsInv
    <3> QED  BY <1>6, <3>1
  <2>6. Cardinality(timers'[t].scheduled) + copying[t] <= copies
    BY <2>3, <2>4, <2>5 DEF WebInv, TimersInv
  <2> QED  BY <1>0, <1>a, <2>3, <2>6 DEF WebInv, TimersInv
<1>19. BoundsInv' /\ ManifestInv' /\ LinksInv'
  BY <1>0 DEF WebInv, BoundsInv, ManifestInv, LinksInv, BuildDeepLink
<1> QED  BY <1>11, <1>12, <1>13, <1>16, <1>17, <1>18, <1>19 DEF WebInv
LEMMA FailKeeps ==
  ASSUME WebInv, NEW t \in Tabs, NEW r \in runs[t],
         NEW why \in {"network", "quota", "assembler", "worker", "timeout", "engine", "mismatch"},
         why = "mismatch" => setup.fetchesStale \/ manifest[t] # deployed,
         Fail(t, r, why), RunStep
  PROVE  WebInv'
<1> DEFINE e == [error |-> why]
<1>1. e \in Errors
  BY DEF Errors
<1>2. e \notin Results
  BY <1>1, Apart DEF WebInv, BoundsInv
<1>3. OutcomeOK(t, e, FALSE)
  BY <1>1, <1>2 DEF OutcomeOK
<1>4. Finish(t, r, e, FALSE)
  BY DEF Fail
<1> HIDE DEF e
<1> QED  BY <1>3, <1>4, FinishKeeps

\* The engine finds the pack it was called with to belong to the request.
LEMMA CallRunKeeps ==
  ASSUME WebInv, NEW t \in Tabs, NEW r \in runs[t], NEW hex \in HexTexts \cup {None},
         CallRun(t, r, Pack(r.arch, manifest[t]), hex), RunStep
  PROVE  WebInv'
<1> DEFINE pack == Pack(r.arch, manifest[t])
           result == [arch |-> r.arch, hex |-> hex, pack |-> pack]
<1>1. pack.arch = RequestedArch(t, r)
  BY DEF Pack, RequestedArch
<1>2. r.arch \in Archs
  <2>1. r \in Runs  BY DEF WebInv, ValuesOK
  <2> QED  BY <2>1 DEF Runs
<1>3. pack \in Packs
  BY <1>2, PackTyped
<1>4. Fail(t, r, "engine") \/ Finish(t, r, result, TRUE)
  BY <1>1 DEF CallRun, RequestedArch
<1>5. CASE Fail(t, r, "engine")
  BY <1>5, FailKeeps
<1>6. CASE Finish(t, r, result, TRUE)
  <2>1. result \in Results
    BY <1>2, <1>3 DEF Results, ResultsOf
  <2>2. result \notin Errors
    BY <2>1, Apart DEF WebInv, BoundsInv
  <2>3. OutcomeOK(t, result, TRUE)
    BY <2>1, <2>2 DEF OutcomeOK, Errors
  <2> HIDE DEF result
  <2> QED  BY <1>6, <2>3, FinishKeeps
<1> QED  BY <1>4, <1>5, <1>6

LEMMA WithPackKeeps ==
  ASSUME WebInv, NEW t \in Tabs, NEW r \in runs[t], WithPack(t, r, Pack(r.arch, manifest[t])), RunStep
  PROVE  WebInv'
<1> DEFINE pack == Pack(r.arch, manifest[t])
<1>1. r \in Runs /\ selection[t] \in Selections
  BY DEF WebInv, ValuesOK
<1>2. CASE t \in PureTabs
  <2>1. CallRun(t, r, pack, None)
    BY <1>2 DEF WithPack, PureWithPack
  <2> QED  BY <2>1, CallRunKeeps
<1>3. CASE t \notin PureTabs /\ selection[t].mode = "asm"
  <2> DEFINE next == [r EXCEPT !.phase = "assemble", !.pack = pack, !.source = selection[t].asm]
  <2>1. GoOn(t, r, next)
    BY <1>3 DEF WithPack, MainWithPack
  <2>2. pack \in Packs
    BY <1>1, PackTyped DEF Runs
  <2>3. next \in Runs /\ RunInv(t, next)
    BY <1>1, <2>2 DEF Runs, RunInv, Selections
  <2> HIDE DEF next
  <2> QED  BY <2>1, <2>3, GoOnKeeps
<1>4. CASE t \notin PureTabs /\ selection[t].mode # "asm"
  <2>1. CallRun(t, r, pack, selection[t].hex)
    BY <1>4 DEF WithPack, MainWithPack
  <2>2. selection[t].hex \in HexTexts
    BY <1>1 DEF Selections
  <2> QED  BY <2>1, <2>2, CallRunKeeps
<1> QED  BY <1>2, <1>3, <1>4

-----------------------------------------------------------------------------
(* The awaits of an analysis                                               *)

LEMMA MatchKeeps ==
  ASSUME WebInv, NEW t \in Tabs, CacheMatch(t)
  PROVE  WebInv'
<1>1. RunStep
  BY DEF CacheMatch, RunStep, cacheVars, WebInv, ValuesOK
<1>2. PICK r \in runs[t] :
        /\ r.phase = "match"
        /\ \/ GoOn(t, r, [r EXCEPT !.phase = "fetch"])
           \/ ValidUipack(t, r.arch, cache[r.arch]) /\ WithPack(t, r, cache[r.arch])
           \/ RejectCached(t, r)
  BY DEF CacheMatch
<1>3. r \in Runs /\ r.pack = None
  BY <1>2 DEF WebInv, ValuesOK, RunsInv, RunInv
<1>4. CASE GoOn(t, r, [r EXCEPT !.phase = "fetch"])
  <2>1. [r EXCEPT !.phase = "fetch"] \in Runs /\ RunInv(t, [r EXCEPT !.phase = "fetch"])
    BY <1>3 DEF Runs, RunInv
  <2> QED  BY <1>1, <1>4, <2>1, GoOnKeeps
<1>5. CASE ValidUipack(t, r.arch, cache[r.arch]) /\ WithPack(t, r, cache[r.arch])
  BY <1>1, <1>5, WithPackKeeps DEF ValidUipack
<1>6. CASE RejectCached(t, r)
  <2>1. [r EXCEPT !.phase = "delete"] \in Runs /\ RunInv(t, [r EXCEPT !.phase = "delete"])
    BY <1>3 DEF Runs, RunInv
  <2> QED  BY <1>1, <1>6, <2>1, GoOnKeeps DEF RejectCached
<1> QED  BY <1>2, <1>4, <1>5, <1>6

LEMMA DeleteKeeps ==
  ASSUME WebInv, NEW t \in Tabs, CacheDelete(t)
  PROVE  WebInv'
<1>1. PICK r \in runs[t] :
        /\ r.phase = "delete" /\ cache' = [cache EXCEPT ![r.arch] = None]
        /\ GoOn(t, r, [r EXCEPT !.phase = "fetch"])
  BY DEF CacheDelete
<1>2. cache' \in [Archs -> Packs \cup {None}]
  BY <1>1 DEF WebInv, ValuesOK
<1>3. RunStep
  BY <1>2 DEF CacheDelete, RunStep, pageVars, counters
<1>4. [r EXCEPT !.phase = "fetch"] \in Runs /\ RunInv(t, [r EXCEPT !.phase = "fetch"])
  <2>1. r \in Runs /\ r.pack = None
    BY <1>1 DEF WebInv, ValuesOK, RunsInv, RunInv
  <2> QED  BY <2>1 DEF Runs, RunInv
<1> QED  BY <1>1, <1>3, <1>4, GoOnKeeps

\* Only old data or an old tab makes what is fetched wrong.
LEMMA FetchKeeps ==
  ASSUME WebInv, NEW t \in Tabs, FetchUipack(t)
  PROVE  WebInv'
<1>1. RunStep
  BY DEF FetchUipack, RunStep, cacheVars, WebInv, ValuesOK
<1> DEFINE Fetched(r, pack) ==
             \/ Fail(t, r, "network")
             \/ ~AcceptFetched(t, r, pack) /\ pack # None /\ Fail(t, r, "mismatch")
             \/ AcceptFetched(t, r, pack) /\ GoOn(t, r, [r EXCEPT !.phase = "put", !.pack = pack])
             \/ AcceptFetched(t, r, pack) /\ WithPack(t, r, pack)
<1>2. PICK r \in runs[t] : \E pack \in Answers(r.arch) : r.phase = "fetch" /\ Fetched(r, pack)
  BY DEF FetchUipack
<1>8. PICK pack \in Answers(r.arch) : Fetched(r, pack)
  BY <1>2
<1>3. r \in Runs
  BY DEF WebInv, ValuesOK
<1>4. CASE Fail(t, r, "network")
  BY <1>1, <1>4, FailKeeps
<1>5. CASE ~AcceptFetched(t, r, pack) /\ pack # None /\ Fail(t, r, "mismatch")
  <2>1. setup.fetchesStale \/ manifest[t] # deployed
    BY <1>8, <1>5 DEF AcceptFetched, ValidUipack, Answers
  <2> QED  BY <1>1, <1>5, <2>1, FailKeeps
<1>6. CASE AcceptFetched(t, r, pack) /\ GoOn(t, r, [r EXCEPT !.phase = "put", !.pack = pack])
  <2>1. pack = Pack(r.arch, manifest[t]) /\ pack \in Packs
    BY <1>3, <1>6, PackTyped DEF AcceptFetched, ValidUipack, Runs
  <2>2. [r EXCEPT !.phase = "put", !.pack = pack] \in Runs /\ RunInv(t, [r EXCEPT !.phase = "put", !.pack = pack])
    BY <1>3, <2>1 DEF Runs, RunInv
  <2> QED  BY <1>1, <1>6, <2>2, GoOnKeeps
<1>7. CASE AcceptFetched(t, r, pack) /\ WithPack(t, r, pack)
  BY <1>1, <1>7, WithPackKeeps DEF AcceptFetched, ValidUipack
<1> QED  BY <1>8, <1>4, <1>5, <1>6, <1>7

LEMMA PutKeeps ==
  ASSUME WebInv, NEW t \in Tabs, CachePut(t)
  PROVE  WebInv'
<1>1. PICK r \in runs[t] :
        /\ r.phase = "put"
        /\ \/ cache' = [cache EXCEPT ![r.arch] = r.pack] /\ WithPack(t, r, r.pack)
           \/ cache' = cache /\ Fail(t, r, "quota")
  BY DEF CachePut
<1>2. r \in Runs /\ r.pack = Pack(r.arch, manifest[t])
  BY <1>1 DEF WebInv, ValuesOK, RunsInv, RunInv
<1>3. cache' \in [Archs -> Packs \cup {None}]
  BY <1>1, <1>2 DEF WebInv, ValuesOK, Runs
<1>4. RunStep
  BY <1>3 DEF CachePut, RunStep, pageVars, counters
<1> QED  BY <1>1, <1>2, <1>4, WithPackKeeps, FailKeeps

LEMMA AnswerKeeps ==
  ASSUME WebInv, NEW t \in Tabs, AssemblerAnswers(t) \/ AssemblerTimesOut(t)
  PROVE  WebInv'
<1>1. RunStep
  BY DEF AssemblerAnswers, AssemblerTimesOut, RunStep, cacheVars, WebInv, ValuesOK
<1>2. PICK r \in runs[t] :
        /\ r.phase = "assemble"
        /\ \/ Assembled[r.source] # Rejected /\ CallRun(t, r, r.pack, Assembled[r.source])
           \/ Fail(t, r, "assembler") \/ Fail(t, r, "worker") \/ Fail(t, r, "timeout")
  BY DEF AssemblerAnswers, AssemblerTimesOut, TimeoutSet
<1>3. r.pack = Pack(r.arch, manifest[t]) /\ r.source \in Sources
  BY <1>2 DEF WebInv, RunsInv, RunInv
<1>4. Assembled[r.source] # Rejected => Assembled[r.source] \in HexTexts
  BY <1>3, TextsAssumption
<1> QED  BY <1>1, <1>2, <1>3, <1>4, CallRunKeeps, FailKeeps
-----------------------------------------------------------------------------
(* The user                                                                *)

Buttons == [hidden : BOOLEAN, disabled : BOOLEAN, label : {"Copy deep-link", "Copied!"}]
Timers == [scheduled : SUBSET (1..setup.maxCopies), current : 0..setup.maxCopies]

LEMMA Typed ==
  ASSUME WebInv
  PROVE  /\ setup.maxCopies \in Nat /\ setup.deployments \in Nat
         /\ copying \in [Tabs -> 0..setup.maxCopies] /\ copies \in 0..setup.maxCopies
         /\ copyButton \in [Tabs -> Buttons] /\ timers \in [Tabs -> Timers]
         /\ runs \in [Tabs -> SUBSET Runs] /\ disabled \in [Tabs -> BOOLEAN]
         /\ shown \in [Tabs -> Results \cup Errors \cup {None}]
         /\ manifest \in [Tabs -> 0..setup.deployments + 1] /\ selection \in [Tabs -> Selections]
         /\ deployed \in 1..setup.deployments + 1
         /\ \A t \in Tabs : timers[t].current \in {0} \cup timers[t].scheduled
BY SetupsAssumption DEF WebInv, ValuesOK, BoundsInv, Buttons, Timers

\* Clicks pay for the answers awaited, and timers that go do not come back.
LEMMA FewerTimers ==
  ASSUME WebInv, copies' \in Nat, setup' = setup, copying' \in [Tabs -> Nat],
         \A x \in Tabs : /\ timers'[x].scheduled \subseteq timers[x].scheduled
                         /\ copying'[x] + copies <= copying[x] + copies'
  PROVE  TimersInv'
<1> SUFFICES ASSUME NEW x \in Tabs
             PROVE  /\ IsFiniteSet(timers'[x].scheduled)
                    /\ Cardinality(timers'[x].scheduled) + copying'[x] <= copies'
  BY DEF TimersInv
<1> DEFINE old == timers[x].scheduled
           new == timers'[x].scheduled
<1>1. IsFiniteSet(old) /\ Cardinality(old) + copying[x] <= copies
  BY DEF WebInv, TimersInv
<1>2. IsFiniteSet(new) /\ Cardinality(new) <= Cardinality(old)
  BY <1>1, FS_Subset
<1>3. Cardinality(new) \in Nat /\ Cardinality(old) \in Nat
  BY <1>1, <1>2, FS_CardinalityType
<1>4. copies \in Nat /\ copying[x] \in Nat /\ copying'[x] \in Nat
  BY Typed
<1>5. copying'[x] + copies <= copying[x] + copies'
  OBVIOUS
<1> HIDE DEF old, new
<1>6. Cardinality(new) + copying'[x] <= copies'
  BY <1>1, <1>2, <1>3, <1>4, <1>5
<1> QED  BY <1>2, <1>6 DEF old, new

\* A click takes the old result and the copy button away before the first await.
LEMMA ClickKeeps ==
  ASSUME WebInv, NEW t \in Tabs, ClickAnalyze(t)
  PROVE  WebInv'
<1> USE DEF cacheVars, pageVars, counters
<1> DEFINE r == FirstRun(selection[t].arch)
<1>0. /\ UNCHANGED <<setup, deployed, cache, manifest, selection, copying, links, edits, opens, copies>>
      /\ runs' = [runs EXCEPT ![t] = @ \cup {r}] /\ disabled' = [disabled EXCEPT ![t] = TRUE]
      /\ ~disabled[t]
  BY DEF ClickAnalyze, StartAnalyze, CanClick
<1>1. Packs' = Packs /\ Results' = Results /\ Runs' = Runs
  BY <1>0, KindsKept
<1>2. r \in Runs /\ RunInv(t, r)
  <2>1. selection[t].arch \in Archs  BY Typed DEF Selections
  <2> QED  BY <2>1 DEF FirstRun, Runs, RunInv
<1> HIDE DEF r
<1>3. runs[t] = {}
  BY <1>0 DEF WebInv, RunsInv, Busy
<1>4. /\ runs'[t] = {r} /\ disabled'[t]
      /\ \A x \in Tabs \ {t} : runs'[x] = runs[x] /\ disabled'[x] = disabled[x]
  BY <1>0, <1>3, Typed
<1>5. /\ \A x \in Tabs \ {t} : shown'[x] = shown[x] /\ copyButton'[x] = copyButton[x] /\ timers'[x] = timers[x]
      /\ \/ t \in PureTabs /\ shown'[t] = shown[t] /\ copyButton'[t] = copyButton[t] /\ timers'[t] = timers[t]
         \/ t \notin PureTabs /\ shown'[t] = None /\ copyButton'[t] = ResetCopyButton /\ timers'[t] = ClearTimer(t)
      /\ DOMAIN shown' = Tabs /\ DOMAIN copyButton' = Tabs /\ DOMAIN timers' = Tabs
  BY Typed DEF ClickAnalyze, StartAnalyze
<1>6. /\ shown' \in [Tabs -> Results \cup Errors \cup {None}]
  BY Typed DEF ClickAnalyze, StartAnalyze
<1>7. /\ ResetCopyButton \in Buttons /\ ResetCopyButton.hidden
  BY DEF ResetCopyButton, Buttons
<1>8. ClearTimer(t) \in Timers /\ ClearTimer(t).current = 0 /\ ClearTimer(t).scheduled \subseteq timers[t].scheduled
  BY Typed DEF ClearTimer, Timers
<1>9. copyButton' \in [Tabs -> Buttons]
  BY <1>7, Typed DEF ClickAnalyze
<1>10. timers' \in [Tabs -> Timers]
  BY <1>8, Typed DEF ClickAnalyze
<1>11. \A x \in Tabs : timers'[x].current \in {0} \cup timers'[x].scheduled
  BY <1>5, <1>8, Typed
<1>12. ValuesOK'
  <2>1. runs' \in [Tabs -> SUBSET Runs] /\ disabled' \in [Tabs -> BOOLEAN]
    BY <1>0, <1>2, Typed
  <2> QED
    BY <1>0, <1>1, <1>6, <1>9, <1>10, <1>11, <2>1 DEF WebInv, ValuesOK, Buttons, Timers
<1>13. RunsInv'
  BY <1>0, <1>2, <1>4 DEF WebInv, RunsInv, RunInv, Busy
<1>14. ShownInv' /\ RequestMatchesPack' /\ StaleCacheHarmless'
  BY <1>0, <1>1, <1>5, Apart, NoneAssumption, SetupsAssumption
  DEF WebInv, BoundsInv, ShownInv, RequestMatchesPack, StaleCacheHarmless, Errors
<1>15. ButtonInv' /\ CopyShownOnSuccess'
  BY <1>0, <1>1, <1>4, <1>5, <1>7, TabsAssumption DEF WebInv, ButtonInv, CopyShownOnSuccess, Busy
<1>16. TimersInv'
  <2>1. \A x \in Tabs : timers'[x].scheduled \subseteq timers[x].scheduled
    BY <1>5, <1>8
  <2> QED  BY <1>0, <2>1, FewerTimers, Typed
<1>17. CopiedIsTransient'
  BY <1>0, <1>5, <1>7 DEF WebInv, CopiedIsTransient
<1>18. BoundsInv' /\ ManifestInv' /\ LinksInv'
  BY <1>0 DEF WebInv, BoundsInv, ManifestInv, LinksInv, BuildDeepLink
<1> QED
  BY <1>12, <1>13, <1>14, <1>15, <1>16, <1>17, <1>18 DEF WebInv
LEMMA EditKeeps ==
  ASSUME WebInv, NEW t \in Tabs, Edit(t)
  PROVE  WebInv'
<1> USE DEF cacheVars, runVars, copyVars
<1>0. UNCHANGED <<setup, deployed, cache, manifest, runs, disabled, shown, copyButton, copying, timers, links, opens, copies>>
      /\ edits' = edits + 1
  BY DEF Edit
<1>1. Packs' = Packs /\ Results' = Results /\ Runs' = Runs
  BY <1>0, KindsKept
<1>2. selection' \in [Tabs -> Selections]
  <2>1. selection \in [Tabs -> Selections] /\ selection[t] \in Selections
    BY Typed
  <2>2. \/ \E a \in Archs : selection' = [selection EXCEPT ![t].arch = a]
        \/ \E s \in Sources : selection' = [selection EXCEPT ![t].asm = s]
        \/ \E h \in HexTexts : selection' = [selection EXCEPT ![t].hex = h]
        \/ \E m \in {"asm", "hex"} : selection' = [selection EXCEPT ![t].mode = m]
    BY DEF Edit
  <2>3. CASE \E a \in Archs : selection' = [selection EXCEPT ![t].arch = a]
    BY <2>1, <2>3 DEF Selections
  <2>4. CASE \E s \in Sources : selection' = [selection EXCEPT ![t].asm = s]
    BY <2>1, <2>4 DEF Selections
  <2>5. CASE \E h \in HexTexts : selection' = [selection EXCEPT ![t].hex = h]
    BY <2>1, <2>5 DEF Selections
  <2>6. CASE \E m \in {"asm", "hex"} : selection' = [selection EXCEPT ![t].mode = m]
    BY <2>1, <2>6 DEF Selections
  <2> QED  BY <2>2, <2>3, <2>4, <2>5, <2>6
<1>3. ValuesOK'
  BY <1>0, <1>1, <1>2 DEF WebInv, ValuesOK
<1>4. RunsInv' /\ ButtonInv' /\ TimersInv' /\ CopiedIsTransient'
  BY <1>0 DEF WebInv, RunsInv, RunInv, Busy, ButtonInv, TimersInv, CopiedIsTransient
<1>5. ShownInv' /\ RequestMatchesPack' /\ StaleCacheHarmless' /\ CopyShownOnSuccess'
  BY <1>0, <1>1 DEF WebInv, ShownInv, RequestMatchesPack, StaleCacheHarmless, CopyShownOnSuccess, Busy
<1>6. BoundsInv' /\ ManifestInv' /\ LinksInv'
  BY <1>0 DEF WebInv, BoundsInv, ManifestInv, LinksInv, BuildDeepLink
<1> QED  BY <1>3, <1>4, <1>5, <1>6 DEF WebInv

\* A page that opens, or fails to, has an analysis of its own or none, shows no result and has no timers.
LEMMA NewPageKeeps ==
  ASSUME WebInv, NEW t \in Tabs,
         NEW m \in 0..deployed, manifest' = [manifest EXCEPT ![t] = m],
         selection' \in [Tabs -> Selections],
         NEW started \in SUBSET Runs, runs' = [runs EXCEPT ![t] = started],
         \A r, q \in started : r = q, \A r \in started : r.phase \in {"match", "fetch"} /\ r.pack = None,
         NEW busy \in BOOLEAN, disabled' = [disabled EXCEPT ![t] = busy], started # {} => busy,
         NEW panel \in {None, [error |-> "boot"]}, shown' = [shown EXCEPT ![t] = panel],
         copyButton' = [copyButton EXCEPT ![t] = ResetCopyButton],
         copying' = [copying EXCEPT ![t] = 0], timers' = [timers EXCEPT ![t] = NoTimers],
         opens' = opens + 1, UNCHANGED <<deployed, cache, links, setup, edits, copies>>
  PROVE  WebInv'
<1>1. Packs' = Packs /\ Results' = Results /\ Runs' = Runs
  BY KindsKept
<1>2. /\ panel \in Errors \cup {None} /\ panel \notin Results
      /\ panel # [error |-> "architecture"] /\ panel # [error |-> "mismatch"]
  <2>1. [error |-> "boot"] \in Errors  BY DEF Errors
  <2> QED  BY <2>1, Apart, NoneAssumption DEF WebInv, BoundsInv, Errors
<1>3. ResetCopyButton \in Buttons /\ ResetCopyButton.hidden /\ NoTimers \in Timers
      /\ NoTimers.scheduled = {} /\ NoTimers.current = 0
  <2>1. setup.maxCopies \in Nat  BY Typed
  <2>2. 0 \in 0..setup.maxCopies /\ {} \in SUBSET (1..setup.maxCopies)  BY <2>1
  <2> QED  BY <2>2 DEF ResetCopyButton, Buttons, NoTimers, Timers
<1> HIDE DEF ResetCopyButton, NoTimers
<1>4. /\ manifest'[t] = m /\ runs'[t] = started /\ disabled'[t] = busy /\ shown'[t] = panel
      /\ copyButton'[t] = ResetCopyButton /\ copying'[t] = 0 /\ timers'[t] = NoTimers
  BY Typed
<1>5. \A x \in Tabs \ {t} :
        /\ manifest'[x] = manifest[x] /\ runs'[x] = runs[x] /\ disabled'[x] = disabled[x] /\ shown'[x] = shown[x]
        /\ copyButton'[x] = copyButton[x] /\ copying'[x] = copying[x] /\ timers'[x] = timers[x]
  BY Typed
<1>6. ValuesOK'
  <2>1. manifest' \in [Tabs -> 0..setup.deployments + 1]
    BY Typed
  <2>2. runs' \in [Tabs -> SUBSET Runs] /\ disabled' \in [Tabs -> BOOLEAN]
    BY Typed
  <2>3. shown' \in [Tabs -> Results \cup Errors \cup {None}]
    BY <1>2, Typed
  <2>4. copyButton' \in [Tabs -> Buttons] /\ copying' \in [Tabs -> 0..setup.maxCopies] /\ timers' \in [Tabs -> Timers]
    BY <1>3, Typed
  <2>5. \A x \in Tabs : timers'[x].current \in {0} \cup timers'[x].scheduled
    BY <1>3, <1>4, <1>5, Typed
  <2> QED
    BY <1>1, <2>1, <2>2, <2>3, <2>4, <2>5 DEF WebInv, ValuesOK, Buttons, Timers
<1>7. RunsInv'
  <2>1. \A x \in Tabs \ {t} : \A r \in runs'[x] : RunInv(x, r)'
    BY <1>5 DEF WebInv, RunsInv, RunInv
  <2>2. \A r \in runs'[t] : RunInv(t, r)'
    BY <1>4 DEF RunInv
  <2> QED  BY <1>4, <1>5, <2>1, <2>2 DEF WebInv, RunsInv, Busy
<1>8. ShownInv' /\ RequestMatchesPack' /\ StaleCacheHarmless'
  BY <1>1, <1>2, <1>4, <1>5 DEF WebInv, ShownInv, RequestMatchesPack, StaleCacheHarmless
<1>9. ButtonInv' /\ CopyShownOnSuccess'
  BY <1>1, <1>3, <1>4, <1>5, TabsAssumption DEF WebInv, ButtonInv, CopyShownOnSuccess, Busy
<1>10. TimersInv'
  <2>1. \A x \in Tabs : timers'[x].scheduled \subseteq timers[x].scheduled
    BY <1>3, <1>4, <1>5
  <2>2. copying' \in [Tabs -> Nat]
    BY Typed
  <2>3. \A x \in Tabs : copying'[x] <= copying[x]
    BY <1>4, <1>5, Typed
  <2> QED  BY <2>1, <2>2, <2>3, FewerTimers, Typed
<1>11. CopiedIsTransient'
  BY <1>3, <1>4, <1>5 DEF WebInv, CopiedIsTransient
<1>12. ManifestInv'
  BY <1>4, <1>5, Typed DEF WebInv, ManifestInv
<1>13. BoundsInv' /\ LinksInv'
  BY DEF WebInv, BoundsInv, LinksInv, BuildDeepLink
<1> QED
  BY <1>6, <1>7, <1>8, <1>9, <1>10, <1>11, <1>12, <1>13 DEF WebInv

LEMMA OpenKeeps ==
  ASSUME WebInv, NEW t \in Tabs, Open(t)
  PROVE  WebInv'
<1> USE DEF cacheVars
<1>1. PICK q \in {l.query : l \in links} \cup setup.queries :
        LET auto == t \notin PureTabs /\ ShouldAutoAnalyze(q)
            s == IF t \in PureTabs THEN DefaultSelection ELSE ApplyDeepLink(q) IN
        /\ manifest' = [manifest EXCEPT ![t] = deployed]
        /\ selection' = [selection EXCEPT ![t] = s]
        /\ runs' = [runs EXCEPT ![t] = IF auto THEN {FirstRun(s.arch)} ELSE {}]
        /\ disabled' = [disabled EXCEPT ![t] = auto]
  BY DEF Open
<1> DEFINE auto == t \notin PureTabs /\ ShouldAutoAnalyze(q)
           s == IF t \in PureTabs THEN DefaultSelection ELSE ApplyDeepLink(q)
           started == IF auto THEN {FirstRun(s.arch)} ELSE {}
<1>2. QueryOK(q)
  BY <1>1, BuiltOK, QueriesAssumption DEF WebInv, BoundsInv, LinksInv
<1>3. s \in Selections
  BY <1>2, AppliedTyped, DefaultTyped
<1>4. s.arch \in Archs
  BY <1>3 DEF Selections
<1>5. auto \in BOOLEAN
  BY DEF ShouldAutoAnalyze
<1>6. manifest' = [manifest EXCEPT ![t] = deployed] /\ selection' = [selection EXCEPT ![t] = s]
      /\ runs' = [runs EXCEPT ![t] = started] /\ disabled' = [disabled EXCEPT ![t] = auto]
  BY <1>1
<1>7. started \in SUBSET Runs /\ (started # {} => auto)
      /\ (\A r, p \in started : r = p) /\ \A r \in started : r.phase \in {"match", "fetch"} /\ r.pack = None
  BY <1>4 DEF FirstRun, Runs
<1>8. /\ shown' = [shown EXCEPT ![t] = None] /\ copyButton' = [copyButton EXCEPT ![t] = ResetCopyButton]
      /\ copying' = [copying EXCEPT ![t] = 0] /\ timers' = [timers EXCEPT ![t] = NoTimers]
      /\ opens' = opens + 1 /\ UNCHANGED <<deployed, cache, links, setup, edits, copies>>
  BY DEF Open
<1> HIDE DEF auto, s, started
<1>9. selection' \in [Tabs -> Selections] /\ deployed \in 0..deployed
  BY <1>3, <1>6, Typed
<1> QED  BY <1>5, <1>6, <1>7, <1>8, <1>9, NewPageKeeps

LEMMA BootFailsKeeps ==
  ASSUME WebInv, NEW t \in Tabs, BootFails(t)
  PROVE  WebInv'
<1> DEFINE none == {}
<1>1. none \in SUBSET Runs /\ none = {} /\ 0 \in 0..deployed /\ selection' \in [Tabs -> Selections]
  BY Typed DEF BootFails
<1>2. /\ manifest' = [manifest EXCEPT ![t] = 0] /\ runs' = [runs EXCEPT ![t] = none]
      /\ disabled' = [disabled EXCEPT ![t] = TRUE] /\ shown' = [shown EXCEPT ![t] = [error |-> "boot"]]
      /\ copyButton' = [copyButton EXCEPT ![t] = ResetCopyButton]
      /\ copying' = [copying EXCEPT ![t] = 0] /\ timers' = [timers EXCEPT ![t] = NoTimers]
      /\ opens' = opens + 1 /\ UNCHANGED <<deployed, cache, links, setup, edits, copies>>
  BY DEF BootFails, cacheVars
<1> HIDE DEF none
<1> QED  BY <1>1, <1>2, NewPageKeeps

\* New data on the server makes tabs old.
LEMMA DeployKeeps ==
  ASSUME WebInv, Deploy
  PROVE  WebInv'
<1> USE DEF pageVars, runVars, copyVars, counters
<1>0. /\ UNCHANGED <<setup, cache, manifest, selection, runs, disabled, shown, copyButton, copying, timers, links, edits, opens, copies>>
      /\ deployed <= setup.deployments /\ deployed' = deployed + 1
  BY DEF Deploy
<1>1. Packs' = Packs /\ Results' = Results /\ Runs' = Runs
  BY <1>0, KindsKept
<1>2. deployed' \in 1..setup.deployments + 1
  BY <1>0, Typed
<1>3. ValuesOK'
  BY <1>0, <1>1, <1>2 DEF WebInv, ValuesOK
<1>4. \A t \in Tabs : manifest[t] <= deployed' /\ manifest[t] # deployed'
  BY <1>0, Typed DEF WebInv, ManifestInv
<1>5. ManifestInv' /\ StaleCacheHarmless'
  BY <1>0, <1>4 DEF ManifestInv, StaleCacheHarmless
<1>6. RunsInv' /\ ButtonInv' /\ TimersInv' /\ CopiedIsTransient' /\ BoundsInv' /\ LinksInv'
  BY <1>0 DEF WebInv, RunsInv, RunInv, Busy, ButtonInv, TimersInv, CopiedIsTransient, BoundsInv, LinksInv, BuildDeepLink
<1>7. ShownInv' /\ RequestMatchesPack' /\ CopyShownOnSuccess'
  BY <1>0, <1>1 DEF WebInv, ShownInv, RequestMatchesPack, CopyShownOnSuccess, Busy
<1> QED  BY <1>3, <1>5, <1>6, <1>7 DEF WebInv
-----------------------------------------------------------------------------
(* Copying                                                                 *)

\* what a step of copyDeepLink or of its timer leaves alone
CopyStep == UNCHANGED <<setup, deployed, cache, manifest, selection, runs, disabled, shown, edits, opens>>

\* the parts of the invariant that such a step has to keep by itself
LEMMA CopyKeeps ==
  ASSUME WebInv, NEW t \in Tabs, CopyStep,
         NEW b \in Buttons, copyButton' = [copyButton EXCEPT ![t] = b], b.hidden = copyButton[t].hidden,
         copying' \in [Tabs -> 0..setup.maxCopies], timers' \in [Tabs -> Timers],
         \A x \in Tabs : timers'[x].current \in {0} \cup timers'[x].scheduled,
         copies' \in 0..setup.maxCopies, TimersInv', CopiedIsTransient', LinksInv'
  PROVE  WebInv'
<1> USE DEF CopyStep
<1>1. Packs' = Packs /\ Results' = Results /\ Runs' = Runs
  BY KindsKept
<1>2. copyButton' \in [Tabs -> Buttons] /\ \A x \in Tabs : copyButton'[x].hidden = copyButton[x].hidden
  BY Typed
<1>3. ValuesOK'
  BY <1>1, <1>2 DEF WebInv, ValuesOK, Buttons, Timers
<1>4. BoundsInv' /\ ManifestInv' /\ RunsInv'
  BY DEF WebInv, BoundsInv, ManifestInv, RunsInv, RunInv, Busy
<1>5. ShownInv' /\ RequestMatchesPack' /\ StaleCacheHarmless'
  BY <1>1 DEF WebInv, ShownInv, RequestMatchesPack, StaleCacheHarmless
<1>6. ButtonInv' /\ CopyShownOnSuccess'
  BY <1>1, <1>2, TabsAssumption DEF WebInv, ButtonInv, CopyShownOnSuccess, Busy
<1> QED  BY <1>3, <1>4, <1>5, <1>6 DEF WebInv

LEMMA ClearTyped ==
  ASSUME WebInv, NEW t \in Tabs
  PROVE  ClearTimer(t) \in Timers /\ ClearTimer(t).current = 0 /\ ClearTimer(t).scheduled \subseteq timers[t].scheduled
BY Typed DEF ClearTimer, Timers

\* The link is made from the selection, whatever the page was opened with.
LEMMA ClickCopyKeeps ==
  ASSUME WebInv, NEW t \in Tabs, ClickCopy(t)
  PROVE  WebInv'
<1> DEFINE b == [copyButton[t] EXCEPT !.disabled = TRUE]
<1>1. /\ CopyStep /\ copies < setup.maxCopies /\ copies' = copies + 1
      /\ links' = links \cup {[query |-> BuildDeepLink(location[t], selection[t]), of |-> selection[t]]}
      /\ timers' = [timers EXCEPT ![t] = ClearTimer(t)] /\ copying' = [copying EXCEPT ![t] = @ + 1]
      /\ copyButton' = [copyButton EXCEPT ![t].disabled = TRUE]
  BY DEF ClickCopy, CopyStep, cacheVars, pageVars, runVars
<1>2. b \in Buttons /\ b.hidden = copyButton[t].hidden /\ copyButton' = [copyButton EXCEPT ![t] = b]
  BY <1>1, Typed DEF Buttons
<1>3. timers' \in [Tabs -> Timers] /\ \A x \in Tabs : timers'[x].current \in {0} \cup timers'[x].scheduled
  BY <1>1, ClearTyped, Typed
<1>4. copies' \in 0..setup.maxCopies /\ copies' \in Nat
  BY <1>1, Typed
<1>5. TimersInv'
  <2>1. \A x \in Tabs : timers'[x].scheduled \subseteq timers[x].scheduled
    BY <1>1, ClearTyped, Typed
  <2>2. copying' \in [Tabs -> Nat] /\ \A x \in Tabs : copying'[x] <= copying[x] + 1
    BY <1>1, Typed
  <2>3. \A x \in Tabs : copying'[x] + copies <= copying[x] + copies'
    BY <1>1, <2>2, Typed
  <2> QED  BY <1>1, <1>4, <2>1, <2>2, <2>3, FewerTimers DEF CopyStep
<1>6. copying' \in [Tabs -> 0..setup.maxCopies]
  <2>1. copying' \in [Tabs -> Nat]
    BY <1>1, Typed
  <2>2. \A x \in Tabs : copying'[x] <= copies'
    <3>1. TAKE x \in Tabs
    <3>2. IsFiniteSet(timers'[x].scheduled) /\ Cardinality(timers'[x].scheduled) + copying'[x] <= copies'
      BY <1>5 DEF TimersInv
    <3>3. Cardinality(timers'[x].scheduled) \in Nat
      BY <3>2, FS_CardinalityType
    <3> QED  BY <1>4, <2>1, <3>2, <3>3
  <2> QED  BY <1>4, <2>1, <2>2, Typed
<1>7. CopiedIsTransient'
  <2>1. copying'[t] > 0 /\ \A x \in Tabs \ {t} : copying'[x] = copying[x] /\ timers'[x] = timers[x] /\ copyButton'[x] = copyButton[x]
    BY <1>1, Typed
  <2> QED  BY <2>1 DEF WebInv, CopiedIsTransient
<1>8. LinksInv'
  <2> DEFINE new == [query |-> BuildDeepLink(location[t], selection[t]), of |-> selection[t]]
  <2>1. selection[t] \in Selections
    BY Typed
  <2>2. new.of \in Selections /\ new.query = BuildDeepLink(new.query, new.of)
    BY <2>1 DEF BuildDeepLink
  <2>3. links' = links \cup {new}
    BY <1>1
  <2> HIDE DEF new
  <2>4. \A l \in links : l.of \in Selections /\ l.query = BuildDeepLink(l.query, l.of)
    BY DEF WebInv, LinksInv
  <2>5. \A l \in links' : l.of \in Selections /\ l.query = BuildDeepLink(l.query, l.of)
    BY <2>2, <2>3, <2>4
  <2> QED  BY <2>5 DEF LinksInv, BuildDeepLink
<1> HIDE DEF b
<1> QED  BY <1>1, <1>2, <1>3, <1>4, <1>5, <1>6, <1>7, <1>8, CopyKeeps

\* There is a number left for the timer of an answer that is awaited.
LEMMA TimerLeft ==
  ASSUME WebInv, NEW t \in Tabs, copying[t] > 0
  PROVE  NewTimer(t) \in 1..setup.maxCopies /\ NewTimer(t) \notin timers[t].scheduled
<1> DEFINE taken == timers[t].scheduled
<1>1. setup.maxCopies \in Nat /\ copying[t] \in Nat /\ copies \in Nat /\ copies <= setup.maxCopies
      /\ IsFiniteSet(taken) /\ Cardinality(taken) + copying[t] <= copies
  BY Typed DEF WebInv, TimersInv
<1>2. Cardinality(taken) \in Nat
  BY <1>1, FS_CardinalityType
<1>3. IsFiniteSet(1..setup.maxCopies) /\ Cardinality(1..setup.maxCopies) = setup.maxCopies
  <2>1. 1 \in Int /\ setup.maxCopies \in Int  BY <1>1
  <2>2. IsFiniteSet(1..setup.maxCopies)
        /\ Cardinality(1..setup.maxCopies) = IF 1 > setup.maxCopies THEN 0 ELSE setup.maxCopies - 1 + 1
    BY <2>1, FS_Interval
  <2> DEFINE n == Cardinality(1..setup.maxCopies)
  <2> HIDE DEF n
  <2>3. n = setup.maxCopies  BY <1>1, <2>2 DEF n
  <2> QED  BY <2>2, <2>3 DEF n
<1> HIDE DEF taken
<1>4. ASSUME (1..setup.maxCopies) \subseteq taken PROVE FALSE
  <2>1. Cardinality(1..setup.maxCopies) <= Cardinality(taken)
    BY <1>1, <1>4, FS_Subset
  <2> QED  BY <1>1, <1>2, <1>3, <2>1
<1>5. \E i \in 1..setup.maxCopies : i \notin taken
  BY <1>4
<1> QED  BY <1>5 DEF NewTimer, taken

LEMMA CopySucceedsKeeps ==
  ASSUME WebInv, NEW t \in Tabs, CopySucceeds(t)
  PROVE  WebInv'
<1> DEFINE b == [copyButton[t] EXCEPT !.label = "Copied!", !.disabled = FALSE]
           i == NewTimer(t)
           new == [scheduled |-> timers[t].scheduled \cup {i}, current |-> i]
<1>1. /\ CopyStep /\ copying[t] > 0 /\ copying' = [copying EXCEPT ![t] = @ - 1] /\ UNCHANGED <<links, copies>>
      /\ timers' = [timers EXCEPT ![t] = new]
      /\ copyButton' = [copyButton EXCEPT ![t] = b]
  BY Typed DEF CopySucceeds, CopyStep, cacheVars, pageVars, runVars, counters
<1>2. i \in 1..setup.maxCopies /\ i \notin timers[t].scheduled
  BY <1>1, TimerLeft
<1>3. b \in Buttons /\ b.hidden = copyButton[t].hidden
  BY Typed DEF Buttons
<1> HIDE DEF b, i
<1>4. new \in Timers /\ new.current \in new.scheduled
  BY <1>2, Typed DEF Timers
<1>5. timers' \in [Tabs -> Timers] /\ \A x \in Tabs : timers'[x].current \in {0} \cup timers'[x].scheduled
  BY <1>1, <1>4, Typed
<1>6. /\ \A x \in Tabs \ {t} : copying'[x] = copying[x] /\ timers'[x] = timers[x] /\ copyButton'[x] = copyButton[x]
      /\ copying'[t] = copying[t] - 1 /\ timers'[t].scheduled = timers[t].scheduled \cup {i}
  BY <1>1, Typed
<1>7. copying' \in [Tabs -> 0..setup.maxCopies]
  BY <1>1, Typed
<1>8. TimersInv'
  <2> DEFINE old == timers[t].scheduled
  <2>1. IsFiniteSet(old) /\ Cardinality(old) + copying[t] <= copies
    BY DEF WebInv, TimersInv
  <2>2. IsFiniteSet(old \cup {i}) /\ Cardinality(old \cup {i}) = Cardinality(old) + 1
    BY <1>2, <2>1, FS_AddElement
  <2>3. Cardinality(old) \in Nat /\ copying[t] \in Nat /\ copies \in Nat
    BY <2>1, FS_CardinalityType, Typed
  <2> HIDE DEF old
  <2>4. Cardinality(old \cup {i}) + copying'[t] <= copies
    BY <1>6, <2>1, <2>2, <2>3
  <2>5. IsFiniteSet(timers'[t].scheduled) /\ Cardinality(timers'[t].scheduled) + copying'[t] <= copies'
    BY <1>1, <1>6, <2>2, <2>4 DEF old
  <2> QED  BY <1>1, <1>6, <2>5 DEF WebInv, TimersInv
<1>9. CopiedIsTransient'
  BY <1>6 DEF WebInv, CopiedIsTransient
<1>10. LinksInv' /\ copies' \in 0..setup.maxCopies
  BY <1>1, Typed DEF WebInv, LinksInv, BuildDeepLink
<1> QED  BY <1>1, <1>3, <1>5, <1>7, <1>8, <1>9, <1>10, CopyKeeps

LEMMA CopyFailsKeeps ==
  ASSUME WebInv, NEW t \in Tabs, CopyFails(t)
  PROVE  WebInv'
<1> DEFINE b == [copyButton[t] EXCEPT !.label = "Copy deep-link", !.disabled = FALSE]
<1>1. /\ CopyStep /\ copying[t] > 0 /\ copying' = [copying EXCEPT ![t] = @ - 1] /\ UNCHANGED <<links, copies, timers>>
      /\ copyButton' = [copyButton EXCEPT ![t] = b]
  BY Typed DEF CopyFails, CopyStep, cacheVars, pageVars, runVars, counters
<1>2. b \in Buttons /\ b.hidden = copyButton[t].hidden /\ b.label # "Copied!"
  BY Typed DEF Buttons
<1> HIDE DEF b
<1>3. /\ \A x \in Tabs \ {t} : copying'[x] = copying[x] /\ copyButton'[x] = copyButton[x]
      /\ copyButton'[t] = b
  BY <1>1, Typed
<1>4. copying' \in [Tabs -> 0..setup.maxCopies] /\ copying' \in [Tabs -> Nat] /\ \A x \in Tabs : copying'[x] <= copying[x]
  BY <1>1, Typed
<1>5. TimersInv'
  BY <1>1, <1>4, FewerTimers, Typed DEF CopyStep
<1>6. CopiedIsTransient'
  BY <1>1, <1>2, <1>3 DEF WebInv, CopiedIsTransient
<1>7. LinksInv' /\ copies' \in 0..setup.maxCopies
  BY <1>1, Typed DEF WebInv, LinksInv, BuildDeepLink
<1>8. timers' \in [Tabs -> Timers] /\ \A x \in Tabs : timers'[x].current \in {0} \cup timers'[x].scheduled
  BY <1>1, Typed
<1> QED  BY <1>1, <1>2, <1>4, <1>5, <1>6, <1>7, <1>8, CopyKeeps

LEMMA FeedbackKeeps ==
  ASSUME WebInv, NEW t \in Tabs, FeedbackTimer(t)
  PROVE  WebInv'
<1> DEFINE b == [copyButton[t] EXCEPT !.label = IF copyButton[t].hidden THEN @ ELSE "Copy deep-link"]
<1>1. PICK i \in timers[t].scheduled : timers' = [timers EXCEPT ![t] = [scheduled |-> timers[t].scheduled \ {i}, current |-> 0]]
  BY Typed DEF FeedbackTimer
<1>2. /\ CopyStep /\ UNCHANGED <<links, copies, copying>>
      /\ copyButton' = [copyButton EXCEPT ![t] = b]
  BY Typed DEF FeedbackTimer, CopyStep, cacheVars, pageVars, runVars, counters
<1>3. b \in Buttons /\ b.hidden = copyButton[t].hidden /\ (b.hidden \/ b.label # "Copied!")
  BY Typed DEF Buttons
<1> HIDE DEF b
<1>4. [scheduled |-> timers[t].scheduled \ {i}, current |-> 0] \in Timers
  BY Typed DEF Timers
<1>5. timers' \in [Tabs -> Timers] /\ \A x \in Tabs : timers'[x].current \in {0} \cup timers'[x].scheduled
  BY <1>1, <1>4, Typed
<1>6. /\ \A x \in Tabs : timers'[x].scheduled \subseteq timers[x].scheduled
      /\ \A x \in Tabs \ {t} : timers'[x] = timers[x] /\ copyButton'[x] = copyButton[x]
      /\ copyButton'[t] = b
  BY <1>1, <1>2, Typed
<1>7. TimersInv'
  BY <1>2, <1>6, FewerTimers, Typed DEF CopyStep
<1>8. CopiedIsTransient'
  BY <1>2, <1>3, <1>6 DEF WebInv, CopiedIsTransient
<1>9. LinksInv' /\ copies' \in 0..setup.maxCopies /\ copying' \in [Tabs -> 0..setup.maxCopies]
  BY <1>2, Typed DEF WebInv, LinksInv, BuildDeepLink
<1> QED  BY <1>2, <1>3, <1>5, <1>7, <1>8, <1>9, CopyKeeps
-----------------------------------------------------------------------------
(* Every behaviour                                                         *)

LEMMA InitHolds == Init => WebInv
<1> SUFFICES ASSUME Init PROVE WebInv  OBVIOUS
<1> USE DEF Init
<1>1. setup \in Setups /\ setup.maxCopies \in Nat /\ setup.deployments \in Nat
  BY SetupsAssumption
<1>2. ValuesOK
  <2>1. cache \in [Archs -> Packs \cup {None}] /\ deployed \in 1..setup.deployments + 1
    BY <1>1
  <2>2. manifest \in [Tabs -> 0..setup.deployments + 1] /\ copying \in [Tabs -> 0..setup.maxCopies]
    BY <1>1
  <2>3. runs \in [Tabs -> SUBSET Runs] /\ disabled \in [Tabs -> BOOLEAN]
        /\ shown \in [Tabs -> Results \cup Errors \cup {None}] /\ selection \in [Tabs -> Selections]
    BY DefaultTyped
  <2>4. copyButton \in [Tabs -> [hidden : BOOLEAN, disabled : BOOLEAN, label : {"Copy deep-link", "Copied!"}]]
    BY DEF ResetCopyButton
  <2>5. /\ timers \in [Tabs -> [scheduled : SUBSET (1..setup.maxCopies), current : 0..setup.maxCopies]]
        /\ \A t \in Tabs : timers[t].current \in {0} \cup timers[t].scheduled
    <3>1. 0 \in 0..setup.maxCopies  BY <1>1
    <3> QED  BY <3>1 DEF NoTimers
  <2> QED  BY <2>1, <2>2, <2>3, <2>4, <2>5 DEF ValuesOK
<1>3. BoundsInv /\ ManifestInv /\ RunsInv /\ LinksInv
  BY <1>1 DEF BoundsInv, ManifestInv, RunsInv, Busy, LinksInv
<1>4. ShownInv /\ RequestMatchesPack /\ StaleCacheHarmless
  BY <1>1, Apart, NoneAssumption DEF ShownInv, RequestMatchesPack, StaleCacheHarmless, Errors
<1>5. ButtonInv /\ CopyShownOnSuccess /\ CopiedIsTransient
  BY TabsAssumption DEF ButtonInv, CopyShownOnSuccess, CopiedIsTransient, ResetCopyButton
<1>6. TimersInv
  <2>1. IsFiniteSet({}) /\ Cardinality({}) = 0
    BY FS_EmptySet
  <2>2. \A t \in Tabs : timers[t].scheduled = {} /\ copying[t] = 0
    BY DEF NoTimers
  <2>3. copies = 0  OBVIOUS
  <2>4. 0 + 0 <= 0  OBVIOUS
  <2> QED  BY <2>1, <2>2, <2>3, <2>4 DEF TimersInv
<1> QED  BY <1>2, <1>3, <1>4, <1>5, <1>6 DEF WebInv

LEMMA StepKeeps == WebInv /\ [Next]_vars => WebInv'
<1> SUFFICES ASSUME WebInv, [Next]_vars PROVE WebInv'  OBVIOUS
<1>1. CASE Deploy
  BY <1>1, DeployKeeps
<1>2. ASSUME NEW t \in setup.tabs, TabStep(t) PROVE WebInv'
  <2>1. t \in Tabs
    BY SetupsAssumption DEF WebInv, BoundsInv
  <2>2. CASE Proceeds(t)
    BY <2>1, <2>2, MatchKeeps, DeleteKeeps, FetchKeeps, PutKeeps, AnswerKeeps DEF Proceeds
  <2>3. CASE ClickAnalyze(t) \/ AssemblerAnswers(t) \/ Edit(t) \/ Open(t) \/ BootFails(t)
    BY <2>1, <2>3, ClickKeeps, AnswerKeeps, EditKeeps, OpenKeeps, BootFailsKeeps
  <2>4. CASE ClickCopy(t) \/ CopySucceeds(t) \/ CopyFails(t) \/ FeedbackTimer(t)
    BY <2>1, <2>4, ClickCopyKeeps, CopySucceedsKeeps, CopyFailsKeeps, FeedbackKeeps
  <2> QED  BY <1>2, <2>2, <2>3, <2>4 DEF TabStep
<1>3. CASE UNCHANGED vars
  <2>1. UNCHANGED <<setup, deployed, cache, manifest, selection, runs, disabled, shown>>
        /\ UNCHANGED <<copyButton, copying, timers, links, edits, opens, copies>>
    BY <1>3 DEF vars, cacheVars, pageVars, runVars, copyVars, counters
  <2>2. Packs' = Packs /\ Results' = Results /\ Runs' = Runs
    BY <2>1, KindsKept
  <2>3. ValuesOK' /\ BoundsInv' /\ ManifestInv' /\ RunsInv' /\ LinksInv'
    BY <2>1, <2>2 DEF WebInv, ValuesOK, BoundsInv, ManifestInv, RunsInv, RunInv, Busy, LinksInv, BuildDeepLink
  <2>4. ShownInv' /\ RequestMatchesPack' /\ StaleCacheHarmless' /\ CopyShownOnSuccess'
    BY <2>1, <2>2 DEF WebInv, ShownInv, RequestMatchesPack, StaleCacheHarmless, CopyShownOnSuccess, Busy
  <2>5. ButtonInv' /\ TimersInv' /\ CopiedIsTransient'
    BY <2>1 DEF WebInv, ButtonInv, TimersInv, CopiedIsTransient
  <2> QED  BY <2>3, <2>4, <2>5 DEF WebInv
<1> QED  BY <1>1, <1>2, <1>3 DEF Next

\* What holds of every tab in every behaviour: the inductive invariant.
THEOREM WebCorrect == Spec => []WebInv
<1>1. WebInv /\ [Next]_vars => WebInv'
  BY StepKeeps
<1> QED  BY <1>1, InitHolds, PTL DEF Spec

\* Every tab shows what was asked of it, with the pack of its own manifest, one analysis at a
\* time; no cached pack makes it fail; the copy button and the links it makes tell the truth
\* (runAnalyze, fetchCachedUipack, copyDeepLink, deep-link.mjs).
THEOREM Pages == Spec => []PageSound
<1>1. WebInv => PageSound
  <2> SUFFICES ASSUME WebInv PROVE PageSound  OBVIOUS
  <2>1. OneAnalysis
    <3> SUFFICES ASSUME NEW t \in Tabs PROVE Cardinality(runs[t]) <= 1
      BY DEF OneAnalysis
    <3>1. CASE runs[t] = {}
      BY <3>1, FS_EmptySet
    <3>2. CASE runs[t] # {}
      <4>1. PICK r \in runs[t] : runs[t] = {r}
        BY <3>2 DEF WebInv, RunsInv
      <4>2. Cardinality({r}) = 1
        BY FS_Singleton
      <4> QED  BY <4>1, <4>2
    <3> QED  BY <3>1, <3>2
  <2>2. PackOfManifest
    <3>1. \A t \in Tabs : \A r \in runs[t] : r.pack # None => r.pack = Pack(r.arch, manifest[t])
      BY Typed DEF WebInv, RunsInv, RunInv, Runs
    <3> QED  BY <3>1 DEF WebInv, ShownInv, PackOfManifest
  <2>3. LinksReproduce
    <3> SUFFICES ASSUME NEW l \in links
                 PROVE  LET text == IF l.of.mode = "hex" THEN l.of.hex ELSE l.of.asm
                            opened == ApplyDeepLink(l.query) IN
                        /\ opened.arch = l.of.arch /\ opened.mode = l.of.mode
                        /\ text = IF opened.mode = "hex" THEN opened.hex ELSE opened.asm
                        /\ ShouldAutoAnalyze(l.query) <=> text # NoText
      BY DEF LinksReproduce
    <3>1. l.of \in Selections /\ l.query = BuildDeepLink(l.query, l.of)
      BY DEF WebInv, LinksInv
    <3> DEFINE s == l.of
               base == l.query
    <3>2. s \in Selections /\ base = BuildDeepLink(base, s)
      BY <3>1
    <3> HIDE DEF s, base
    <3>3. LET text == IF s.mode = "hex" THEN s.hex ELSE s.asm
              opened == ApplyDeepLink(base) IN
          /\ opened.arch = s.arch /\ opened.mode = s.mode
          /\ text = IF opened.mode = "hex" THEN opened.hex ELSE opened.asm
          /\ ShouldAutoAnalyze(base) <=> text # NoText
      BY <3>2, LinksExact
    <3> QED  BY <3>3 DEF s, base
  <2> QED  BY <2>1, <2>2, <2>3 DEF WebInv, PageSound
<1> QED  BY <1>1, WebCorrect, PTL
=============================================================================
