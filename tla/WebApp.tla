------------------------------- MODULE WebApp -------------------------------
(***************************************************************************)
(* The browser front end: web/main.js, web/pure-wasm.js, the UIPack cache  *)
(* (web/uipack-cache.js), the assembler (web/nasm-assemble.js and its      *)
(* worker) and deep links (web/deep-link.mjs), for several tabs of one     *)
(* browser.  JavaScript runs to completion, so a step is what runs between *)
(* two awaits that wait for something outside the tab: a cache operation,  *)
(* the network, the assembler worker, a timer, the clipboard, the user.    *)
(***************************************************************************)
EXTENDS Naturals, FiniteSets

CONSTANTS
  Tabs, PureTabs,      \* all tabs, and those that show test-pure-wasm.html
  Archs,               \* the architectures of every manifest
  DefaultArch,         \* the one populateArchSelect prefers
  Sources, HexTexts,   \* what the two text areas may hold
  NoText,              \* the empty text, of either kind
  Assembled,           \* Sources -> HexTexts, or Rejected: what NASM makes of a text
  Analysable,          \* the hex texts the engine has a result for
  Rejected, None,
  Setups               \* see SetupsAssumption

\* What the users have in front of them and may do: the tabs they open, the texts they type, the
\* queries of URLs the copy button did not make, whether there is "caches" in window, how often the server's data is
\* replaced, whether a fetch may return a pack of an earlier deployment or damage, and bounds.
ASSUME SetupsAssumption == \A s \in Setups :
  /\ s.tabs \subseteq Tabs /\ s.texts \subseteq Sources \cup HexTexts /\ {s.hasCaches, s.fetchesStale} \subseteq BOOLEAN
  /\ {s.deployments, s.maxEdits, s.maxOpens, s.maxCopies} \subseteq Nat
ASSUME TabsAssumption == PureTabs \subseteq Tabs /\ DefaultArch \in Archs
\* Both text areas come with an example.
ASSUME TextsAssumption ==
  /\ NoText \in Sources \cap HexTexts /\ Sources # {NoText} /\ HexTexts # {NoText} /\ Rejected \notin Sources
  /\ Assembled \in [Sources -> HexTexts \cup {Rejected}]

VARIABLES
  setup,      \* one of Setups, fixed in a behaviour
  deployed,   \* version of the data the server offers
  cache,      \* the Cache API's store: a pack or None for the URL of each architecture
  manifest,   \* manifest[t]: version of the manifest tab t booted with
  location,   \* location[t]: the query parameters of its URL
  selection,  \* selection[t]: architecture, input mode and the two texts
  runs,       \* runs[t]: the calls of runAnalyze that have not returned
  disabled,   \* disabled[t]: the analyze and mode buttons
  shown,      \* shown[t]: what the output panels show: a result, an error, None
  copyButton, \* copyButton[t]: hidden, disabled, label
  copying,    \* copying[t]: number of pending clipboard.writeText
  timers,     \* timers[t]: scheduled feedback timers, and the one copyFeedbackTimer names (0: none)
  links,      \* deep links written to the clipboard, each with the selection it was made from
  edits, opens, copies   \* counters of the bounds

cacheVars == <<deployed, cache>>
pageVars == <<manifest, location, selection>>
runVars == <<runs, disabled, shown>>
copyVars == <<copyButton, copying, timers>>
counters == <<setup, edits, opens, copies>>
vars == <<cacheVars, pageVars, runVars, copyVars, links, counters>>

-----------------------------------------------------------------------------
(* Deep links.  A URL's query is a function from some of the parameters.   *)

Encode(src) == [base64 |-> src]   \* encodeBase64Utf8; decodeBase64Utf8 accepts nothing else
NotBase64 == [base64 |-> Rejected]

\* what the texts in a URL's query may be
QueryOK(q) ==
  /\ "hex" \in DOMAIN q => q["hex"] \in HexTexts
  /\ "asm" \in DOMAIN q => q["asm"] \in {Encode(s) : s \in Sources} \cup {NotBase64}
ASSUME QueriesAssumption == \A s \in Setups : \A q \in s.queries : QueryOK(q)

ConflictingParams(q) == {"hex", "asm"} \subseteq DOMAIN q
UndecodableAsm(q) == "asm" \in DOMAIN q /\ q["asm"] = NotBase64

ReadDeepLinkParams(q) ==
  [inputMode |-> CASE "hex" \in DOMAIN q -> "hex" [] "asm" \in DOMAIN q -> "asm" [] OTHER -> None,
   hex |-> IF "hex" \in DOMAIN q THEN q["hex"] ELSE NoText,
   asm |-> IF "asm" \in DOMAIN q THEN q["asm"].base64 ELSE NoText,
   uarch |-> IF "uarch" \in DOMAIN q THEN q["uarch"] ELSE None]

\* the query of the page's own URL (base) is dropped
BuildDeepLink(base, s) ==
  [p \in {"uarch", s.mode} |->
     CASE p = "uarch" -> s.arch [] p = "hex" -> s.hex [] OTHER -> Encode(s.asm)]

DefaultSelection == [arch |-> DefaultArch, mode |-> "asm", asm |-> CHOOSE s \in Sources \ {NoText} : TRUE,
                     hex |-> CHOOSE h \in HexTexts \ {NoText} : TRUE]

\* applyDeepLinkSelection; a link it cannot read leaves the defaults
ApplyDeepLink(q) ==
  IF ConflictingParams(q) \/ UndecodableAsm(q) THEN DefaultSelection
  ELSE LET link == ReadDeepLinkParams(q) IN
       [arch |-> IF link.uarch \in Archs THEN link.uarch ELSE DefaultArch,
        mode |-> IF link.inputMode = None THEN "asm" ELSE link.inputMode,
        asm |-> IF link.inputMode = "asm" THEN link.asm ELSE DefaultSelection.asm,
        hex |-> IF link.inputMode = "hex" THEN link.hex ELSE DefaultSelection.hex]

ShouldAutoAnalyze(q) ==
  /\ ~ConflictingParams(q) /\ ~UndecodableAsm(q)
  /\ LET link == ReadDeepLinkParams(q) IN
     /\ \/ link.inputMode = "hex" /\ link.hex # NoText
        \/ link.inputMode = "asm" /\ link.asm # NoText
     /\ link.uarch \in Archs

-----------------------------------------------------------------------------
(* UIPacks.  The manifest of version v names the size and the checksum of  *)
(* the pack of that version, so validation tells it from every other one.  *)

Pack(a, v) == [arch |-> a, version |-> v]
Damaged == [arch |-> None, version |-> 0]
PacksOf(s) == {Pack(a, v) : a \in Archs, v \in 0..s.deployments + 1} \cup {Damaged}
Packs == PacksOf(setup)

ValidUipack(t, a, pack) == pack = Pack(a, manifest[t])

Answers(a) == {Pack(a, deployed)} \cup
  (IF setup.fetchesStale THEN {Pack(a, v) : v \in 1..deployed} \cup {Damaged, None} ELSE {})

-----------------------------------------------------------------------------
(* runAnalyze                                                              *)

Busy(t) == runs[t] # {}
NoTimers == [scheduled |-> {}, current |-> 0]

ResetCopyButton == [hidden |-> TRUE, disabled |-> FALSE, label |-> "Copy deep-link"]
ShowCopyButton(t) == [hidden |-> FALSE, disabled |-> FALSE, label |-> "Copy deep-link"]
ClearTimer(t) == [scheduled |-> timers[t].scheduled \ {timers[t].current}, current |-> 0]

FirstRun(a) == [phase |-> IF setup.hasCaches THEN "match" ELSE "fetch", arch |-> a, pack |-> None, source |-> None]

\* up to the first await, for the click and for the deep link
StartAnalyze(t, a) ==
  /\ runs' = [runs EXCEPT ![t] = @ \cup {FirstRun(a)}]
  /\ disabled' = [disabled EXCEPT ![t] = TRUE]
  /\ shown' = [shown EXCEPT ![t] = IF t \in PureTabs THEN @ ELSE None]

CanClick(t) == ~disabled[t]

ClickAnalyze(t) ==
  /\ manifest[t] # 0
  /\ CanClick(t)
  /\ StartAnalyze(t, selection[t].arch)
  /\ copyButton' = [copyButton EXCEPT ![t] = IF t \in PureTabs THEN @ ELSE ResetCopyButton]
  /\ timers' = [timers EXCEPT ![t] = IF t \in PureTabs THEN @ ELSE ClearTimer(t)]
  /\ UNCHANGED <<cacheVars, pageVars, copying, links, counters>>

GoOn(t, r, next) ==
  /\ runs' = [runs EXCEPT ![t] = (@ \ {r}) \cup {next}]
  /\ UNCHANGED <<disabled, shown, copyVars>>

RevealsCopyButton(t, success) == success /\ t \notin PureTabs

\* the finally block, behind the result or the catch block
Finish(t, r, outcome, success) ==
  /\ runs' = [runs EXCEPT ![t] = @ \ {r}]
  /\ disabled' = [disabled EXCEPT ![t] = FALSE]
  /\ shown' = [shown EXCEPT ![t] = outcome]
  /\ IF RevealsCopyButton(t, success)
     THEN /\ copyButton' = [copyButton EXCEPT ![t] = ShowCopyButton(t)]
          /\ timers' = [timers EXCEPT ![t] = ClearTimer(t)]
          /\ UNCHANGED copying
     ELSE UNCHANGED copyVars

Fail(t, r, why) == Finish(t, r, [error |-> why], FALSE)

\* Mutant: the selection is read when the answer comes.
SelectedArch(t, r) == selection[t].arch
RequestedArch(t, r) == r.arch

\* callRun and run_request_json_inner: the engine compares the pack's architecture with the request's
CallRun(t, r, pack, hex) ==
  LET arch == RequestedArch(t, r) IN
  CASE pack.arch # arch -> Fail(t, r, "architecture")
    [] pack.arch = arch /\ t \notin PureTabs /\ hex \notin Analysable -> Fail(t, r, "engine")
    [] OTHER -> Finish(t, r, [arch |-> arch, hex |-> hex, pack |-> pack], TRUE)

\* behind fetchCachedUipack, on the main page: getInputHex, up to the wait for the assembler, or all the rest
MainWithPack(t, r, pack) ==
  IF selection[t].mode = "asm"
  THEN GoOn(t, r, [r EXCEPT !.phase = "assemble", !.pack = pack, !.source = selection[t].asm])
  ELSE CallRun(t, r, pack, selection[t].hex)

\* test-pure-wasm.html analyses a fixed stream of decoded instructions
PureWithPack(t, r, pack) == CallRun(t, r, pack, None)

WithPack(t, r, pack) == IF t \in PureTabs THEN PureWithPack(t, r, pack) ELSE MainWithPack(t, r, pack)

-----------------------------------------------------------------------------
(* fetchCachedUipack and assembleNasm, one action per await                *)

RejectCached(t, r) == GoOn(t, r, [r EXCEPT !.phase = "delete"])

CacheMatch(t) == \E r \in runs[t] :
  /\ r.phase = "match"
  /\ LET cached == cache[r.arch] IN
     \/ cached = None /\ GoOn(t, r, [r EXCEPT !.phase = "fetch"])
     \/ cached # None /\ ValidUipack(t, r.arch, cached) /\ WithPack(t, r, cached)
     \/ cached # None /\ ~ValidUipack(t, r.arch, cached) /\ RejectCached(t, r)
  /\ UNCHANGED <<cacheVars, pageVars, links, counters>>

CacheDelete(t) == \E r \in runs[t] :
  /\ r.phase = "delete"
  /\ cache' = [cache EXCEPT ![r.arch] = None]
  /\ GoOn(t, r, [r EXCEPT !.phase = "fetch"])
  /\ UNCHANGED <<deployed, pageVars, links, counters>>

AcceptFetched(t, r, pack) == ValidUipack(t, r.arch, pack)

FetchUipack(t) == \E r \in runs[t] : \E pack \in Answers(r.arch) :
  /\ r.phase = "fetch"
  /\ CASE pack = None -> Fail(t, r, "network")
       [] pack # None /\ ~AcceptFetched(t, r, pack) -> Fail(t, r, "mismatch")
       [] OTHER -> IF setup.hasCaches THEN GoOn(t, r, [r EXCEPT !.phase = "put", !.pack = pack])
                   ELSE WithPack(t, r, pack)
  /\ UNCHANGED <<cacheVars, pageVars, links, counters>>

\* cache.put rejects when the quota is used up: the run fails, with the pack in its hands
CachePut(t) == \E r \in runs[t] :
  /\ r.phase = "put"
  /\ \/ cache' = [cache EXCEPT ![r.arch] = r.pack] /\ WithPack(t, r, r.pack)
     \/ setup.fetchesStale /\ UNCHANGED cache /\ Fail(t, r, "quota")
  /\ UNCHANGED <<deployed, pageVars, links, counters>>

\* the worker's message, or one of its error events
AssemblerAnswers(t) == \E r \in runs[t] :
  /\ r.phase = "assemble"
  /\ \/ Assembled[r.source] # Rejected /\ CallRun(t, r, r.pack, Assembled[r.source])
     \/ Assembled[r.source] = Rejected /\ Fail(t, r, "assembler")
     \/ Fail(t, r, "worker")
  /\ UNCHANGED <<cacheVars, pageVars, links, counters>>

\* Mutant: the timeout is only set for an empty text.
TimeoutSetForEmpty(r) == r.phase = "assemble" /\ r.source = NoText
TimeoutSet(r) == r.phase = "assemble"

\* NASM_TIMEOUT_MS: the worker, which need not answer, is terminated
AssemblerTimesOut(t) == \E r \in runs[t] :
  /\ TimeoutSet(r)
  /\ Fail(t, r, "timeout")
  /\ UNCHANGED <<cacheVars, pageVars, links, counters>>

-----------------------------------------------------------------------------
(* The user                                                                *)

\* any of the inputs but the mode can be changed while an analysis runs
Edit(t) ==
  /\ manifest[t] # 0 /\ edits < setup.maxEdits
  /\ \/ \E a \in Archs : selection' = [selection EXCEPT ![t].arch = a]
     \/ \E s \in Sources \cap setup.texts : t \notin PureTabs /\ selection[t].mode = "asm" /\ selection' = [selection EXCEPT ![t].asm = s]
     \/ \E h \in HexTexts \cap setup.texts : t \notin PureTabs /\ selection[t].mode = "hex" /\ selection' = [selection EXCEPT ![t].hex = h]
     \/ \E m \in {"asm", "hex"} : t \notin PureTabs /\ ~disabled[t] /\ selection' = [selection EXCEPT ![t].mode = m]
  /\ selection' # selection
  /\ edits' = edits + 1
  /\ UNCHANGED <<cacheVars, manifest, location, runVars, copyVars, links, setup, opens, copies>>

\* boot, of a new page or of one that is reloaded: what ran in it is gone
Open(t) == \E q \in {l.query : l \in links} \cup setup.queries :
  LET auto == t \notin PureTabs /\ ShouldAutoAnalyze(q)
      s == IF t \in PureTabs THEN DefaultSelection ELSE ApplyDeepLink(q) IN
  /\ opens < setup.maxOpens
  /\ opens' = opens + 1
  /\ manifest' = [manifest EXCEPT ![t] = deployed]
  /\ location' = [location EXCEPT ![t] = q]
  /\ selection' = [selection EXCEPT ![t] = s]
  /\ runs' = [runs EXCEPT ![t] = IF auto THEN {FirstRun(s.arch)} ELSE {}]
  /\ disabled' = [disabled EXCEPT ![t] = auto]
  /\ shown' = [shown EXCEPT ![t] = None]
  /\ copyButton' = [copyButton EXCEPT ![t] = ResetCopyButton]
  /\ copying' = [copying EXCEPT ![t] = 0]
  /\ timers' = [timers EXCEPT ![t] = NoTimers]
  /\ UNCHANGED <<cacheVars, links, setup, edits, copies>>

\* createUica, loadManifest or init rejects: the buttons stay as the page has them
BootFails(t) ==
  /\ opens < setup.maxOpens
  /\ opens' = opens + 1
  /\ manifest' = [manifest EXCEPT ![t] = 0]
  /\ runs' = [runs EXCEPT ![t] = {}]
  /\ disabled' = [disabled EXCEPT ![t] = TRUE]
  /\ shown' = [shown EXCEPT ![t] = [error |-> "boot"]]
  /\ copyButton' = [copyButton EXCEPT ![t] = ResetCopyButton]
  /\ copying' = [copying EXCEPT ![t] = 0]
  /\ timers' = [timers EXCEPT ![t] = NoTimers]
  /\ UNCHANGED <<cacheVars, location, selection, links, setup, edits, copies>>

Deploy ==
  /\ deployed <= setup.deployments
  /\ deployed' = deployed + 1
  /\ UNCHANGED <<cache, pageVars, runVars, copyVars, links, counters>>

-----------------------------------------------------------------------------
(* copyDeepLink                                                            *)

ClickCopy(t) ==
  /\ ~copyButton[t].hidden /\ ~copyButton[t].disabled
  /\ copies < setup.maxCopies
  /\ copies' = copies + 1
  /\ links' = links \cup {[query |-> BuildDeepLink(location[t], selection[t]), of |-> selection[t]]}
  /\ copyButton' = [copyButton EXCEPT ![t].disabled = TRUE]
  /\ timers' = [timers EXCEPT ![t] = ClearTimer(t)]
  /\ copying' = [copying EXCEPT ![t] = @ + 1]
  /\ UNCHANGED <<cacheVars, pageVars, runVars, setup, edits, opens>>

NewTimer(t) == CHOOSE i \in 1..setup.maxCopies : i \notin timers[t].scheduled

\* clipboard.writeText resolves; the button may have been hidden and shown again since
CopySucceeds(t) ==
  /\ copying[t] > 0
  /\ copying' = [copying EXCEPT ![t] = @ - 1]
  /\ copyButton' = [copyButton EXCEPT ![t].label = "Copied!", ![t].disabled = FALSE]
  /\ timers' = [timers EXCEPT ![t] = [scheduled |-> @.scheduled \cup {NewTimer(t)}, current |-> NewTimer(t)]]
  /\ UNCHANGED <<cacheVars, pageVars, runVars, links, counters>>

CopyFails(t) ==
  /\ copying[t] > 0
  /\ copying' = [copying EXCEPT ![t] = @ - 1]
  /\ copyButton' = [copyButton EXCEPT ![t].label = "Copy deep-link", ![t].disabled = FALSE]
  /\ UNCHANGED <<cacheVars, pageVars, runVars, timers, links, counters>>

FeedbackTimer(t) == \E i \in timers[t].scheduled :
  /\ timers' = [timers EXCEPT ![t] = [scheduled |-> @.scheduled \ {i}, current |-> 0]]
  /\ copyButton' = [copyButton EXCEPT ![t].label = IF copyButton[t].hidden THEN @ ELSE "Copy deep-link"]
  /\ UNCHANGED <<cacheVars, pageVars, runVars, copying, links, counters>>

-----------------------------------------------------------------------------
\* what earlier visits may have left: a pack of the version offered or of an older one, or damage
LeftInCache(a) == IF setup.hasCaches THEN {None, Damaged, Pack(a, 0), Pack(a, 1)} ELSE {None}

Init ==
  /\ setup \in Setups
  /\ deployed = 1
  /\ cache \in {c \in [Archs -> Packs \cup {None}] : \A a \in Archs : c[a] \in LeftInCache(a)}
  /\ manifest = [t \in Tabs |-> 0]
  /\ location = [t \in Tabs |-> [p \in {} |-> None]]
  /\ selection = [t \in Tabs |-> DefaultSelection]
  /\ runs = [t \in Tabs |-> {}]
  /\ disabled = [t \in Tabs |-> TRUE]
  /\ shown = [t \in Tabs |-> None]
  /\ copyButton = [t \in Tabs |-> ResetCopyButton]
  /\ copying = [t \in Tabs |-> 0]
  /\ timers = [t \in Tabs |-> NoTimers]
  /\ links = {}
  /\ edits = 0 /\ opens = 0 /\ copies = 0

Proceeds(t) ==
  \/ CacheMatch(t) \/ CacheDelete(t) \/ FetchUipack(t) \/ CachePut(t) \/ AssemblerTimesOut(t)

TabStep(t) ==
  \/ ClickAnalyze(t) \/ Proceeds(t) \/ AssemblerAnswers(t) \/ Edit(t) \/ Open(t) \/ BootFails(t)
  \/ ClickCopy(t) \/ CopySucceeds(t) \/ CopyFails(t) \/ FeedbackTimer(t)

Next == Deploy \/ \E t \in setup.tabs : TabStep(t)

\* The browser answers every cache operation and request, and timers fire.
\* Nothing is assumed of the worker, the clipboard, the user and the server's operator.
Spec == Init /\ [][Next]_vars /\ \A t \in Tabs : WF_vars(Proceeds(t))
=============================================================================
