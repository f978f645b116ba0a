--------------------------- MODULE WebProperties ---------------------------
(***************************************************************************)
(* What the browser front end promises, over every interleaving of its     *)
(* tabs, the network, the cache, the worker and the user.                  *)
(***************************************************************************)
EXTENDS WebApp

ResultsOf(packs) == [arch : Archs, hex : HexTexts \cup {None}, pack : packs]
Results == ResultsOf(Packs)
Errors == [error : {"network", "mismatch", "quota", "assembler", "worker", "timeout", "engine", "architecture", "boot"}]
Selections == [arch : Archs, mode : {"asm", "hex"}, asm : Sources, hex : HexTexts]
Runs == [phase : {"match", "delete", "fetch", "put", "assemble"}, arch : Archs,
         pack : Packs \cup {None}, source : Sources \cup {None}]

\* None is nothing that a panel shows and no input mode.
ASSUME NoneAssumption ==
  /\ None \notin Errors \cup {"asm", "hex"}
  /\ \A s \in Setups : None \notin ResultsOf(PacksOf(s))

\* Every variable holds a value of its kind.
ValuesOK ==
  /\ deployed \in 1..setup.deployments + 1
  /\ cache \in [Archs -> Packs \cup {None}]
  /\ manifest \in [Tabs -> 0..setup.deployments + 1]
  /\ selection \in [Tabs -> Selections]
  /\ runs \in [Tabs -> SUBSET Runs]
  /\ disabled \in [Tabs -> BOOLEAN]
  /\ shown \in [Tabs -> Results \cup Errors \cup {None}]
  /\ copyButton \in [Tabs -> [hidden : BOOLEAN, disabled : BOOLEAN, label : {"Copy deep-link", "Copied!"}]]
  /\ copying \in [Tabs -> 0..setup.maxCopies]
  /\ timers \in [Tabs -> [scheduled : SUBSET (1..setup.maxCopies), current : 0..setup.maxCopies]]
  /\ \A t \in Tabs : timers[t].current \in {0} \cup timers[t].scheduled

\* A tab never runs two analyses at once, although every await lets the user click again: the
\* panels, the preview and the status line have one writer (runAnalyze disables the button).
OneAnalysis == \A t \in Tabs : Cardinality(runs[t]) <= 1

\* Whatever the cache holds, other tabs do to it, the server deploys and the user selects in the
\* meantime: the pack a tab analyses with, and the one whose result it shows, is the one its own
\* manifest names for the architecture of the request (validateUipackBytes, runAnalyze's arch).
PackOfManifest == \A t \in Tabs :
  /\ \A r \in runs[t] : r.pack # None => r.pack = Pack(r.arch, manifest[t])
  /\ shown[t] \in Results => shown[t].pack = Pack(shown[t].arch, manifest[t])

\* The result shown answers a request whose pack belonged to it: changing the selected
\* architecture during the awaits never ends in the engine's architecture error.
RequestMatchesPack == \A t \in Tabs : shown[t] # [error |-> "architecture"]

\* A pack cached by an earlier visit, of another version or damaged, never makes an analysis fail:
\* it is deleted and fetched again (fetchCachedUipack).  Only a tab whose manifest is older than
\* the server's data, or a network that returns stale data, can end in a mismatch.
StaleCacheHarmless == \A t \in Tabs :
  shown[t] = [error |-> "mismatch"] => setup.fetchesStale \/ manifest[t] # deployed

\* Every analysis comes to an end and gives the buttons back, even if the assembler's worker
\* never answers: the timeout rejects the promise (assembleNasm, the finally of runAnalyze).
AnalysisEnds == \A t \in Tabs : Busy(t) ~> ~Busy(t)

\* The copy button is only there for an analysis that succeeded and has not been replaced by
\* another attempt (resetCopyDeepLinkButton, showCopyDeepLinkButton).
CopyShownOnSuccess == \A t \in Tabs : ~copyButton[t].hidden => shown[t] \in Results /\ ~Busy(t)

\* "Copied!" is brief: while it can be seen a timer that takes it back is scheduled, or a clipboard
\* answer is awaited that will schedule one or take it back itself, however clicks, clipboard answers, analyses and older timers interleave (copyDeepLink).
CopiedIsTransient == \A t \in Tabs :
  ~copyButton[t].hidden /\ copyButton[t].label = "Copied!" => timers[t].scheduled # {} \/ copying[t] > 0

\* A copied link opens with the selection it was copied from and, unless the text is empty, is
\* analysed at once, whatever link the page it was copied on had been opened by (buildDeepLink,
\* readDeepLinkParams, shouldAutoAnalyzeDeepLink).
LinksReproduce == \A l \in links :
  LET text == IF l.of.mode = "hex" THEN l.of.hex ELSE l.of.asm
      opened == ApplyDeepLink(l.query) IN
  /\ opened.arch = l.of.arch /\ opened.mode = l.of.mode
  /\ text = IF opened.mode = "hex" THEN opened.hex ELSE opened.asm
  /\ ShouldAutoAnalyze(l.query) <=> text # NoText

\* What a tab shows is what was asked of it, and the copy button tells the truth about it.
PageSound ==
  /\ ValuesOK /\ OneAnalysis
  /\ PackOfManifest /\ RequestMatchesPack /\ StaleCacheHarmless
  /\ CopyShownOnSuccess /\ CopiedIsTransient /\ LinksReproduce
=============================================================================
