------------------------------- MODULE MCWeb -------------------------------
(***************************************************************************)
(* Two tabs that share a cache, one behind a network that returns anything *)
(* the server ever had, and one whose user edits and copies.               *)
(***************************************************************************)
EXTENDS WebProperties

CONSTANTS t1, t2, SKL, ICL, code, typo, h1, h2

MCAssembled == [s \in Sources |-> CASE s = code -> h1 [] s = typo -> Rejected [] OTHER -> NoText]

\* a bare URL, a complete one, and ones that conflict, cannot be decoded or name an unknown architecture
Bare == [p \in {} |-> None]
PageQueries == {Bare, [hex |-> NoText, asm |-> Encode(NoText)], [uarch |-> ICL, asm |-> NotBase64],
                [uarch |-> None, hex |-> h1], [uarch |-> ICL, asm |-> Encode(code)]}

Shared == [tabs |-> {t1, t2}, texts |-> {code, h1, NoText}, queries |-> {Bare, [uarch |-> ICL, hex |-> h1]}, hasCaches |-> TRUE,
           deployments |-> 1, fetchesStale |-> FALSE, maxEdits |-> 1, maxOpens |-> 2, maxCopies |-> 0]
Network == [Shared EXCEPT !.tabs = {t1}, !.deployments = 2, !.fetchesStale = TRUE, !.maxOpens = 3]
Page == [Shared EXCEPT !.tabs = {t1}, !.texts = {code, typo, h1, h2, NoText}, !.queries = PageQueries, !.hasCaches = FALSE,
                       !.deployments = 0, !.maxEdits = 2, !.maxCopies = 3]
MCSetups == {Shared, Network, Page}
=============================================================================
