--------------------------- MODULE OutOfOrderCore ---------------------------
(***************************************************************************)
(* What the back end promises, without queues, ports and cycles: fused     *)
(* uops are issued in program order, their uops execute in any order that  *)
(* respects the data flow, and fused uops retire in program order once     *)
(* their uops have executed. At most Capacity of them are in flight.       *)
(***************************************************************************)
EXTENDS Integers

CONSTANTS
  Length,       (* Length[s]: number of fused uops of stream s.            *)
  Parts,        (* Parts[s][f]: uops of fused uop f that are executed.     *)
  Producers,    (* Producers[s][u]: uops whose results uop u reads.        *)
  IssueMax,     (* Fused uops issued together at most.                     *)
  RetireMax,    (* Fused uops retired together at most.                    *)
  Capacity      (* Fused uops in flight at most.                           *)

VARIABLES
  stream,       (* The instruction stream.                                 *)
  issued,       (* Fused uops 1..issued have been issued.                  *)
  executed,     (* The uops that have executed.                            *)
  retired       (* Fused uops 1..retired have retired.                     *)

coreVars == <<stream, issued, executed, retired>>

Init ==
  /\ stream \in DOMAIN Length
  /\ issued = 0 /\ executed = {} /\ retired = 0

Issue(n) ==
  /\ issued + n <= Length[stream]
  /\ issued + n - retired <= Capacity
  /\ issued' = issued + n
  /\ UNCHANGED <<stream, executed, retired>>

Execute(f, u) ==
  /\ f <= issued
  /\ u \in Parts[stream][f] \ executed
  /\ Producers[stream][u] \subseteq executed
  /\ executed' = executed \cup {u}
  /\ UNCHANGED <<stream, issued, retired>>

Retire(n) ==
  /\ retired + n <= issued
  /\ \A f \in retired + 1 .. retired + n : Parts[stream][f] \subseteq executed
  /\ retired' = retired + n
  /\ UNCHANGED <<stream, issued, executed>>

Next ==
  \/ \E n \in 1..IssueMax : Issue(n)
  \/ \E f \in 1..issued : \E u \in Parts[stream][f] : Execute(f, u)
  \/ \E n \in 1..RetireMax : Retire(n)

Spec == Init /\ [][Next]_coreVars
=============================================================================
