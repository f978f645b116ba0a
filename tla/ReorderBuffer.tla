--------------------------- MODULE ReorderBuffer ---------------------------
(***************************************************************************)
(* The reorder buffer (sim/reorder_buffer.rs): fused uops in issue order   *)
(* until they retire.                                                      *)
(***************************************************************************)
EXTENDS UopStorage

CONSTANTS
  IssueWidth,   (* Fused uops issued per cycle at most.                    *)
  RetireWidth,  (* Fused uops retired per cycle at most.                   *)
  RBWidth       (* Capacity of the reorder buffer.                         *)

ASSUME WidthsAssumption ==
  /\ IssueWidth \in Nat \ {0}
  /\ RetireWidth \in Nat \ {0}
  /\ RBWidth \in Nat

(* No batch the renamer issues is larger than the issue width.             *)
ASSUME IssueWidthAssumption ==
  \A s \in DOMAIN Programs : \A l \in DOMAIN Programs[s].lams :
    LET lam == Programs[s].lams[l]
    IN  lam.mid - lam.start <= IssueWidth /\ lam.end - lam.mid <= IssueWidth

VARIABLES
  rob,          (* ReorderBuffer.uops.                                     *)
  retireQueue   (* Retired fused uops the run loop has not drained yet.    *)

robVars == <<rob, retireQueue>>

RobTypeOK == rob \in Seq(Uops) /\ retireQueue \in Seq(Uops)

RobInit == rob = <<>> /\ retireQueue = <<>>

(* Mutant: one free slot is enough for a whole issue group.                *)
ROBFullNoMargin == Len(rob) >= RBWidth

ROBFull == Len(rob) + IssueWidth > RBWidth

(* Mutant: a uop may retire in the cycle it executes in.                   *)
AllExecutedNow(f) ==
  \A u \in UopIds(f) : uop[u].exec # None /\ uop[u].exec <= clock

AllExecuted(f) ==
  \A u \in UopIds(f) : uop[u].exec # None /\ uop[u].exec < clock

(* Retirement pops executed fused uops off the head until one is not       *)
(* executed or RetireWidth of them are gone.                               *)
RetireCount(n) ==
  /\ n <= RetireWidth
  /\ \A i \in 1..n : AllExecuted(rob[i])
  /\ n < RetireWidth /\ n < Len(rob) => ~AllExecuted(rob[n + 1])

RetireUops(n) ==
  /\ RetireCount(n)
  /\ retireQueue' = retireQueue \o SubSeq(rob, 1, n)
  /\ fused' = [f \in Uops |->
                 IF \E i \in 1..n : rob[i] = f
                 THEN [fused[f] EXCEPT !.retired = clock,
                                       !.idx = (CHOOSE i \in 1..n : rob[i] = f) - 1]
                 ELSE fused[f]]

(* Mutant: new uops are put in front of the old ones.                      *)
AfterCycleReversed(n, new) == new \o SubSeq(rob, n + 1, Len(rob))

AfterCycle(n, new) == SubSeq(rob, n + 1, Len(rob)) \o new

(* Uops that need no port are done as soon as they are issued.             *)
AddUops(n, new) ==
  /\ rob' = AfterCycle(n, new)
  /\ uop' = [u \in Uops |->
               IF ~NeedsPort(u) /\ \E i \in DOMAIN new : u \in UopIds(new[i])
               THEN [uop[u] EXCEPT !.exec = clock]
               ELSE uop[u]]

(* ReorderBuffer::cycle.                                                   *)
ReorderBufferCycle(new) ==
  \E n \in 0..Len(rob) : RetireUops(n) /\ AddUops(n, new)
=============================================================================
