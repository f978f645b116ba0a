------------------------------ MODULE Pipeline ------------------------------
(***************************************************************************)
(* One simulation: FrontEnd::cycle (sim/frontend.rs) drives the renamer's  *)
(* issue loop, the reorder buffer and the scheduler once per clock, and    *)
(* the run loop (engine.rs) collects what has retired and decides when to  *)
(* stop. How the front end decodes is not modelled here: it delivers the   *)
(* laminated uops of the stream in order, a few per cycle.                 *)
(***************************************************************************)
EXTENDS ReorderBuffer, Scheduler

CONSTANTS
  IDQWidth,       (* Capacity of the instruction decode queue.             *)
  DSBWidth,       (* Room the queue needs before it is filled.             *)
  DeliverWidth,   (* Laminated uops delivered to the queue in one cycle.   *)
  MaxStalls,      (* Bound: cycles in which the front end delivers nothing *)
                  (* although there is room.                               *)
  MinIterations,  (* Rounds the run loop wants to see retired.             *)
  MinCycles,      (* Cycles the run loop wants to simulate.                *)
  SafetyCap       (* Cycles beyond MinCycles after which it gives up.      *)

ASSUME PipelineAssumption ==
  /\ SchedulerIssueWidth = IssueWidth
  /\ {IDQWidth, DSBWidth, MaxStalls, MinIterations, MinCycles, SafetyCap} \subseteq Nat
  /\ DeliverWidth \in Nat \ {0}

VARIABLES
  idq,        (* Laminated uops waiting to be issued.                      *)
  delivered,  (* How many laminated uops have been put into the idq.       *)
  lastMerge,  (* last_reg_merge_issued: the laminated uop at the head of   *)
              (* the idq when merge uops were issued last.                 *)
  stalls,     (* Stalled cycles so far.                                    *)
  log,        (* uops_for_round: retired fused uops as the run loop drains *)
              (* them.                                                     *)
  rnd         (* Round of the last retired fused uop.                      *)

frontVars == <<idq, delivered, lastMerge, stalls>>
runVars   == <<log, rnd>>
vars == <<storageVars, robVars, loopVars, schedulerVars, frontVars, runVars>>

Lams == DOMAIN prog.lams

PipelineTypeOK ==
  /\ idq \in Seq(Lams) /\ delivered \in 0..Len(prog.lams)
  /\ lastMerge \in Lams \cup {None} /\ stalls \in 0..MaxStalls
  /\ log \in Seq(Uops) /\ rnd \in Nat

(* Every variable holds a value of its type.                               *)
TypeOK == StorageTypeOK /\ RobTypeOK /\ SchedulerTypeOK /\ PipelineTypeOK

Init ==
  /\ StorageInit /\ RobInit /\ SchedulerInit
  /\ idq = <<>> /\ delivered = 0 /\ lastMerge = None /\ stalls = 0
  /\ log = <<>> /\ rnd = 0

-----------------------------------------------------------------------------
(* Renamer::cycle: the issue loop.                                         *)

HeadLam == prog.lams[idq[1]]

(* The merge uops of the instruction laminated uop l is the first one of:  *)
(* they are looked up by the instruction, for its stack synchronisation    *)
(* and once more for the laminated uop behind that.                        *)
MergesOf(l) ==
  LET first == IF l > 1 /\ prog.lams[l - 1].sync THEN prog.lams[l - 1] ELSE prog.lams[l]
  IN  RunOf(first.start, first.mid)

HasMerges == MergesOf(idq[1]) # <<>>

(* Merge uops go ahead of their instruction, in a cycle of their own. What *)
(* is remembered is the head they were issued for, not their instruction.  *)
MustMerge == HasMerges /\ group = <<>> /\ lastMerge # idq[1]

(* Mutant: serializing instructions do not wait.                           *)
NoDrain == TRUE

Drained == HeadLam.serializing => rob = <<>>

MayIssue ==
  /\ ~ROBFull /\ ~SchedulerFull /\ idq # <<>>
  /\ HasMerges => group = <<>>
  /\ MustMerge \/ /\ Drained
                  /\ Len(group) + HeadLam.end - HeadLam.mid <= IssueWidth

IssueLam ==
  /\ phase = "issue" /\ MayIssue /\ ~MustMerge
  /\ group' = group \o RunOf(HeadLam.mid, HeadLam.end)
  /\ idq' = Tail(idq)
  /\ UNCHANGED <<storageVars, robVars, phase, work, wake, held, schedulerVars,
                 delivered, lastMerge, stalls, runVars>>

(* FrontEnd::cycle stamps what the renamer returned.                       *)
MarkIssued(new) ==
  fused' = [f \in Uops |->
    IF \E i \in DOMAIN new : new[i] = f THEN [fused[f] EXCEPT !.issued = clock] ELSE fused[f]]

IssueMerges ==
  /\ phase = "issue" /\ MayIssue /\ MustMerge
  /\ group' = MergesOf(idq[1])
  /\ lastMerge' = idq[1]
  /\ MarkIssued(group')
  /\ phase' = "rob"
  /\ UNCHANGED <<stream, clock, uop, entry, robVars, work, wake, held, schedulerVars,
                 idq, delivered, stalls, runVars>>

EndIssue ==
  /\ phase = "issue" /\ ~MayIssue
  /\ MarkIssued(group)
  /\ phase' = "rob"
  /\ UNCHANGED <<stream, clock, uop, entry, robVars, work, group, wake, held, schedulerVars,
                 frontVars, runVars>>

-----------------------------------------------------------------------------
(* FrontEnd::cycle: reorder buffer, scheduler, idq.                        *)

CycleReorderBuffer ==
  /\ phase = "rob"
  /\ ReorderBufferCycle(group)
  /\ BeginMoveReady
  /\ UNCHANGED <<stream, clock, entry, group, wake, held, rs, portUsage, prevDispatched,
                 readyQueue, front, nonReady, pending, dependents, fence, blocked,
                 frontVars, runVars>>

CycleScheduler == SchedulerNext /\ UNCHANGED <<robVars, frontVars, runVars>>

IdqHasRoom == Len(idq) + DSBWidth <= IDQWidth

Deliver ==
  /\ phase = "fill" /\ IdqHasRoom
  /\ \E n \in 1..DeliverWidth :
       /\ delivered + n <= Len(prog.lams)
       /\ idq' = idq \o RunOf(delivered, delivered + n)
       /\ delivered' = delivered + n
  /\ phase' = "drain"
  /\ UNCHANGED <<storageVars, robVars, work, group, wake, held, schedulerVars, lastMerge,
                 stalls, runVars>>

Stall ==
  /\ phase = "fill" /\ IdqHasRoom
  /\ stalls < MaxStalls /\ delivered < Len(prog.lams)
  /\ stalls' = stalls + 1
  /\ phase' = "drain"
  /\ UNCHANGED <<storageVars, robVars, work, group, wake, held, schedulerVars,
                 idq, delivered, lastMerge, runVars>>

(* The idq is full, or the bounded stream has been delivered completely.   *)
NoFill ==
  /\ phase = "fill"
  /\ ~IdqHasRoom \/ delivered = Len(prog.lams)
  /\ phase' = "drain"
  /\ UNCHANGED <<storageVars, robVars, work, group, wake, held, schedulerVars,
                 frontVars, runVars>>

-----------------------------------------------------------------------------
(* run_simulation_for_cycles: drain_retire_queue, then the stop test.      *)

RoundAfterDrain ==
  IF retireQueue = <<>> THEN rnd ELSE prog.round[retireQueue[Len(retireQueue)]]

EnoughSimulated == RoundAfterDrain >= MinIterations /\ clock > MinCycles

Drain ==
  /\ log' = log \o retireQueue
  /\ retireQueue' = <<>>
  /\ rnd' = RoundAfterDrain

Tick ==
  /\ phase = "drain" /\ ~EnoughSimulated
  /\ Drain
  /\ clock' = clock + 1
  /\ phase' = IF clock + 1 > MinCycles + SafetyCap THEN "done" ELSE "issue"
  /\ UNCHANGED <<stream, uop, fused, entry, rob, work, group, wake, held, schedulerVars,
                 frontVars>>

Stop ==
  /\ phase = "drain" /\ EnoughSimulated
  /\ Drain
  /\ phase' = "done"
  /\ UNCHANGED <<storageVars, rob, work, group, wake, held, schedulerVars, frontVars>>

Done == phase = "done" /\ UNCHANGED vars

Next ==
  \/ IssueLam \/ IssueMerges \/ EndIssue
  \/ CycleReorderBuffer \/ CycleScheduler
  \/ Deliver \/ Stall \/ NoFill
  \/ Tick \/ Stop \/ Done

(* The simulation is one sequential loop: as long as it is not done it     *)
(* takes its next step.                                                    *)
Spec == Init /\ [][Next]_vars /\ WF_vars(Next)
=============================================================================
