----------------------------- MODULE Scheduler -----------------------------
(***************************************************************************)
(* The scheduler (sim/scheduler.rs): port assignment, the queues a uop     *)
(* passes through from issue to execution, and the memory fences.          *)
(*                                                                         *)
(* Scheduler::cycle is a fixed sequence of loops over lists. Each loop is  *)
(* a value of  phase,  the list it runs over is copied to  work  when the  *)
(* loop is entered, and every iteration is one step, so that what one      *)
(* iteration writes is seen by the next one as in the code. A list that a  *)
(* loop filters in place (non_ready_uops, pending_uops) is emptied on      *)
(* entry and the elements that stay are appended again.                    *)
(***************************************************************************)
EXTENDS UopStorage

CONSTANTS
  RSWidth,             (* Capacity the issue stage checks before issuing.  *)
  SchedulerIssueWidth, (* arch.issue_width.                                *)
  IssueDispatchDelay,  (* Cycles from issue to the earliest dispatch.      *)
  Slow256BitMemAcc     (* 256-bit accesses occupy their port for longer.   *)

ASSUME SchedulerAssumption ==
  /\ RSWidth \in Nat
  /\ SchedulerIssueWidth \in Nat
  /\ IssueDispatchDelay \in Nat
  /\ Slow256BitMemAcc \in BOOLEAN

VARIABLES
  phase,           (* The loop FrontEnd::cycle is in.                      *)
  work,            (* What that loop still has to visit.                   *)
  group,           (* Fused uops issued in this cycle, not yet visited.    *)
  wake,            (* Dependents of the uops that finished in this cycle.  *)
  held,            (* Ports that may not dispatch in this cycle.           *)
  rs,              (* uops: assigned a port, not dispatched.               *)
  portUsage,       (* Uops assigned to each port and not yet released.     *)
  prevDispatched,  (* uops_dispatched_in_prev_cycle.                       *)
  readyQueue,      (* Contents of the ready queues and of ready_div_uops.  *)
  front,           (* Element 0 of the two vectors compared for port 0.    *)
  readyInCycle,    (* uops_ready_in_cycle.                                 *)
  nonReady,        (* non_ready_uops.                                      *)
  pending,         (* pending_uops: dispatched, execution not yet known.   *)
  dependents,      (* dependent_uops.                                      *)
  fence,           (* Pending fences and the accesses since the last one.  *)
  blocked          (* blocked_resources: remaining cycles.                 *)

loopVars  == <<phase, work, group, wake, held>>
queueVars == <<rs, portUsage, prevDispatched, readyQueue, front, readyInCycle,
               nonReady, pending, dependents>>
schedulerVars == <<queueVars, fence, blocked>>

DivQueue   == -1
Queues     == Ports \cup {DivQueue}

LoopTypeOK ==
  /\ phase \in {"issue", "rob", "ready", "add", "dispatch", "pending", "wake",
                "nonReady", "fences", "fill", "drain", "done"}
  /\ phase = "dispatch" => work \in Seq(Ports)
  /\ phase # "dispatch" => work \in Seq(Uops)
  /\ group \in Seq(Uops) /\ wake \in Seq(Uops)
  /\ held \in SUBSET Ports

QueueTypeOK ==
  /\ rs \in SUBSET Uops
  /\ portUsage \in [Ports -> Nat]
  /\ prevDispatched \in SUBSET Uops
  /\ readyQueue \in [Queues -> SUBSET Uops]
  /\ front \in [{0, DivQueue} -> Uops \cup {None}]
  /\ DOMAIN readyInCycle \in SUBSET Nat
  /\ \A c \in DOMAIN readyInCycle : readyInCycle[c] \in Seq(Uops)
  /\ nonReady \in Seq(Uops) /\ pending \in Seq(Uops)
  /\ dependents \in [Uops -> Seq(Uops)]

SchedulerTypeOK ==
  /\ LoopTypeOK /\ QueueTypeOK
  /\ fence \in [FenceKinds -> [pending : Seq(Uops), since : SUBSET Uops]]
  /\ blocked \in [div : Nat, port : [Ports -> Nat], instr : [InstrStrs -> Nat]]

SchedulerInit ==
  /\ phase = "issue" /\ work = <<>> /\ group = <<>> /\ wake = <<>> /\ held = {}
  /\ rs = {}
  /\ portUsage = [p \in Ports |-> 0]
  /\ prevDispatched = {}
  /\ readyQueue = [q \in Queues |-> {}]
  /\ front = [q \in {0, DivQueue} |-> None]
  /\ readyInCycle = [c \in {} |-> <<>>]
  /\ nonReady = <<>> /\ pending = <<>>
  /\ dependents = [u \in Uops |-> <<>>]
  /\ fence = [k \in FenceKinds |-> [pending |-> <<>>, since |-> {}]]
  /\ blocked = [div |-> 0, port |-> [p \in Ports |-> 0], instr |-> [s \in InstrStrs |-> 0]]

SchedulerFull == Cardinality(rs) + SchedulerIssueWidth > RSWidth

Contains(s, u) == \E i \in DOMAIN s : s[i] = u

AppendNew(s, u) == IF Contains(s, u) THEN s ELSE Append(s, u)

Current == Head(work)

Advance == work' = Tail(work)

EnterLoop(next, list) == phase' = next /\ work' = list

-----------------------------------------------------------------------------
(* cycle, step 1: uops that become ready in this cycle enter the queue of  *)
(* their port, uops that use the divider enter a queue of their own.       *)

QueueOf(u) == IF prog.uops[u].div > 0 THEN DivQueue ELSE uop[u].port

BeginMoveReady ==
  LET here == IF clock \in DOMAIN readyInCycle THEN readyInCycle[clock] ELSE <<>>
  IN  /\ EnterLoop("ready", here)
      /\ readyInCycle' = [c \in DOMAIN readyInCycle \ {clock} |-> readyInCycle[c]]

MoveReadyUop ==
  /\ phase = "ready" /\ work # <<>>
  /\ LET q == QueueOf(Current)
     IN  /\ readyQueue' = [readyQueue EXCEPT ![q] = @ \cup {Current}]
         /\ front' = IF q \in DOMAIN front /\ readyQueue[q] = {}
                     THEN [front EXCEPT ![q] = Current]
                     ELSE front
  /\ Advance
  /\ UNCHANGED <<storageVars, phase, group, wake, held, rs, portUsage, prevDispatched,
                 readyInCycle, nonReady, pending, dependents, fence, blocked>>

EndMoveReady ==
  /\ phase = "ready" /\ work = <<>>
  /\ phase' = "add"
  /\ UNCHANGED <<storageVars, work, group, wake, held, schedulerVars>>

-----------------------------------------------------------------------------
(* A uop with an input whose producer has not executed waits for the first *)
(* such producer; any other uop can be checked for readiness.              *)

WaitsFor(u, i) ==
  /\ InputReady(u, i) = None
  /\ uop[prog.uops[u].inputs[i].uop].exec = None

CheckDependingUopsExecuted(u) ==
  LET inputs  == prog.uops[u].inputs
      waiting == {i \in DOMAIN inputs : WaitsFor(u, i)}
  IN  \/ /\ waiting = {}
         /\ nonReady' = AppendNew(nonReady, u)
         /\ UNCHANGED dependents
      \/ \E i \in waiting :
           /\ \A j \in waiting : i <= j
           /\ dependents' = [dependents EXCEPT ![inputs[i].uop] = AppendNew(@, u)]
           /\ UNCHANGED nonReady

(* add_new_uops visits the unfused uops of the issued group in order.      *)
VisitFused ==
  /\ phase = "add" /\ work = <<>> /\ group # <<>>
  /\ work' = prog.fused[Head(group)]
  /\ group' = Tail(group)
  /\ UNCHANGED <<storageVars, phase, wake, held, schedulerVars>>

SkipUop ==
  /\ phase = "add" /\ work # <<>>
  /\ ~NeedsPort(Current)
  /\ Advance
  /\ UNCHANGED <<storageVars, phase, group, wake, held, schedulerVars>>

(* The three select_port functions all return one of the possible ports;   *)
(* which one is left open here.                                            *)
PushFences(u) ==
  fence' = [k \in FenceKinds |->
              IF prog.uops[u].first /\ k \in prog.uops[u].fences
              THEN [fence[k] EXCEPT !.pending = Append(@, u)]
              ELSE fence[k]]

AddNewUop ==
  /\ phase = "add" /\ work # <<>>
  /\ NeedsPort(Current)
  /\ \E p \in prog.uops[Current].ports :
       /\ uop' = [uop EXCEPT ![Current].port = p]
       /\ portUsage' = [portUsage EXCEPT ![p] = @ + 1]
  /\ rs' = rs \cup {Current}
  /\ CheckDependingUopsExecuted(Current)
  /\ PushFences(Current)
  /\ Advance
  /\ UNCHANGED <<stream, clock, fused, entry, phase, group, wake, held, prevDispatched,
                 readyQueue, front, readyInCycle, pending, blocked>>

-----------------------------------------------------------------------------
(* dispatch_uops: every port takes the oldest uop of its queue.            *)

Oldest(S) ==
  CHOOSE u \in S : \A v \in S : prog.uops[u].queueIdx <= prog.uops[v].queueIdx

(* Mutant: the dispatched uop is copied out of the queue, not removed.     *)
NothingRemoved(S) == S

AllButOldest(S) == S \ {Oldest(S)}

(* Two stores may be dispatched together only if they write one cache line,*)
(* on some microarchitectures two 256-bit loads not at all: the younger of *)
(* the two heads holds its port.                                           *)
HeldPorts ==
  LET both(p, q) == {p, q} \subseteq Ports /\ readyQueue[p] # {} /\ readyQueue[q] # {}
      head(p)    == prog.uops[Oldest(readyQueue[p])]
      younger(p, q) == IF Oldest(readyQueue[p]) < Oldest(readyQueue[q]) THEN {q} ELSE {p}
      line(p)    == prog.uops[head(p).entry].disp
      keyed(p)   == head(p).entry # None /\ line(p) # None
      far(p, q)  == line(p) - line(q) >= 64 \/ line(q) - line(p) >= 64
      wide(p)    == head(p).kind = "load" /\ head(p).m256
      stores == IF both(4, 9) /\ keyed(4) /\ keyed(9) /\ far(4, 9) THEN younger(4, 9) ELSE {}
      loads  == IF Slow256BitMemAcc /\ both(2, 3) /\ wide(2) /\ wide(3)
                THEN younger(2, 3) ELSE {}
  IN  stores \cup loads

BeginDispatch ==
  /\ phase = "add" /\ work = <<>> /\ group = <<>>
  /\ EnterLoop("dispatch", AllPorts)
  /\ held' = HeldPorts
  /\ UNCHANGED <<storageVars, group, wake, schedulerVars>>

(* Mutant: the divider queue is used while the divider is busy.            *)
UseDivQueueWhileBusy ==
  /\ readyQueue[DivQueue] # {}
  /\ \/ readyQueue[0] = {}
     \/ prog.uops[front[DivQueue]].queueIdx < prog.uops[front[0]].queueIdx

(* The divider queue is compared with the queue of port 0 by the elements  *)
(* that happen to be first in the two vectors, which are sorted only when  *)
(* something is taken out of them.                                         *)
UseDivQueue ==
  /\ blocked.div = 0
  /\ readyQueue[DivQueue] # {}
  /\ \/ readyQueue[0] = {}
     \/ prog.uops[front[DivQueue]].queueIdx < prog.uops[front[0]].queueIdx

SourceQueue(p) == IF p = 0 /\ UseDivQueue THEN DivQueue ELSE p

(* Mutant: ports are not taken out of applicable_ports.                    *)
CanDispatchHeld(p) == blocked.port[p] = 0 /\ readyQueue[SourceQueue(p)] # {}

CanDispatch(p) ==
  p \notin held /\ blocked.port[p] = 0 /\ readyQueue[SourceQueue(p)] # {}

DispatchUop ==
  /\ phase = "dispatch" /\ work # <<>> /\ CanDispatch(Current)
  /\ LET q    == SourceQueue(Current)
         u    == Oldest(readyQueue[q])
         rest == AllButOldest(readyQueue[q])
     IN  /\ uop' = [uop EXCEPT ![u].disp = clock]
         /\ readyQueue' = [readyQueue EXCEPT ![q] = rest]
         /\ front' = IF q \in DOMAIN front
                     THEN [front EXCEPT ![q] = IF rest = {} THEN None ELSE Oldest(rest)]
                     ELSE front
         /\ rs' = rs \ {u}
         /\ pending' = AppendNew(pending, u)
         /\ blocked' = [blocked EXCEPT
              !.div = @ + prog.uops[u].div,
              !.port = IF Slow256BitMemAcc /\ Current = 4 /\ prog.uops[u].m256
                       THEN [@ EXCEPT ![4] = 2] ELSE @]
  /\ Advance
  /\ UNCHANGED <<stream, clock, fused, entry, phase, group, wake, held, portUsage,
                 prevDispatched, readyInCycle, nonReady, dependents, fence>>

IdlePort ==
  /\ phase = "dispatch" /\ work # <<>> /\ ~CanDispatch(Current)
  /\ Advance
  /\ UNCHANGED <<storageVars, phase, group, wake, held, schedulerVars>>

(* Mutant: uops_dispatched_in_prev_cycle keeps growing.                    *)
DispatchedSoFar == {u \in Uops : uop[u].disp # None}

DispatchedNow == {u \in Uops : uop[u].disp = clock}

(* The port usage counters go down one cycle after the dispatch.           *)
EndDispatch ==
  /\ phase = "dispatch" /\ work = <<>>
  /\ portUsage' = [p \in Ports |->
       LET released == Cardinality({u \in prevDispatched : uop[u].port = p})
       IN  IF released <= portUsage[p] THEN portUsage[p] - released ELSE 0]
  /\ prevDispatched' = DispatchedNow
  /\ EnterLoop("pending", pending)
  /\ pending' = <<>> /\ wake' = <<>>
  /\ UNCHANGED <<storageVars, group, held, rs, readyQueue, front, readyInCycle,
                 nonReady, dependents, fence, blocked>>

-----------------------------------------------------------------------------
(* process_pending_uops: a dispatched uop whose results have a known cycle *)
(* gets its execution cycle; a load that waits for a store stays.          *)

(* Mutant: a load that reads a store does not stay pending.                *)
ResultsKnownAtOnce(u) == TRUE

ResultsKnown(u) == \A lat \in prog.uops[u].outputs : ResultReady(u, lat) # None

FinishTimes(u) ==
  LET props == prog.uops[u]
      d     == uop[u].disp
  IN  {d + 2} \cup {ResultReady(u, lat) : lat \in props.outputs}
        \cup (IF props.first /\ props.tp # None THEN {d + props.tp} ELSE {})
        \cup (IF props.kind = "sta" THEN {d + 5} ELSE {})
        \cup (IF props.kind = "std" THEN {d + 1} ELSE {})

(* Mutant: the dependents of a finished uop are dropped.                   *)
WokenByNobody(u) == wake

WokenBy(u) == wake \o dependents[u]

FinishPendingUop ==
  /\ phase = "pending" /\ work # <<>> /\ ResultsKnown(Current)
  /\ LET props == prog.uops[Current]
         d     == uop[Current].disp
     IN  entry' = CASE props.kind = "sta" -> [entry EXCEPT ![props.entry].addr = d + 5]
                    [] props.kind = "std" /\ props.entry # None ->
                         [entry EXCEPT ![props.entry].data = d + 1]
                    [] OTHER -> entry
  /\ \E t \in FinishTimes(Current) :
       /\ IsLatest(t, FinishTimes(Current))
       /\ uop' = [uop EXCEPT ![Current].exec = t]
  /\ wake' = WokenBy(Current)
  /\ dependents' = [dependents EXCEPT ![Current] = <<>>]
  /\ Advance
  /\ UNCHANGED <<stream, clock, fused, phase, group, held, rs, portUsage, prevDispatched,
                 readyQueue, front, readyInCycle, nonReady, pending, fence, blocked>>

KeepPendingUop ==
  /\ phase = "pending" /\ work # <<>> /\ ~ResultsKnown(Current)
  /\ pending' = Append(pending, Current)
  /\ Advance
  /\ UNCHANGED <<storageVars, phase, group, wake, held, rs, portUsage, prevDispatched,
                 readyQueue, front, readyInCycle, nonReady, dependents, fence, blocked>>

EndPending ==
  /\ phase = "pending" /\ work = <<>>
  /\ EnterLoop("wake", wake)
  /\ wake' = <<>>
  /\ UNCHANGED <<storageVars, group, held, schedulerVars>>

WakeDependent ==
  /\ phase = "wake" /\ work # <<>>
  /\ CheckDependingUopsExecuted(Current)
  /\ Advance
  /\ UNCHANGED <<storageVars, phase, group, wake, held, rs, portUsage, prevDispatched,
                 readyQueue, front, readyInCycle, pending, fence, blocked>>

-----------------------------------------------------------------------------
(* process_non_ready_uops and check_uop_ready.                             *)

BeginNonReady ==
  /\ phase = "wake" /\ work = <<>>
  /\ EnterLoop("nonReady", nonReady)
  /\ nonReady' = <<>>
  /\ UNCHANGED <<storageVars, group, wake, held, rs, portUsage, prevDispatched, readyQueue,
                 front, readyInCycle, pending, dependents, fence, blocked>>

(* Mutant: a dispatched access counts as performed.                        *)
NotDispatched(u) == uop[u].disp = None

Outstanding(u) == uop[u].exec = None \/ uop[u].exec > clock

(* Mutant: a fence does not wait for its turn.                             *)
FenceMayOvertake(k, u) == \A v \in fence[k].since : ~Outstanding(v)

FenceMayStart(k, u) ==
  /\ fence[k].pending # <<>> /\ Head(fence[k].pending) = u
  /\ \A v \in fence[k].since : ~Outstanding(v)

FencedOff(k, u) == fence[k].pending # <<>> /\ Head(fence[k].pending) < u

Accesses(u) ==
  {k \in FenceKinds : \/ k = "load" /\ prog.uops[u].kind = "load"
                      \/ k = "store" /\ prog.uops[u].kind \in {"sta", "std"}}

(* A fence of both kinds is only checked as a load fence.                  *)
FenceKind(u) == IF "load" \in prog.uops[u].fences THEN "load" ELSE "store"

FencesAllow(u) ==
  IF prog.uops[u].fences = {} THEN \A k \in Accesses(u) : ~FencedOff(k, u)
  ELSE prog.uops[u].first => FenceMayStart(FenceKind(u), u)

InputsKnown(u) == \A i \in DOMAIN prog.uops[u].inputs : InputReady(u, i) # None

OperandTimes(u) == {0} \cup {InputReady(u, i) : i \in DOMAIN prog.uops[u].inputs}

EarliestDispatch(u, operands) ==
  LET earliest == fused[prog.uops[u].fused].issued + IssueDispatchDelay
  IN  IF operands < earliest THEN earliest
      ELSE IF operands <= earliest + 1 THEN operands + 1
      ELSE operands

(* Mutant: the cycle a uop becomes ready in may have passed.               *)
ReadyForDispatchEver(u, operands) == EarliestDispatch(u, operands)

ReadyForDispatchCycle(u, operands) == Max2(EarliestDispatch(u, operands), clock + 1)

Checks(u) ==
  /\ uop[u].ready = None
  /\ FencesAllow(u)
  /\ prog.uops[u].first => blocked.instr[prog.uops[u].instr] = 0
  /\ InputsKnown(u)

MakeReady ==
  /\ phase = "nonReady" /\ work # <<>> /\ Checks(Current)
  /\ \E t \in OperandTimes(Current) :
       /\ IsLatest(t, OperandTimes(Current))
       /\ LET ready == ReadyForDispatchCycle(Current, t)
              there == IF ready \in DOMAIN readyInCycle THEN readyInCycle[ready] ELSE <<>>
          IN  /\ uop' = [uop EXCEPT ![Current].ready = ready]
              /\ readyInCycle' = [c \in DOMAIN readyInCycle \cup {ready} |->
                   IF c = ready THEN AppendNew(there, Current) ELSE readyInCycle[c]]
  /\ LET props == prog.uops[Current]
     IN  blocked' = IF props.first /\ props.tp # None
                    THEN [blocked EXCEPT !.instr[props.instr] = props.tp]
                    ELSE blocked
  /\ fence' = [k \in FenceKinds |->
       IF k \in Accesses(Current) THEN [fence[k] EXCEPT !.since = @ \cup {Current}]
       ELSE fence[k]]
  /\ Advance
  /\ UNCHANGED <<stream, clock, fused, entry, phase, group, wake, held, rs, portUsage,
                 prevDispatched, readyQueue, front, nonReady, pending, dependents>>

StayNonReady ==
  /\ phase = "nonReady" /\ work # <<>> /\ ~Checks(Current)
  /\ nonReady' = IF uop[Current].ready # None THEN nonReady ELSE Append(nonReady, Current)
  /\ Advance
  /\ UNCHANGED <<storageVars, phase, group, wake, held, rs, portUsage, prevDispatched,
                 readyQueue, front, readyInCycle, pending, dependents, fence, blocked>>

EndNonReady ==
  /\ phase = "nonReady" /\ work = <<>>
  /\ phase' = "fences"
  /\ UNCHANGED <<storageVars, work, group, wake, held, schedulerVars>>

-----------------------------------------------------------------------------
(* process_pending_fences pops the executed fences off the head of each    *)
(* queue; every pop forgets the accesses the fence had to wait for.        *)
(* update_blocked_resources then lets one cycle pass.                      *)

PoppedFences(k, n) ==
  LET queue == fence[k].pending
  IN  /\ \A i \in 1..n : ~Outstanding(queue[i])
      /\ n < Len(queue) => Outstanding(queue[n + 1])

(* Mutant: the counter wraps instead of saturating.                        *)
Less1Always(n) == n - 1

Less1(n) == IF n > 0 THEN n - 1 ELSE 0

ProcessPendingFences ==
  \E n \in [FenceKinds -> 0..NumUops] :
    /\ \A k \in FenceKinds : n[k] <= Len(fence[k].pending) /\ PoppedFences(k, n[k])
    /\ fence' = [k \in FenceKinds |->
         [pending |-> SubSeq(fence[k].pending, n[k] + 1, Len(fence[k].pending)),
          since   |-> IF n[k] > 0 THEN {} ELSE fence[k].since]]

UpdateBlockedResources ==
  blocked' = [div   |-> Less1(blocked.div),
              port  |-> [p \in Ports |-> Less1(blocked.port[p])],
              instr |-> [s \in InstrStrs |-> Less1(blocked.instr[s])]]

EndSchedulerCycle ==
  /\ phase = "fences"
  /\ ProcessPendingFences
  /\ UpdateBlockedResources
  /\ phase' = "fill"
  /\ UNCHANGED <<storageVars, work, group, wake, held, queueVars>>

SchedulerNext ==
  \/ MoveReadyUop \/ EndMoveReady
  \/ VisitFused \/ SkipUop \/ AddNewUop
  \/ BeginDispatch \/ DispatchUop \/ IdlePort \/ EndDispatch
  \/ FinishPendingUop \/ KeepPendingUop \/ EndPending \/ WakeDependent
  \/ BeginNonReady \/ MakeReady \/ StayNonReady \/ EndNonReady
  \/ EndSchedulerCycle
=============================================================================
