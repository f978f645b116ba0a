------------------------- MODULE PipelineProperties -------------------------
(***************************************************************************)
(* What the back end promises about every simulation.                      *)
(***************************************************************************)
EXTENDS Pipeline

Issued(f)  == fused[f].issued # None
Retired(f) == fused[f].retired # None

BetweenCycles == phase = "issue" /\ group = <<>>

(* The properties are about streams in which no instruction with register  *)
(* merges is synchronised. Such an instruction has its merge uops issued   *)
(* twice (run merges_twice): the code stamps, logs and counts them again   *)
(* and rewrites their operands, so that none of what follows holds.        *)
ASSUME MergesAssumption ==
  \A s \in DOMAIN Programs : \A l \in DOMAIN Programs[s].lams :
    Programs[s].lams[l].sync => Programs[s].lams[l].start = Programs[s].lams[l].mid

(* Fused uops retire in program order, each exactly once, and their        *)
(* retirement stamps (retired, retire_idx) follow that order: retire_uops  *)
(* only ever takes the head of the reorder buffer and the renamer fills it *)
(* in the order of the idq. (Under MergesAssumption: merge uops issued a   *)
(* second time retire a second time.)                                      *)
RetireInOrder ==
  /\ log = RunOf(0, Len(log))
  /\ \A f \in 2..NumUops : Retired(f) =>
       /\ Retired(f - 1)
       /\ \/ fused[f - 1].retired < fused[f].retired
          \/ /\ fused[f - 1].retired = fused[f].retired
             /\ fused[f - 1].idx < fused[f].idx

(* A fused uop retires strictly after all its uops have executed, and a    *)
(* uop executes after it was dispatched, is dispatched no earlier than it  *)
(* was ready, and is ready no earlier than the issue delay allows.         *)
LifecycleOrdered ==
  \A f \in Stream : \A u \in UopIds(f) :
    /\ uop[u].ready # None => fused[f].issued + IssueDispatchDelay <= uop[u].ready
    /\ uop[u].disp # None => uop[u].ready # None /\ uop[u].ready <= uop[u].disp
    /\ NeedsPort(u) /\ uop[u].exec # None => uop[u].disp # None /\ uop[u].disp < uop[u].exec
    /\ Retired(f) => uop[u].exec # None /\ uop[u].exec < fused[f].retired

(* A uop is dispatched only when all its inputs are available, which for a *)
(* value loaded from the store buffer means: not before the store's        *)
(* address and data. The scheduler decides this when it checks the uop,    *)
(* cycles before the dispatch.                                             *)
DataflowRespected ==
  \A u \in Uops : uop[u].disp # None =>
    \A i \in DOMAIN prog.uops[u].inputs :
      LET o == prog.uops[u].inputs[i]
          e == prog.uops[o.uop].entry
      IN  /\ uop[o.uop].disp # None /\ uop[o.uop].disp + o.lat <= uop[u].disp
          /\ prog.uops[o.uop].kind = "load" /\ e # None =>
               /\ entry[e].addr # None /\ entry[e].addr + 4 <= uop[u].disp
               /\ entry[e].data # None /\ entry[e].data + 4 <= uop[u].disp

(* The places in which the scheduler may keep a uop between two cycles.    *)
Places(u) ==
  {<<"dependent", s>> : s \in {v \in Uops : Contains(dependents[v], u) /\ uop[v].exec = None}}
  \cup {<<"non ready", i>> : i \in {j \in DOMAIN nonReady : nonReady[j] = u}}
  \cup {<<"ready in", c>> : c \in {d \in DOMAIN readyInCycle :
                                     d >= clock /\ Contains(readyInCycle[d], u)}}
  \cup {<<"ready", q>> : q \in {p \in Queues : u \in readyQueue[p]}}
  \cup {<<"pending", i>> : i \in {j \in DOMAIN pending : pending[j] = u}}
  \cup (IF uop[u].exec # None THEN {<<"executed", u>>} ELSE {})

(* No uop is lost or duplicated on its way through the scheduler: between  *)
(* cycles every issued uop that needs a port has executed or is in exactly *)
(* one list that a later cycle looks at, in particular it waits only for   *)
(* producers that have not executed and never for a cycle that has passed. *)
TrackedOnce ==
  BetweenCycles =>
    \A f \in Stream : \A u \in UopIds(f) :
      Issued(f) /\ NeedsPort(u) => Cardinality(Places(u)) = 1

(* The port usage counters the port assignment balances by are exact: the  *)
(* uops assigned to a port and not dispatched, and those dispatched in the *)
(* previous cycle.                                                         *)
PortUsageExact ==
  BetweenCycles =>
    \A p \in Ports :
      portUsage[p] = Cardinality({u \in rs \cup prevDispatched : uop[u].port = p})

(* A port executes at most one uop per cycle, also when port 0 chooses     *)
(* between its own queue and the divider queue. (The code never checks     *)
(* that a uop that needs the divider was assigned port 0; the property is  *)
(* about streams in which it has no other port.)                           *)
OneUopPerPort ==
  \A u, v \in Uops :
    u # v /\ uop[u].disp # None /\ uop[u].disp = uop[v].disp => uop[u].port # uop[v].port

(* While the divider is occupied no other uop that needs it is dispatched. *)
DividerExclusive ==
  \A u, v \in Uops :
    /\ u # v /\ uop[u].disp # None /\ uop[v].disp # None
    /\ prog.uops[u].div > 0 /\ prog.uops[v].div > 0 /\ uop[u].disp <= uop[v].disp
    => uop[v].disp >= uop[u].disp + prog.uops[u].div

(* Execution units are never given two uops at once, though several queues *)
(* feed a port and one divider serves several ports.                       *)
UnitsExclusive == OneUopPerPort /\ DividerExclusive

(* The streams the properties of the units are about: the divider is a     *)
(* part of port 0, and where 256-bit accesses are slow loads have ports 2  *)
(* and 3 only.                                                             *)
DividerOnPort0 ==
  \A s \in DOMAIN Programs : \A u \in Uops :
    Programs[s].uops[u].div > 0 => Programs[s].uops[u].ports \subseteq {0}

LoadsOnTwoPorts ==
  Slow256BitMemAcc => \A s \in DOMAIN Programs : \A u \in Uops :
    Programs[s].uops[u].kind = "load" => Programs[s].uops[u].ports \subseteq {2, 3}

(* The reorder buffer never holds more than rb_width fused uops, although  *)
(* its fill level is tested before the size of the issued group is known.  *)
ROBWithinCapacity == Len(rob) <= RBWidth

(* Loads and stores younger than a fence are not dispatched before the     *)
(* fence has executed, whatever order they become ready in.                *)
FencesHoldYounger ==
  \A f, u \in Uops :
    /\ prog.uops[f].first /\ NeedsPort(f) /\ f < u /\ prog.uops[u].fences = {}
    /\ Accesses(u) \cap prog.uops[f].fences # {}
    /\ uop[u].disp # None
    => uop[f].exec # None /\ uop[f].exec < uop[u].disp

(* A serializing instruction is issued only after everything issued in     *)
(* earlier cycles has retired.                                             *)
SerializingDrains ==
  \A l \in Lams : prog.lams[l].serializing =>
    LET f == prog.lams[l].mid + 1
    IN  Issued(f) => \A g \in Stream : Issued(g) /\ fused[g].issued < fused[f].issued =>
                       Retired(g) /\ fused[g].retired < fused[f].issued

(* A cycle stamp, once written, never changes: each uop becomes ready, is  *)
(* dispatched and executes once, each fused uop is issued and retires once.*)
StampsWrittenOnce ==
  [][/\ \A u \in Uops :
          /\ uop[u].ready # None => uop'[u].ready = uop[u].ready
          /\ uop[u].disp # None  => uop'[u].disp = uop[u].disp
          /\ uop[u].exec # None  => uop'[u].exec = uop[u].exec
     /\ \A f \in Uops :
          /\ Issued(f)  => fused'[f].issued = fused[f].issued
          /\ Retired(f) => fused'[f].retired = fused[f].retired]_vars

(* When the run loop stops because enough rounds have retired, every round *)
(* before the last one is complete: the throughput is computed from the    *)
(* rounds up to uops_for_round.len() - 2.                                  *)
RelevantRoundsComplete ==
  phase = "done" =>
    \A f \in Stream : prog.round[f] < rnd => \E i \in DOMAIN log : log[i] = f

(* Nobody waits forever: the run loop stops because enough rounds have     *)
(* retired, and the safety cap is never what ends it.                      *)
EnoughRoundsRetire == <>(phase = "done" /\ rnd >= MinIterations)

(* Fences of one kind execute one after the other, in program order.       *)
FencesInOrder ==
  \A f, g \in Uops :
    /\ f < g /\ NeedsPort(f) /\ NeedsPort(g)
    /\ prog.uops[f].first /\ prog.uops[g].first /\ prog.uops[g].fences # {}
    /\ FenceKind(g) \in prog.uops[f].fences
    /\ uop[g].disp # None
    => uop[f].exec # None /\ uop[f].exec < uop[g].disp

(* No access is executed on the wrong side of a fence in front of it, and  *)
(* no fence before one in front of it.                                     *)
FencesRespected == FencesHoldYounger /\ FencesInOrder

(* The oldest fence of its kind becomes ready only after every older access*)
(* the scheduler had made ready before it has executed. (Older accesses    *)
(* that are still waiting for their operands do not hold it back.)         *)
FenceWaitsForAccesses ==
  [][\A f \in Uops :
       /\ prog.uops[f].first /\ prog.uops[f].fences # {}
       /\ \A g \in 1..(f - 1) : prog.uops[g].fences = {}
       /\ uop[f].ready = None /\ uop'[f].ready # None
       => \A u \in 1..(f - 1) :
            FenceKind(f) \in Accesses(u) /\ uop[u].ready # None =>
              uop[u].exec # None /\ uop[u].exec <= clock]_vars

(* Two stores dispatched in one cycle write one cache line if both         *)
(* addresses have a key, and where 256-bit accesses are slow two 256-bit   *)
(* loads never start together and port 4 rests for a cycle after a 256-bit *)
(* store.                                                                  *)
PairedAccesses ==
  \A u, v \in Uops :
    u # v /\ uop[u].disp # None /\ uop[v].disp # None =>
      LET a == prog.uops[u]
          b == prog.uops[v]
          together == uop[u].disp = uop[v].disp
          keyed(x) == x.entry # None /\ prog.uops[x.entry].disp # None
      IN  /\ /\ together /\ uop[u].port = 4 /\ uop[v].port = 9
             /\ a.kind = "std" /\ b.kind = "std" /\ keyed(a) /\ keyed(b)
             => prog.uops[a.entry].disp - prog.uops[b.entry].disp \in -63..63
          /\ Slow256BitMemAcc =>
               /\ together /\ a.kind = "load" /\ b.kind = "load" => ~(a.m256 /\ b.m256)
               /\ /\ uop[u].port = 4 /\ uop[v].port = 4 /\ a.m256
                  /\ uop[u].disp < uop[v].disp
                  => uop[v].disp > uop[u].disp + 1

-----------------------------------------------------------------------------
(* The back end implements the abstract core. A fused uop counts as issued *)
(* when FrontEnd::cycle has stamped it, a uop as executed when its         *)
(* execution cycle is known.                                               *)

CoreLength    == [s \in DOMAIN Streams |-> Streams[s].lams[Len(Streams[s].lams)].end]
CoreParts     == [s \in DOMAIN Streams |-> [f \in Uops |->
                    {u \in Uops : UsesPort(Streams[s], u) /\ Streams[s].uops[u].fused = f}]]

(* A uop reads the results of its operands, a load that reads a store also *)
(* what the uops of that store have written. (A load without a result, a   *)
(* prefetch, waits for no store.)                                          *)
ReadsStore(p, u, v) ==
  /\ p.uops[u].kind = "load" /\ p.uops[u].entry # None /\ p.uops[u].outputs # {}
  /\ p.uops[v].kind \in {"sta", "std"} /\ p.uops[v].entry = p.uops[u].entry

CoreProducers == [s \in DOMAIN Streams |-> [u \in Uops |->
  LET p == Streams[s]
  IN  {p.uops[u].inputs[i].uop : i \in DOMAIN p.uops[u].inputs}
        \cup {v \in 1..(u - 1) : ReadsStore(p, u, v)}]]

GroupStamped == phase = "rob"
CoreRetired  == Len(log) + Len(retireQueue)
CoreIssued   == CoreRetired + Len(rob) + (IF GroupStamped THEN Len(group) ELSE 0)
CoreExecuted == {u \in Uops : NeedsPort(u) /\ uop[u].exec # None}

Core == INSTANCE OutOfOrderCore WITH
          Length <- CoreLength, Parts <- CoreParts, Producers <- CoreProducers,
          IssueMax <- IssueWidth, RetireMax <- RetireWidth, Capacity <- RBWidth,
          issued <- CoreIssued, executed <- CoreExecuted, retired <- CoreRetired

(* Whatever the scheduler's queues do, the simulation is an in-order issue,*)
(* data-flow execution and in-order retirement of the stream. (Under       *)
(* MergesAssumption: no step of the core issues a merge uop once more.)    *)
ImplementsCore == Core!Spec

(* Port 0 serves the older of its own queue and the divider queue.         *)
Port0OldestFirst ==
  [][\A u \in readyQueue[0] \cup readyQueue[DivQueue] :
       /\ blocked.div = 0
       /\ uop[u].disp = None /\ uop'[u].disp # None
       => \A v \in readyQueue[0] \cup readyQueue[DivQueue] :
            prog.uops[u].queueIdx <= prog.uops[v].queueIdx]_vars
=============================================================================
