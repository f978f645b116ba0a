---------------------------- MODULE OrderProofs ----------------------------
(***************************************************************************)
(* Type correctness of the back end, and the reorder buffer keeps program  *)
(* order and never overflows.                                              *)
(*                                                                         *)
(* The argument: log, retireQueue, rob and the group being issued are      *)
(* consecutive runs of fused uops, and the run that follows starts at the  *)
(* head of the idq. Every operation moves the border between two of these  *)
(* runs. The stamps are then determined by the borders.                    *)
(*                                                                         *)
(* This and every result built on it is about streams in which no          *)
(* instruction with register merges is synchronised (MergesAssumption);    *)
(* MergesProperties is the one lemma that uses the assumption.             *)
(***************************************************************************)
EXTENDS PipelineProperties, Inductions

-----------------------------------------------------------------------------
(* Numbers, sets and sequences.                                            *)

(* A run of consecutive ids is a sequence of ids.                          *)
LEMMA RunOfProperties ==
  ASSUME NEW m \in Nat, NEW n \in Nat, m <= n
  PROVE  /\ RunOf(m, n) \in Seq(m + 1 .. n)
         /\ Len(RunOf(m, n)) = n - m
         /\ \A i \in 1..(n - m) : RunOf(m, n)[i] = m + i
<1>1. RunOf(m, n) \in [1..(n - m) -> m + 1 .. n]
  BY DEF RunOf
<1>2. n - m \in Nat
  OBVIOUS
<1>3. RunOf(m, n) \in Seq(m + 1 .. n)
  BY <1>1, <1>2, SeqDef
<1> QED
  BY <1>1, <1>2, <1>3, LenProperties DEF RunOf

(* Dropping a prefix or a suffix of a sequence, as retirement does.        *)
LEMMA SplitProperties ==
  ASSUME NEW S, NEW s \in Seq(S), NEW n \in 0..Len(s)
  PROVE  /\ SubSeq(s, 1, n) \in Seq(S) /\ Len(SubSeq(s, 1, n)) = n
         /\ \A i \in 1..n : SubSeq(s, 1, n)[i] = s[i]
         /\ SubSeq(s, n + 1, Len(s)) \in Seq(S)
         /\ Len(SubSeq(s, n + 1, Len(s))) = Len(s) - n
         /\ \A i \in 1..(Len(s) - n) : SubSeq(s, n + 1, Len(s))[i] = s[n + i]
<1>1. Len(s) \in Nat /\ \A i \in 1..Len(s) : s[i] \in S
  BY LenProperties, ElementOfSeq
<1>2. /\ SubSeq(s, 1, n) \in Seq(S) /\ Len(SubSeq(s, 1, n)) = n
      /\ \A i \in 1..n : SubSeq(s, 1, n)[i] = s[i]
  BY <1>1, SubSeqProperties
<1>3. /\ SubSeq(s, n + 1, Len(s)) \in Seq(S)
      /\ Len(SubSeq(s, n + 1, Len(s))) = Len(s) - n
      /\ \A i \in 1..(Len(s) - n) : SubSeq(s, n + 1, Len(s))[i] = s[n + i]
  <2>1. \A i \in n + 1 .. Len(s) : s[i] \in S
    BY <1>1
  <2> QED
    BY <1>1, <2>1, SubSeqProperties
<1> QED
  BY <1>2, <1>3

-----------------------------------------------------------------------------
(* The instruction stream.                                                 *)

(* Whatever stream a simulation works on is well formed.                   *)
LEMMA ProgramTyped ==
  ASSUME stream \in DOMAIN Streams
  PROVE  /\ prog.uops \in [Uops -> UopProperties]
         /\ prog.fused \in [Uops -> Seq(Uops)]
         /\ prog.round \in [Uops -> Nat]
         /\ prog.lams \in Seq(LaminatedUop)
         /\ Len(prog.lams) \in Nat \ {0} /\ Lams = 1..Len(prog.lams)
<1>1. WellFormed(prog)
  BY ProgramsAssumption DEF Streams, prog
<1> QED
  BY <1>1, EmptySeq, LenProperties DEF WellFormed, Lams

(* The uops a uop names in its operands and its store buffer entry exist.  *)
LEMMA UopTyped ==
  ASSUME stream \in DOMAIN Streams, NEW u \in Uops
  PROVE  /\ prog.uops[u] \in UopProperties
         /\ prog.uops[u].ports \in SUBSET Ports
         /\ prog.uops[u].inputs \in Seq(Operand)
         /\ \A i \in DOMAIN prog.uops[u].inputs :
              /\ prog.uops[u].inputs[i].uop \in Uops
              /\ prog.uops[u].inputs[i].lat \in Nat
         /\ prog.uops[u].outputs \in SUBSET Nat
         /\ prog.uops[u].instr \in InstrStrs /\ prog.uops[u].tp \in OptNat
         /\ prog.uops[u].div \in Nat
         /\ prog.uops[u].entry \in Uops \cup {None}
         /\ prog.uops[u].disp \in OptNat /\ prog.uops[u].queueIdx \in Nat
         /\ prog.uops[u].fused \in Uops
<1>1. prog.uops[u] \in UopProperties
  BY ProgramTyped
<1>2. prog.uops[u].inputs \in Seq(Operand)
  BY <1>1 DEF UopProperties
<1>3. \A i \in DOMAIN prog.uops[u].inputs : prog.uops[u].inputs[i] \in Operand
  BY <1>2, LenProperties, ElementOfSeq
<1> QED
  BY <1>1, <1>2, <1>3 DEF UopProperties, Operand

(* Ids and ports are numbers.                                              *)
LEMMA ConstantsTyped ==
  /\ NumUops \in Nat /\ Uops \subseteq Nat /\ IsFiniteSet(Uops)
  /\ Ports \subseteq Nat /\ 0 \in Ports /\ AllPorts \in Seq(Ports)
  /\ DivQueue \in Queues /\ Ports \subseteq Queues
  /\ IssueDispatchDelay \in Nat /\ None \in OptNat /\ Nat \subseteq OptNat
<1>1. AllPorts \in Seq(Nat) /\ 0 \in Ports
  BY PortsAssumption
<1>2. AllPorts \in [1..Len(AllPorts) -> Nat] /\ Len(AllPorts) \in Nat
  BY <1>1, LenProperties
<1>3. AllPorts \in [1..Len(AllPorts) -> Ports]
  BY <1>2 DEF Ports
<1>4. AllPorts \in Seq(Ports)
  BY <1>2, <1>3, SeqDef
<1>5. Ports \subseteq Nat
  BY <1>2 DEF Ports
<1>6. NumUops \in Nat /\ Uops \subseteq Nat /\ IsFiniteSet(Uops)
  BY NumUopsAssumption, FS_Interval DEF Uops
<1> QED
  BY <1>1, <1>4, <1>5, <1>6, SchedulerAssumption DEF Queues, DivQueue, None, OptNat

-----------------------------------------------------------------------------
(* Values the scheduler computes.                                          *)

(* The time a result or an operand is available is a cycle, or unknown.    *)
LEMMA ResultReadyTyped ==
  ASSUME StorageTypeOK, NEW u \in Uops, NEW lat \in Nat
  PROVE  ResultReady(u, lat) \in OptNat
<1>1. uop[u].disp \in OptNat
  BY DEF StorageTypeOK
<1>2. prog.uops[u].entry \in Uops \cup {None}
  BY UopTyped DEF StorageTypeOK
<1>3. CASE prog.uops[u].kind = "load" /\ prog.uops[u].entry # None
  <2> DEFINE e == prog.uops[u].entry
  <2>1. entry[e].addr \in OptNat /\ entry[e].data \in OptNat
    BY <1>2, <1>3 DEF StorageTypeOK
  <2> QED
    BY <1>1, <1>3, <2>1 DEF ResultReady, OptNat, None, Max2
<1>4. CASE ~(prog.uops[u].kind = "load" /\ prog.uops[u].entry # None)
  BY <1>1, <1>4 DEF ResultReady, OptNat, None
<1> QED
  BY <1>3, <1>4

LEMMA InputReadyTyped ==
  ASSUME StorageTypeOK, NEW u \in Uops, NEW i \in DOMAIN prog.uops[u].inputs
  PROVE  InputReady(u, i) \in OptNat
BY UopTyped, ResultReadyTyped DEF InputReady, StorageTypeOK

(* The execution cycle a finished uop gets is a cycle.                     *)
LEMMA FinishTimesTyped ==
  ASSUME StorageTypeOK, NEW u \in Uops
  PROVE  FinishTimes(u) \subseteq OptNat
<1>1. uop[u].disp \in OptNat
  BY DEF StorageTypeOK
<1>2. \A lat \in prog.uops[u].outputs : ResultReady(u, lat) \in OptNat
  BY UopTyped, ResultReadyTyped DEF StorageTypeOK
<1>3. prog.uops[u].tp \in OptNat
  BY UopTyped DEF StorageTypeOK
<1> QED
  BY <1>1, <1>2, <1>3 DEF FinishTimes, OptNat, None

(* A uop is made ready for a cycle still to come.                          *)
LEMMA ReadyCycleTyped ==
  ASSUME StorageTypeOK, NEW u \in Uops, NEW t \in OperandTimes(u)
  PROVE  /\ ReadyForDispatchCycle(u, t) \in Nat
         /\ ReadyForDispatchCycle(u, t) > clock
         /\ ReadyForDispatchCycle(u, t) >= fused[prog.uops[u].fused].issued + IssueDispatchDelay
<1>1. t \in OptNat
  BY InputReadyTyped DEF OperandTimes, OptNat
<1>2. fused[prog.uops[u].fused].issued \in OptNat
  BY UopTyped DEF StorageTypeOK
<1>3. clock \in Nat
  BY DEF StorageTypeOK
<1> DEFINE earliest == fused[prog.uops[u].fused].issued + IssueDispatchDelay
<1>4. earliest \in Int /\ t \in Int
  BY <1>1, <1>2, ConstantsTyped DEF OptNat, None
<1>5. EarliestDispatch(u, t) \in Int /\ EarliestDispatch(u, t) >= earliest
  <2>1. EarliestDispatch(u, t) = IF t < earliest THEN earliest
                                 ELSE IF t <= earliest + 1 THEN t + 1 ELSE t
    BY DEF EarliestDispatch
  <2> HIDE DEF earliest
  <2> QED
    BY <1>4, <2>1
<1> QED
  BY <1>3, <1>4, <1>5 DEF ReadyForDispatchCycle, Max2

(* The oldest of a set of uops is one of them, and older than the others.  *)
LEMMA OldestProperties ==
  ASSUME stream \in DOMAIN Streams, NEW S \in SUBSET Uops, S # {}
  PROVE  /\ Oldest(S) \in S
         /\ \A v \in S : prog.uops[Oldest(S)].queueIdx <= prog.uops[v].queueIdx
<1> DEFINE T == {prog.uops[u].queueIdx : u \in S}
<1>1. T \in SUBSET Nat /\ T # {}
  BY UopTyped
<1>2. PICK x \in T : \A y \in T : x <= y
  <2> HIDE DEF T
  <2> QED
    BY <1>1, NatMinimum
<1>3. \E u \in S : \A v \in S : prog.uops[u].queueIdx <= prog.uops[v].queueIdx
  BY <1>2
<1> QED
  BY <1>3 DEF Oldest

LEMMA AppendNewTyped ==
  ASSUME NEW S, NEW s \in Seq(S), NEW u \in S
  PROVE  AppendNew(s, u) \in Seq(S)
BY AppendProperties DEF AppendNew

LEMMA CurrentTyped ==
  ASSUME NEW S, work \in Seq(S), work # <<>>
  PROVE  Current \in S /\ Tail(work) \in Seq(S)
BY HeadTailProperties DEF Current

-----------------------------------------------------------------------------
(* The scheduler keeps the types of everything it writes.                  *)

SchedulerTyped == StorageTypeOK /\ SchedulerTypeOK

LEMMA MoveReadyTyped ==
  ASSUME SchedulerTyped, MoveReadyUop \/ EndMoveReady
  PROVE  SchedulerTyped'
<1>1. CASE MoveReadyUop
  <2>1. Current \in Uops /\ Tail(work) \in Seq(Uops)
    BY <1>1, CurrentTyped DEF MoveReadyUop, SchedulerTyped, SchedulerTypeOK, LoopTypeOK
  <2>2. QueueOf(Current) \in Queues
    BY <2>1, ConstantsTyped
       DEF QueueOf, SchedulerTyped, StorageTypeOK, Queues, DivQueue, None
  <2>3. readyQueue' \in [Queues -> SUBSET Uops]
    BY <1>1, <2>1, <2>2 DEF MoveReadyUop, SchedulerTyped, SchedulerTypeOK, QueueTypeOK
  <2>4. front' \in [{0, DivQueue} -> Uops \cup {None}]
    BY <1>1, <2>1, <2>2 DEF MoveReadyUop, SchedulerTyped, SchedulerTypeOK, QueueTypeOK
  <2>5. StorageTypeOK'
    BY <1>1 DEF MoveReadyUop, SchedulerTyped, StorageTypeOK, storageVars
  <2>6. LoopTypeOK'
    BY <1>1, <2>1 DEF MoveReadyUop, Advance, SchedulerTyped, SchedulerTypeOK, LoopTypeOK
  <2>7. QueueTypeOK'
    BY <1>1, <2>3, <2>4 DEF MoveReadyUop, SchedulerTyped, SchedulerTypeOK, QueueTypeOK
  <2> QED
    BY <1>1, <2>5, <2>6, <2>7 DEF MoveReadyUop, SchedulerTyped, SchedulerTypeOK
<1>2. CASE EndMoveReady
  BY <1>2
     DEF EndMoveReady, SchedulerTyped, StorageTypeOK, SchedulerTypeOK, LoopTypeOK, QueueTypeOK,
         storageVars, schedulerVars, queueVars
<1> QED
  BY <1>1, <1>2

(* Queueing a uop behind a producer or among the uops to be checked.       *)
LEMMA CheckDependingTyped ==
  ASSUME SchedulerTyped, NEW u \in Uops, CheckDependingUopsExecuted(u)
  PROVE  nonReady' \in Seq(Uops) /\ dependents' \in [Uops -> Seq(Uops)]
<1>1. nonReady \in Seq(Uops) /\ dependents \in [Uops -> Seq(Uops)]
  BY DEF SchedulerTyped, SchedulerTypeOK, QueueTypeOK
<1>2. AppendNew(nonReady, u) \in Seq(Uops)
  BY <1>1, AppendNewTyped
<1>3. \A i \in DOMAIN prog.uops[u].inputs :
        /\ prog.uops[u].inputs[i].uop \in Uops
        /\ AppendNew(dependents[prog.uops[u].inputs[i].uop], u) \in Seq(Uops)
  BY <1>1, UopTyped, AppendNewTyped DEF SchedulerTyped, StorageTypeOK
<1> QED
  BY <1>1, <1>2, <1>3 DEF CheckDependingUopsExecuted

LEMMA AddTyped ==
  ASSUME SchedulerTyped, VisitFused \/ SkipUop \/ AddNewUop
  PROVE  SchedulerTyped'
<1>1. CASE VisitFused
  <2>1. Head(group) \in Uops /\ Tail(group) \in Seq(Uops)
    BY <1>1, HeadTailProperties DEF VisitFused, SchedulerTyped, SchedulerTypeOK, LoopTypeOK
  <2>2. prog.fused[Head(group)] \in Seq(Uops)
    BY <2>1, ProgramTyped DEF SchedulerTyped, StorageTypeOK
  <2> QED
    BY <1>1, <2>1, <2>2
       DEF VisitFused, SchedulerTyped, StorageTypeOK, SchedulerTypeOK, LoopTypeOK, QueueTypeOK,
           storageVars, schedulerVars, queueVars
<1>2. CASE SkipUop
  <2>1. Tail(work) \in Seq(Uops)
    BY <1>2, CurrentTyped DEF SkipUop, SchedulerTyped, SchedulerTypeOK, LoopTypeOK
  <2> QED
    BY <1>2, <2>1
       DEF SkipUop, Advance, SchedulerTyped, StorageTypeOK, SchedulerTypeOK, LoopTypeOK,
           QueueTypeOK, storageVars, schedulerVars, queueVars
<1>3. CASE AddNewUop
  <2>1. Current \in Uops /\ Tail(work) \in Seq(Uops)
    BY <1>3, CurrentTyped DEF AddNewUop, SchedulerTyped, SchedulerTypeOK, LoopTypeOK
  <2>2. PICK p \in prog.uops[Current].ports :
          /\ uop' = [uop EXCEPT ![Current].port = p]
          /\ portUsage' = [portUsage EXCEPT ![p] = @ + 1]
    BY <1>3 DEF AddNewUop
  <2>3. p \in Ports
    BY <2>1, UopTyped DEF SchedulerTyped, StorageTypeOK
  <2>4. StorageTypeOK'
    <3>1. uop \in [Uops -> [port : Ports \cup {None}, ready : OptNat, disp : OptNat, exec : OptNat]]
      BY DEF SchedulerTyped, StorageTypeOK
    <3>2. uop' \in [Uops -> [port : Ports \cup {None}, ready : OptNat, disp : OptNat, exec : OptNat]]
      BY <2>1, <2>2, <2>3, <3>1
    <3> QED
      BY <1>3, <3>2 DEF AddNewUop, SchedulerTyped, StorageTypeOK
  <2>5. portUsage' \in [Ports -> Nat]
    BY <2>2, <2>3 DEF SchedulerTyped, SchedulerTypeOK, QueueTypeOK
  <2>6. nonReady' \in Seq(Uops) /\ dependents' \in [Uops -> Seq(Uops)]
    BY <1>3, <2>1, CheckDependingTyped DEF AddNewUop
  <2>7. fence' \in [FenceKinds -> [pending : Seq(Uops), since : SUBSET Uops]]
    <3>1. \A k \in FenceKinds : Append(fence[k].pending, Current) \in Seq(Uops)
      BY <2>1, AppendProperties DEF SchedulerTyped, SchedulerTypeOK
    <3>2. fence \in [FenceKinds -> [pending : Seq(Uops), since : SUBSET Uops]]
      BY DEF SchedulerTyped, SchedulerTypeOK
    <3>3. fence' = [k \in FenceKinds |->
                      IF prog.uops[Current].first /\ k \in prog.uops[Current].fences
                      THEN [fence[k] EXCEPT !.pending = Append(fence[k].pending, Current)]
                      ELSE fence[k]]
      BY <1>3 DEF AddNewUop, PushFences
    <3> QED
      BY <3>1, <3>2, <3>3
  <2>8. LoopTypeOK'
    BY <1>3, <2>1 DEF AddNewUop, Advance, SchedulerTyped, SchedulerTypeOK, LoopTypeOK
  <2>9. QueueTypeOK'
    BY <1>3, <2>1, <2>5, <2>6 DEF AddNewUop, SchedulerTyped, SchedulerTypeOK, QueueTypeOK
  <2> QED
    BY <1>3, <2>4, <2>7, <2>8, <2>9 DEF AddNewUop, SchedulerTyped, SchedulerTypeOK
<1> QED
  BY <1>1, <1>2, <1>3

LEMMA DispatchTyped ==
  ASSUME SchedulerTyped, BeginDispatch \/ DispatchUop \/ IdlePort \/ EndDispatch
  PROVE  SchedulerTyped'
<1>1. CASE BeginDispatch
  <2>1. HeldPorts \subseteq Ports
    BY DEF HeldPorts
  <2> QED
    BY <1>1, <2>1, ConstantsTyped
       DEF BeginDispatch, EnterLoop, SchedulerTyped, StorageTypeOK, SchedulerTypeOK, LoopTypeOK,
           QueueTypeOK, storageVars, schedulerVars, queueVars
<1>2. CASE DispatchUop
  <2>1. Current \in Ports /\ Tail(work) \in Seq(Ports)
    BY <1>2, CurrentTyped DEF DispatchUop, SchedulerTyped, SchedulerTypeOK, LoopTypeOK
  <2> DEFINE q == SourceQueue(Current)
  <2> DEFINE u == Oldest(readyQueue[q])
  <2> DEFINE rest == AllButOldest(readyQueue[q])
  <2>2. q \in Queues
    BY <2>1, ConstantsTyped DEF SourceQueue
  <2>3. readyQueue[q] \in SUBSET Uops /\ readyQueue[q] # {}
    BY <1>2, <2>2
       DEF DispatchUop, CanDispatch, SchedulerTyped, SchedulerTypeOK, QueueTypeOK
  <2>4. u \in Uops
    BY <2>3, OldestProperties DEF SchedulerTyped, StorageTypeOK
  <2>5. rest \in SUBSET Uops /\ (rest # {} => Oldest(rest) \in Uops)
    <3>1. rest \in SUBSET Uops
      BY <2>3 DEF AllButOldest
    <3> QED
      BY <3>1, OldestProperties DEF SchedulerTyped, StorageTypeOK
  <2>6. /\ uop' = [uop EXCEPT ![u].disp = clock]
        /\ readyQueue' = [readyQueue EXCEPT ![q] = rest]
        /\ front' = IF q \in DOMAIN front
                    THEN [front EXCEPT ![q] = IF rest = {} THEN None ELSE Oldest(rest)]
                    ELSE front
        /\ rs' = rs \ {u}
        /\ pending' = AppendNew(pending, u)
        /\ blocked' = [blocked EXCEPT
             !.div = @ + prog.uops[u].div,
             !.port = IF Slow256BitMemAcc /\ Current = 4 /\ prog.uops[u].m256
                      THEN [@ EXCEPT ![4] = 2] ELSE @]
    BY <1>2 DEF DispatchUop
  <2>7. prog.uops[u].div \in Nat
    BY <2>4, UopTyped DEF SchedulerTyped, StorageTypeOK
  <2> HIDE DEF q, u, rest
  <2>8. StorageTypeOK'
    <3>1. uop \in [Uops -> [port : Ports \cup {None}, ready : OptNat, disp : OptNat, exec : OptNat]] /\ clock \in OptNat
      BY DEF SchedulerTyped, StorageTypeOK, OptNat
    <3>2. uop' \in [Uops -> [port : Ports \cup {None}, ready : OptNat, disp : OptNat, exec : OptNat]]
      BY <2>4, <2>6, <3>1
    <3> QED
      BY <1>2, <3>2 DEF DispatchUop, SchedulerTyped, StorageTypeOK
  <2>9. LoopTypeOK'
    BY <1>2, <2>1 DEF DispatchUop, Advance, SchedulerTyped, SchedulerTypeOK, LoopTypeOK
  <2>10. QueueTypeOK'
    <3>1. pending' \in Seq(Uops)
      BY <2>4, <2>6, AppendNewTyped DEF SchedulerTyped, SchedulerTypeOK, QueueTypeOK
    <3>2. readyQueue' \in [Queues -> SUBSET Uops]
      BY <2>2, <2>5, <2>6 DEF SchedulerTyped, SchedulerTypeOK, QueueTypeOK
    <3>3. front' \in [{0, DivQueue} -> Uops \cup {None}]
      BY <2>5, <2>6 DEF SchedulerTyped, SchedulerTypeOK, QueueTypeOK
    <3> QED
      BY <1>2, <2>6, <3>1, <3>2, <3>3
         DEF DispatchUop, SchedulerTyped, SchedulerTypeOK, QueueTypeOK
  <2>11. blocked' \in [div : Nat, port : [Ports -> Nat], instr : [InstrStrs -> Nat]]
    <3>1. blocked \in [div : Nat, port : [Ports -> Nat], instr : [InstrStrs -> Nat]]
      BY DEF SchedulerTyped, SchedulerTypeOK
    <3> DEFINE ports == IF Slow256BitMemAcc /\ Current = 4 /\ prog.uops[u].m256
                       THEN [blocked.port EXCEPT ![4] = 2] ELSE blocked.port
    <3>2. ports \in [Ports -> Nat]
      BY <3>1
    <3>3. blocked' = [blocked EXCEPT !.div = blocked.div + prog.uops[u].div, !.port = ports]
      BY <2>6
    <3>4. blocked.div + prog.uops[u].div \in Nat
      BY <2>7, <3>1
    <3> HIDE DEF ports
    <3>5. blocked' = [div |-> blocked.div + prog.uops[u].div, port |-> ports,
                      instr |-> blocked.instr]
      BY <3>1, <3>3
    <3> QED
      BY <3>1, <3>2, <3>4, <3>5
  <2> QED
    BY <1>2, <2>8, <2>9, <2>10, <2>11 DEF DispatchUop, SchedulerTyped, SchedulerTypeOK
<1>3. CASE IdlePort
  <2>1. Tail(work) \in Seq(Ports)
    BY <1>3, CurrentTyped DEF IdlePort, SchedulerTyped, SchedulerTypeOK, LoopTypeOK
  <2> QED
    BY <1>3, <2>1
       DEF IdlePort, Advance, SchedulerTyped, StorageTypeOK, SchedulerTypeOK, LoopTypeOK,
           QueueTypeOK, storageVars, schedulerVars, queueVars
<1>4. CASE EndDispatch
  <2>1. portUsage' \in [Ports -> Nat]
    <3>1. \A p \in Ports :
            Cardinality({u \in prevDispatched : uop[u].port = p}) \in Nat
      <4>1. \A S \in SUBSET Uops : Cardinality(S) \in Nat
        BY ConstantsTyped, FS_Subset, FS_CardinalityType
      <4>2. \A p \in Ports : {u \in prevDispatched : uop[u].port = p} \in SUBSET Uops
        BY DEF SchedulerTyped, SchedulerTypeOK, QueueTypeOK
      <4> QED
        BY <4>1, <4>2
    <3> DEFINE Released(p) == Cardinality({u \in prevDispatched : uop[u].port = p})
    <3>2. portUsage' = [p \in Ports |-> IF Released(p) <= portUsage[p]
                                        THEN portUsage[p] - Released(p) ELSE 0]
      BY <1>4 DEF EndDispatch
    <3>3. \A p \in Ports : portUsage[p] \in Nat /\ Released(p) \in Nat
      BY <3>1 DEF SchedulerTyped, SchedulerTypeOK, QueueTypeOK
    <3> HIDE DEF Released
    <3> QED
      BY <3>2, <3>3
  <2>2. DispatchedNow \subseteq Uops
    BY DEF DispatchedNow
  <2>3. StorageTypeOK'
    BY <1>4 DEF EndDispatch, SchedulerTyped, StorageTypeOK, storageVars
  <2>4. LoopTypeOK'
    BY <1>4, EmptySeq
       DEF EndDispatch, EnterLoop, SchedulerTyped, SchedulerTypeOK, LoopTypeOK, QueueTypeOK
  <2>5. QueueTypeOK'
    BY <1>4, <2>1, <2>2, EmptySeq DEF EndDispatch, SchedulerTyped, SchedulerTypeOK, QueueTypeOK
  <2> QED
    BY <1>4, <2>3, <2>4, <2>5 DEF EndDispatch, SchedulerTyped, SchedulerTypeOK
<1> QED
  BY <1>1, <1>2, <1>3, <1>4

LEMMA PendingTyped ==
  ASSUME SchedulerTyped,
         FinishPendingUop \/ KeepPendingUop \/ EndPending \/ WakeDependent
  PROVE  SchedulerTyped'
<1>1. CASE FinishPendingUop
  <2>1. Current \in Uops /\ Tail(work) \in Seq(Uops)
    BY <1>1, CurrentTyped DEF FinishPendingUop, SchedulerTyped, SchedulerTypeOK, LoopTypeOK
  <2>2. uop[Current].disp + 5 \in OptNat /\ uop[Current].disp + 1 \in OptNat
    BY <2>1 DEF SchedulerTyped, StorageTypeOK, OptNat, None
  <2>3. entry' \in [Uops -> [addr : OptNat, data : OptNat]]
    <3>1. entry \in [Uops -> [addr : OptNat, data : OptNat]]
      BY DEF SchedulerTyped, StorageTypeOK
    <3>2. CASE prog.uops[Current].kind = "sta"
      BY <1>1, <2>2, <3>1, <3>2 DEF FinishPendingUop
    <3>3. CASE prog.uops[Current].kind = "std" /\ prog.uops[Current].entry # None
      BY <1>1, <2>2, <3>1, <3>3 DEF FinishPendingUop
    <3>4. CASE ~(prog.uops[Current].kind = "sta")
                 /\ ~(prog.uops[Current].kind = "std" /\ prog.uops[Current].entry # None)
      BY <1>1, <3>1, <3>4 DEF FinishPendingUop
    <3> QED
      BY <3>2, <3>3, <3>4
  <2>4. uop' \in [Uops -> [port : Ports \cup {None}, ready : OptNat, disp : OptNat, exec : OptNat]]
    <3>1. PICK t \in FinishTimes(Current) : uop' = [uop EXCEPT ![Current].exec = t]
      BY <1>1 DEF FinishPendingUop
    <3>2. t \in OptNat
      BY <2>1, FinishTimesTyped DEF SchedulerTyped
    <3> QED
      BY <2>1, <3>1, <3>2 DEF SchedulerTyped, StorageTypeOK
  <2>5. StorageTypeOK'
    BY <1>1, <2>3, <2>4 DEF FinishPendingUop, SchedulerTyped, StorageTypeOK
  <2>6. wake' \in Seq(Uops)
    BY <1>1, <2>1, ConcatProperties
       DEF FinishPendingUop, WokenBy, SchedulerTyped, SchedulerTypeOK, LoopTypeOK, QueueTypeOK
  <2>7. LoopTypeOK'
    BY <1>1, <2>1, <2>6 DEF FinishPendingUop, Advance, SchedulerTyped, SchedulerTypeOK, LoopTypeOK
  <2>8. QueueTypeOK'
    BY <1>1, <2>1, EmptySeq DEF FinishPendingUop, SchedulerTyped, SchedulerTypeOK, QueueTypeOK
  <2> QED
    BY <1>1, <2>5, <2>7, <2>8 DEF FinishPendingUop, SchedulerTyped, SchedulerTypeOK
<1>2. CASE KeepPendingUop
  <2>1. Current \in Uops /\ Tail(work) \in Seq(Uops)
    BY <1>2, CurrentTyped DEF KeepPendingUop, SchedulerTyped, SchedulerTypeOK, LoopTypeOK
  <2>2. pending' \in Seq(Uops)
    BY <1>2, <2>1, AppendProperties
       DEF KeepPendingUop, SchedulerTyped, SchedulerTypeOK, QueueTypeOK
  <2>3. StorageTypeOK'
    BY <1>2 DEF KeepPendingUop, SchedulerTyped, StorageTypeOK, storageVars
  <2>4. LoopTypeOK'
    BY <1>2, <2>1 DEF KeepPendingUop, Advance, SchedulerTyped, SchedulerTypeOK, LoopTypeOK
  <2>5. QueueTypeOK'
    BY <1>2, <2>2 DEF KeepPendingUop, SchedulerTyped, SchedulerTypeOK, QueueTypeOK
  <2> QED
    BY <1>2, <2>3, <2>4, <2>5 DEF KeepPendingUop, SchedulerTyped, SchedulerTypeOK
<1>3. CASE EndPending
  BY <1>3, EmptySeq
     DEF EndPending, EnterLoop, SchedulerTyped, StorageTypeOK, SchedulerTypeOK, LoopTypeOK,
         QueueTypeOK, storageVars, schedulerVars, queueVars
<1>4. CASE WakeDependent
  <2>1. Current \in Uops /\ Tail(work) \in Seq(Uops)
    BY <1>4, CurrentTyped DEF WakeDependent, SchedulerTyped, SchedulerTypeOK, LoopTypeOK
  <2>2. nonReady' \in Seq(Uops) /\ dependents' \in [Uops -> Seq(Uops)]
    BY <1>4, <2>1, CheckDependingTyped DEF WakeDependent
  <2>3. StorageTypeOK'
    BY <1>4 DEF WakeDependent, SchedulerTyped, StorageTypeOK, storageVars
  <2>4. LoopTypeOK'
    BY <1>4, <2>1 DEF WakeDependent, Advance, SchedulerTyped, SchedulerTypeOK, LoopTypeOK
  <2>5. QueueTypeOK'
    BY <1>4, <2>2 DEF WakeDependent, SchedulerTyped, SchedulerTypeOK, QueueTypeOK
  <2> QED
    BY <1>4, <2>3, <2>4, <2>5 DEF WakeDependent, SchedulerTyped, SchedulerTypeOK
<1> QED
  BY <1>1, <1>2, <1>3, <1>4

LEMMA NonReadyTyped ==
  ASSUME SchedulerTyped, BeginNonReady \/ MakeReady \/ StayNonReady \/ EndNonReady
  PROVE  SchedulerTyped'
<1>1. CASE BeginNonReady
  <2>1. StorageTypeOK'
    BY <1>1 DEF BeginNonReady, SchedulerTyped, StorageTypeOK, storageVars
  <2>2. LoopTypeOK'
    BY <1>1 DEF BeginNonReady, EnterLoop, SchedulerTyped, SchedulerTypeOK, LoopTypeOK, QueueTypeOK
  <2>3. QueueTypeOK'
    BY <1>1, EmptySeq DEF BeginNonReady, SchedulerTyped, SchedulerTypeOK, QueueTypeOK
  <2> QED
    BY <1>1, <2>1, <2>2, <2>3 DEF BeginNonReady, SchedulerTyped, SchedulerTypeOK
<1>2. CASE MakeReady
  <2>1. Current \in Uops /\ Tail(work) \in Seq(Uops)
    BY <1>2, CurrentTyped DEF MakeReady, SchedulerTyped, SchedulerTypeOK, LoopTypeOK
  <2>2. PICK t \in OperandTimes(Current) :
          LET ready == ReadyForDispatchCycle(Current, t)
              there == IF ready \in DOMAIN readyInCycle THEN readyInCycle[ready] ELSE <<>>
          IN  /\ uop' = [uop EXCEPT ![Current].ready = ready]
              /\ readyInCycle' = [c \in DOMAIN readyInCycle \cup {ready} |->
                   IF c = ready THEN AppendNew(there, Current) ELSE readyInCycle[c]]
    BY <1>2 DEF MakeReady
  <2> DEFINE ready == ReadyForDispatchCycle(Current, t)
  <2> DEFINE there == IF ready \in DOMAIN readyInCycle THEN readyInCycle[ready] ELSE <<>>
  <2>3. ready \in Nat
    BY <2>1, ReadyCycleTyped DEF SchedulerTyped
  <2>4. AppendNew(there, Current) \in Seq(Uops)
    <3>1. there \in Seq(Uops)
      BY EmptySeq DEF SchedulerTyped, SchedulerTypeOK, QueueTypeOK
    <3> HIDE DEF there
    <3> QED
      BY <2>1, <3>1, AppendNewTyped
  <2>5. /\ uop' = [uop EXCEPT ![Current].ready = ready]
        /\ readyInCycle' = [c \in DOMAIN readyInCycle \cup {ready} |->
             IF c = ready THEN AppendNew(there, Current) ELSE readyInCycle[c]]
    BY <2>2
  <2> HIDE DEF ready, there
  <2>6. StorageTypeOK'
    <3>1. uop \in [Uops -> [port : Ports \cup {None}, ready : OptNat, disp : OptNat, exec : OptNat]]
      BY DEF SchedulerTyped, StorageTypeOK
    <3>2. uop' \in [Uops -> [port : Ports \cup {None}, ready : OptNat, disp : OptNat, exec : OptNat]]
      BY <2>1, <2>3, <2>5, <3>1 DEF OptNat
    <3> QED
      BY <1>2, <3>2 DEF MakeReady, SchedulerTyped, StorageTypeOK
  <2>7. LoopTypeOK'
    BY <1>2, <2>1 DEF MakeReady, Advance, SchedulerTyped, SchedulerTypeOK, LoopTypeOK
  <2>8. QueueTypeOK'
    <3>1. /\ DOMAIN readyInCycle' \in SUBSET Nat
          /\ \A c \in DOMAIN readyInCycle' : readyInCycle'[c] \in Seq(Uops)
      BY <2>3, <2>4, <2>5 DEF SchedulerTyped, SchedulerTypeOK, QueueTypeOK
    <3>2. UNCHANGED <<rs, portUsage, prevDispatched, readyQueue, front, nonReady, pending,
                      dependents>>
      BY <1>2 DEF MakeReady
    <3> QED
      BY <3>1, <3>2 DEF SchedulerTyped, SchedulerTypeOK, QueueTypeOK
  <2>9. fence' \in [FenceKinds -> [pending : Seq(Uops), since : SUBSET Uops]]
    <3>1. fence \in [FenceKinds -> [pending : Seq(Uops), since : SUBSET Uops]]
      BY DEF SchedulerTyped, SchedulerTypeOK
    <3>2. fence' = [k \in FenceKinds |->
                      IF k \in Accesses(Current)
                      THEN [fence[k] EXCEPT !.since = fence[k].since \cup {Current}]
                      ELSE fence[k]]
      BY <1>2 DEF MakeReady
    <3>3. Current \in Uops
      BY <2>1
    <3> QED
      BY <3>1, <3>2, <3>3
  <2>10. blocked' \in [div : Nat, port : [Ports -> Nat], instr : [InstrStrs -> Nat]]
    <3>1. blocked \in [div : Nat, port : [Ports -> Nat], instr : [InstrStrs -> Nat]]
      BY DEF SchedulerTyped, SchedulerTypeOK
    <3>2. prog.uops[Current].instr \in InstrStrs /\ prog.uops[Current].tp \in OptNat
      BY <2>1, UopTyped DEF SchedulerTyped, StorageTypeOK
    <3>3. CASE prog.uops[Current].first /\ prog.uops[Current].tp # None
      <4>1. [blocked.instr EXCEPT ![prog.uops[Current].instr] = prog.uops[Current].tp]
              \in [InstrStrs -> Nat]
        BY <3>1, <3>2, <3>3 DEF OptNat
      <4>2. blocked' = [blocked EXCEPT !.instr =
              [blocked.instr EXCEPT ![prog.uops[Current].instr] = prog.uops[Current].tp]]
        BY <1>2, <3>3 DEF MakeReady
      <4> QED
        BY <3>1, <4>1, <4>2
    <3>4. CASE ~(prog.uops[Current].first /\ prog.uops[Current].tp # None)
      BY <1>2, <3>1, <3>4 DEF MakeReady
    <3> QED
      BY <3>3, <3>4
  <2> QED
    BY <2>6, <2>7, <2>8, <2>9, <2>10 DEF SchedulerTyped, SchedulerTypeOK
<1>3. CASE StayNonReady
  <2>1. Current \in Uops /\ Tail(work) \in Seq(Uops)
    BY <1>3, CurrentTyped DEF StayNonReady, SchedulerTyped, SchedulerTypeOK, LoopTypeOK
  <2>2. nonReady' \in Seq(Uops)
    BY <1>3, <2>1, AppendProperties
       DEF StayNonReady, SchedulerTyped, SchedulerTypeOK, QueueTypeOK
  <2>3. StorageTypeOK'
    BY <1>3 DEF StayNonReady, SchedulerTyped, StorageTypeOK, storageVars
  <2>4. LoopTypeOK'
    BY <1>3, <2>1 DEF StayNonReady, Advance, SchedulerTyped, SchedulerTypeOK, LoopTypeOK
  <2>5. QueueTypeOK'
    BY <1>3, <2>2 DEF StayNonReady, SchedulerTyped, SchedulerTypeOK, QueueTypeOK
  <2> QED
    BY <1>3, <2>3, <2>4, <2>5 DEF StayNonReady, SchedulerTyped, SchedulerTypeOK
<1>4. CASE EndNonReady
  BY <1>4
     DEF EndNonReady, SchedulerTyped, StorageTypeOK, SchedulerTypeOK, LoopTypeOK, QueueTypeOK,
         storageVars, schedulerVars, queueVars
<1> QED
  BY <1>1, <1>2, <1>3, <1>4

LEMMA EndCycleTyped ==
  ASSUME SchedulerTyped, EndSchedulerCycle
  PROVE  SchedulerTyped'
<1>1. fence' \in [FenceKinds -> [pending : Seq(Uops), since : SUBSET Uops]]
  <2>1. PICK n \in [FenceKinds -> 0..NumUops] :
          /\ \A k \in FenceKinds : n[k] <= Len(fence[k].pending)
          /\ fence' = [k \in FenceKinds |->
               [pending |-> SubSeq(fence[k].pending, n[k] + 1, Len(fence[k].pending)),
                since   |-> IF n[k] > 0 THEN {} ELSE fence[k].since]]
    BY DEF EndSchedulerCycle, ProcessPendingFences
  <2>2. \A k \in FenceKinds :
          /\ fence[k].pending \in Seq(Uops) /\ fence[k].since \in SUBSET Uops
          /\ n[k] \in 0..Len(fence[k].pending)
    BY <2>1, ConstantsTyped, LenProperties DEF SchedulerTyped, SchedulerTypeOK
  <2>3. \A k \in FenceKinds :
          SubSeq(fence[k].pending, n[k] + 1, Len(fence[k].pending)) \in Seq(Uops)
    BY <2>2, SplitProperties
  <2> QED
    BY <2>1, <2>2, <2>3
<1>2. blocked' \in [div : Nat, port : [Ports -> Nat], instr : [InstrStrs -> Nat]]
  <2>1. \A n \in Nat : Less1(n) \in Nat
    BY DEF Less1
  <2> QED
    BY <2>1 DEF EndSchedulerCycle, UpdateBlockedResources, SchedulerTyped, SchedulerTypeOK
<1>3. StorageTypeOK'
  BY DEF EndSchedulerCycle, SchedulerTyped, StorageTypeOK, storageVars
<1>4. LoopTypeOK'
  BY DEF EndSchedulerCycle, SchedulerTyped, SchedulerTypeOK, LoopTypeOK
<1>5. QueueTypeOK'
  BY DEF EndSchedulerCycle, SchedulerTyped, SchedulerTypeOK, QueueTypeOK, queueVars
<1> QED
  BY <1>1, <1>2, <1>3, <1>4, <1>5 DEF SchedulerTyped, SchedulerTypeOK

LEMMA SchedulerNextTyped ==
  ASSUME SchedulerTyped, SchedulerNext
  PROVE  SchedulerTyped'
BY MoveReadyTyped, AddTyped, DispatchTyped, PendingTyped, NonReadyTyped, EndCycleTyped
   DEF SchedulerNext

-----------------------------------------------------------------------------
(* The issue stage, the reorder buffer, the front end and the run loop.    *)

(* A laminated uop is one or more consecutive fused uops, its merge uops   *)
(* come right before, and neither is larger than an issue group.           *)
LEMMA LamTyped ==
  ASSUME stream \in DOMAIN Streams, NEW l \in Lams
  PROVE  LET lam == prog.lams[l]
         IN  /\ lam \in LaminatedUop
             /\ lam.start \in Nat /\ lam.mid \in Nat /\ lam.end \in Nat
             /\ lam.start <= lam.mid /\ lam.mid < lam.end /\ lam.end <= NumUops
             /\ lam.mid - lam.start <= IssueWidth /\ lam.end - lam.mid <= IssueWidth
             /\ l > 1 => lam.start = prog.lams[l - 1].end
             /\ l = 1 => lam.start = 0
<1>1. WellFormed(prog)
  BY ProgramsAssumption DEF Streams, prog
<1>2. prog.lams[l] \in LaminatedUop
  BY ProgramTyped, ElementOfSeq
<1>3. prog.lams[l].mid - prog.lams[l].start <= IssueWidth
        /\ prog.lams[l].end - prog.lams[l].mid <= IssueWidth
  BY IssueWidthAssumption DEF Streams, prog, Lams
<1> QED
  BY <1>1, <1>2, <1>3 DEF WellFormed, Lams, LaminatedUop

(* Merge uops belong to one laminated uop only: MergesAssumption leaves    *)
(* none to an instruction that is synchronised.                            *)
LEMMA MergesProperties ==
  ASSUME stream \in DOMAIN Streams, NEW l \in Lams
  PROVE  /\ MergesOf(l) = RunOf(prog.lams[l].start, prog.lams[l].mid)
         /\ MergesOf(l) # <<>> <=> prog.lams[l].start < prog.lams[l].mid
<1>1. WellFormed(prog)
  BY ProgramsAssumption DEF Streams, prog
<1>2. \A k \in Lams : prog.lams[k].sync => prog.lams[k].start = prog.lams[k].mid
  BY MergesAssumption DEF Streams, prog, Lams
<1>3. MergesOf(l) = RunOf(prog.lams[l].start, prog.lams[l].mid)
  <2>1. CASE l > 1 /\ prog.lams[l - 1].sync
    <3>1. l - 1 \in Lams
      BY <2>1, ProgramTyped
    <3>2. prog.lams[l - 1].start = prog.lams[l - 1].mid
      BY <1>2, <2>1, <3>1
    <3>3. prog.lams[l].start = prog.lams[l].mid
      BY <1>1, <2>1 DEF WellFormed, Lams
    <3>4. /\ prog.lams[l].start \in Nat /\ prog.lams[l - 1].start \in Nat
      BY <3>1, LamTyped
    <3>5. \A n \in Nat : RunOf(n, n) = [i \in 1..0 |-> 0]
      BY DEF RunOf
    <3> QED
      BY <2>1, <3>2, <3>3, <3>4, <3>5 DEF MergesOf
  <2>2. CASE ~(l > 1 /\ prog.lams[l - 1].sync)
    BY <2>2 DEF MergesOf
  <2> QED
    BY <2>1, <2>2
<1>4. /\ prog.lams[l].start \in Nat /\ prog.lams[l].mid \in Nat
      /\ prog.lams[l].start <= prog.lams[l].mid
  BY LamTyped
<1>5. /\ RunOf(prog.lams[l].start, prog.lams[l].mid)
            \in Seq(prog.lams[l].start + 1 .. prog.lams[l].mid)
      /\ Len(RunOf(prog.lams[l].start, prog.lams[l].mid)) = prog.lams[l].mid - prog.lams[l].start
  BY <1>4, RunOfProperties
<1>6. RunOf(prog.lams[l].start, prog.lams[l].mid) # <<>>
        <=> prog.lams[l].start < prog.lams[l].mid
  BY <1>4, <1>5, EmptySeq
<1> QED
  BY <1>3, <1>6

(* The fused uops of a laminated uop and its merge uops are ids.           *)
LEMMA RunsTyped ==
  ASSUME stream \in DOMAIN Streams, idq \in Seq(Lams), idq # <<>>
  PROVE  /\ idq[1] \in Lams /\ Tail(idq) \in Seq(Lams)
         /\ MergesOf(idq[1]) = RunOf(HeadLam.start, HeadLam.mid)
         /\ HasMerges <=> HeadLam.start < HeadLam.mid
         /\ RunOf(HeadLam.start, HeadLam.mid) \in Seq(Uops)
         /\ RunOf(HeadLam.mid, HeadLam.end) \in Seq(Uops)
<1>1. idq[1] \in Lams /\ Tail(idq) \in Seq(Lams)
  <2>1. Len(idq) \in Nat \ {0}
    BY EmptySeq
  <2> QED
    BY <2>1, ElementOfSeq, HeadTailProperties
<1>2. /\ HeadLam.start \in Nat /\ HeadLam.mid \in Nat /\ HeadLam.end \in Nat
      /\ HeadLam.start <= HeadLam.mid /\ HeadLam.mid < HeadLam.end /\ HeadLam.end <= NumUops
  BY <1>1, LamTyped DEF HeadLam
<1>3. /\ HeadLam.start + 1 .. HeadLam.mid \subseteq Uops
      /\ HeadLam.mid + 1 .. HeadLam.end \subseteq Uops
  BY <1>2, NumUopsAssumption DEF Uops
<1>4. RunOf(HeadLam.start, HeadLam.mid) \in Seq(HeadLam.start + 1 .. HeadLam.mid)
  BY <1>2, RunOfProperties
<1>5. RunOf(HeadLam.mid, HeadLam.end) \in Seq(HeadLam.mid + 1 .. HeadLam.end)
  <2>1. HeadLam.mid <= HeadLam.end
    BY <1>2
  <2> QED
    BY <1>2, <2>1, RunOfProperties
<1>6. RunOf(HeadLam.start, HeadLam.mid) \in Seq(Uops)
  BY <1>3, <1>4, SeqMonotonic
<1>7. RunOf(HeadLam.mid, HeadLam.end) \in Seq(Uops)
  BY <1>3, <1>5, SeqMonotonic
<1>8. /\ MergesOf(idq[1]) = RunOf(HeadLam.start, HeadLam.mid)
      /\ HasMerges <=> HeadLam.start < HeadLam.mid
  BY <1>1, MergesProperties DEF HeadLam, HasMerges
<1> QED
  BY <1>1, <1>6, <1>7, <1>8

LEMMA MarkIssuedTyped ==
  ASSUME StorageTypeOK, NEW new, MarkIssued(new)
  PROVE  fused' \in [Uops -> [issued : OptNat, retired : OptNat, idx : OptNat]]
<1>1. fused \in [Uops -> [issued : OptNat, retired : OptNat, idx : OptNat]] /\ clock \in OptNat
  BY DEF StorageTypeOK, OptNat
<1> QED
  BY <1>1 DEF MarkIssued

LEMMA IssueTyped ==
  ASSUME TypeOK, IssueLam \/ IssueMerges \/ EndIssue
  PROVE  TypeOK'
<1>1. /\ stream \in DOMAIN Streams /\ idq \in Seq(Lams) /\ group \in Seq(Uops)
      /\ delivered \in 0..Len(prog.lams) /\ lastMerge \in Lams \cup {None}
  BY DEF TypeOK, StorageTypeOK, SchedulerTypeOK, LoopTypeOK, PipelineTypeOK
<1>2. CASE IssueLam
  <2>1. group' \in Seq(Uops) /\ idq' \in Seq(Lams)
    BY <1>1, <1>2, RunsTyped, ConcatProperties DEF IssueLam, MayIssue
  <2>2. StorageTypeOK'
    BY <1>2 DEF IssueLam, TypeOK, StorageTypeOK, storageVars
  <2>3. RobTypeOK'
    BY <1>2 DEF IssueLam, TypeOK, RobTypeOK, robVars
  <2>4. LoopTypeOK'
    BY <1>2, <2>1 DEF IssueLam, TypeOK, SchedulerTypeOK, LoopTypeOK
  <2>5. SchedulerTypeOK'
    BY <1>2, <2>4
       DEF IssueLam, TypeOK, SchedulerTypeOK, QueueTypeOK, schedulerVars, queueVars
  <2>6. PipelineTypeOK'
    BY <1>2, <2>1
       DEF IssueLam, TypeOK, PipelineTypeOK, runVars, storageVars, Lams, prog
  <2> QED
    BY <2>2, <2>3, <2>5, <2>6 DEF TypeOK
<1>3. CASE IssueMerges
  <2>1. group' \in Seq(Uops) /\ lastMerge' \in Lams
    BY <1>1, <1>3, RunsTyped DEF IssueMerges, MayIssue
  <2>2. fused' \in [Uops -> [issued : OptNat, retired : OptNat, idx : OptNat]]
    BY <1>3, MarkIssuedTyped DEF IssueMerges, TypeOK
  <2>3. StorageTypeOK'
    BY <1>3, <2>2 DEF IssueMerges, TypeOK, StorageTypeOK
  <2>4. RobTypeOK'
    BY <1>3 DEF IssueMerges, TypeOK, RobTypeOK, robVars
  <2>5. LoopTypeOK'
    BY <1>3, <2>1 DEF IssueMerges, TypeOK, SchedulerTypeOK, LoopTypeOK
  <2>6. SchedulerTypeOK'
    BY <1>3, <2>5
       DEF IssueMerges, TypeOK, SchedulerTypeOK, QueueTypeOK, schedulerVars, queueVars
  <2>7. PipelineTypeOK'
    BY <1>3, <2>1 DEF IssueMerges, TypeOK, PipelineTypeOK, runVars, Lams, prog
  <2> QED
    BY <2>3, <2>4, <2>6, <2>7 DEF TypeOK
<1>4. CASE EndIssue
  <2>1. fused' \in [Uops -> [issued : OptNat, retired : OptNat, idx : OptNat]]
    BY <1>4, MarkIssuedTyped DEF EndIssue, TypeOK
  <2>2. StorageTypeOK'
    BY <1>4, <2>1 DEF EndIssue, TypeOK, StorageTypeOK
  <2>3. RobTypeOK'
    BY <1>4 DEF EndIssue, TypeOK, RobTypeOK, robVars
  <2>4. LoopTypeOK'
    BY <1>4 DEF EndIssue, TypeOK, SchedulerTypeOK, LoopTypeOK
  <2>5. SchedulerTypeOK'
    BY <1>4, <2>4
       DEF EndIssue, TypeOK, SchedulerTypeOK, QueueTypeOK, schedulerVars, queueVars
  <2>6. PipelineTypeOK'
    BY <1>4 DEF EndIssue, TypeOK, PipelineTypeOK, frontVars, runVars, Lams, prog
  <2> QED
    BY <2>2, <2>3, <2>5, <2>6 DEF TypeOK
<1> QED
  BY <1>2, <1>3, <1>4

LEMMA ReorderBufferTyped ==
  ASSUME TypeOK, CycleReorderBuffer
  PROVE  TypeOK'
<1>1. PICK n \in 0..Len(rob) : RetireUops(n) /\ AddUops(n, group)
  BY DEF CycleReorderBuffer, ReorderBufferCycle
<1>2. rob \in Seq(Uops) /\ retireQueue \in Seq(Uops) /\ group \in Seq(Uops)
  BY DEF TypeOK, RobTypeOK, SchedulerTypeOK, LoopTypeOK
<1>3. SubSeq(rob, 1, n) \in Seq(Uops) /\ SubSeq(rob, n + 1, Len(rob)) \in Seq(Uops)
  BY <1>2, SplitProperties
<1>4. RobTypeOK'
  BY <1>1, <1>2, <1>3, ConcatProperties DEF RetireUops, AddUops, AfterCycle, RobTypeOK
<1>5. StorageTypeOK'
  <2>1. clock \in OptNat
    BY DEF TypeOK, StorageTypeOK, OptNat
  <2>2. uop' \in [Uops -> [port : Ports \cup {None}, ready : OptNat, disp : OptNat, exec : OptNat]]
    BY <1>1, <2>1 DEF AddUops, TypeOK, StorageTypeOK
  <2>3. fused' \in [Uops -> [issued : OptNat, retired : OptNat, idx : OptNat]]
    <3>1. \A f \in Uops : (\E i \in 1..n : rob[i] = f) =>
            (CHOOSE i \in 1..n : rob[i] = f) - 1 \in OptNat
      BY DEF OptNat
    <3>2. fused \in [Uops -> [issued : OptNat, retired : OptNat, idx : OptNat]]
      BY DEF TypeOK, StorageTypeOK
    <3> DEFINE Gone(f) == \E i \in 1..n : rob[i] = f
    <3> DEFINE pos(f) == (CHOOSE i \in 1..n : rob[i] = f) - 1
    <3>3. fused' = [f \in Uops |-> IF Gone(f)
                                   THEN [fused[f] EXCEPT !.retired = clock, !.idx = pos(f)]
                                   ELSE fused[f]]
      BY <1>1 DEF RetireUops
    <3>4. \A f \in Uops : Gone(f) => pos(f) \in OptNat
      BY <3>1
    <3> HIDE DEF Gone, pos
    <3> QED
      BY <2>1, <3>2, <3>3, <3>4
  <2> QED
    BY <2>2, <2>3 DEF CycleReorderBuffer, TypeOK, StorageTypeOK
<1>6. LoopTypeOK'
  BY EmptySeq
     DEF CycleReorderBuffer, BeginMoveReady, EnterLoop, TypeOK, SchedulerTypeOK, LoopTypeOK,
         QueueTypeOK
<1>7. SchedulerTypeOK'
  <2>1. /\ DOMAIN readyInCycle' \in SUBSET Nat
        /\ \A c \in DOMAIN readyInCycle' : readyInCycle'[c] \in Seq(Uops)
    BY DEF CycleReorderBuffer, BeginMoveReady, TypeOK, SchedulerTypeOK, QueueTypeOK
  <2> QED
    BY <1>6, <2>1 DEF CycleReorderBuffer, TypeOK, SchedulerTypeOK, QueueTypeOK
<1>8. PipelineTypeOK'
  BY DEF CycleReorderBuffer, TypeOK, PipelineTypeOK, frontVars, runVars, Lams, prog
<1> QED
  BY <1>4, <1>5, <1>7, <1>8 DEF TypeOK

(* No step of the scheduler changes the stream.                            *)
LEMMA SchedulerKeepsStream ==
  ASSUME SchedulerNext
  PROVE  stream' = stream
BY DEF SchedulerNext, MoveReadyUop, EndMoveReady, VisitFused, SkipUop, AddNewUop, BeginDispatch,
       DispatchUop, IdlePort, EndDispatch, FinishPendingUop, KeepPendingUop, EndPending,
       WakeDependent, BeginNonReady, MakeReady, StayNonReady, EndNonReady, EndSchedulerCycle,
       storageVars

LEMMA CycleSchedulerTyped ==
  ASSUME TypeOK, CycleScheduler
  PROVE  TypeOK'
<1>1. StorageTypeOK' /\ SchedulerTypeOK'
  BY SchedulerNextTyped DEF CycleScheduler, TypeOK, SchedulerTyped
<1>2. stream' = stream
  BY SchedulerKeepsStream DEF CycleScheduler
<1>3. RobTypeOK'
  BY DEF CycleScheduler, TypeOK, RobTypeOK, robVars
<1>4. PipelineTypeOK'
  BY <1>2 DEF CycleScheduler, TypeOK, PipelineTypeOK, frontVars, runVars, Lams, prog
<1> QED
  BY <1>1, <1>3, <1>4 DEF TypeOK

LEMMA FillTyped ==
  ASSUME TypeOK, Deliver \/ Stall \/ NoFill
  PROVE  TypeOK'
<1>1. stream' = stream
  BY DEF Deliver, Stall, NoFill, storageVars
<1>2. PipelineTypeOK'
  <2>1. CASE Deliver
    <3>1. PICK n \in 1..DeliverWidth :
            /\ delivered + n <= Len(prog.lams)
            /\ idq' = idq \o RunOf(delivered, delivered + n)
            /\ delivered' = delivered + n
      BY <2>1 DEF Deliver
    <3>2. delivered \in Nat /\ n \in Nat /\ Len(prog.lams) \in Nat
      BY ProgramTyped, PipelineAssumption DEF TypeOK, PipelineTypeOK, StorageTypeOK
    <3>3. RunOf(delivered, delivered + n) \in Seq(Lams)
      <4>1. RunOf(delivered, delivered + n) \in Seq(delivered + 1 .. delivered + n)
        BY <3>2, RunOfProperties
      <4>2. delivered + 1 .. delivered + n \subseteq Lams
        BY <3>1, <3>2, ProgramTyped DEF TypeOK, StorageTypeOK
      <4> QED
        BY <4>1, <4>2, SeqMonotonic
    <3>4. idq' \in Seq(Lams) /\ delivered' \in 0..Len(prog.lams)
      BY <3>1, <3>2, <3>3, ConcatProperties DEF TypeOK, PipelineTypeOK
    <3> QED
      BY <1>1, <2>1, <3>4 DEF Deliver, TypeOK, PipelineTypeOK, runVars, Lams, prog
  <2>2. CASE Stall
    <3>1. stalls' \in 0..MaxStalls
      BY <2>2, PipelineAssumption DEF Stall, TypeOK, PipelineTypeOK
    <3> QED
      BY <1>1, <2>2, <3>1 DEF Stall, TypeOK, PipelineTypeOK, runVars, Lams, prog
  <2>3. CASE NoFill
    BY <1>1, <2>3 DEF NoFill, TypeOK, PipelineTypeOK, frontVars, runVars, Lams, prog
  <2> QED
    BY <2>1, <2>2, <2>3
<1>3. StorageTypeOK'
  BY DEF Deliver, Stall, NoFill, TypeOK, StorageTypeOK, storageVars
<1>4. RobTypeOK'
  BY DEF Deliver, Stall, NoFill, TypeOK, RobTypeOK, robVars
<1>5. LoopTypeOK'
  BY DEF Deliver, Stall, NoFill, TypeOK, SchedulerTypeOK, LoopTypeOK
<1>6. SchedulerTypeOK'
  BY <1>5
     DEF Deliver, Stall, NoFill, TypeOK, SchedulerTypeOK, QueueTypeOK, schedulerVars, queueVars
<1> QED
  BY <1>2, <1>3, <1>4, <1>6 DEF TypeOK

LEMMA DrainTyped ==
  ASSUME TypeOK, Tick \/ Stop
  PROVE  TypeOK'
<1>1. log' \in Seq(Uops) /\ retireQueue' \in Seq(Uops) /\ rnd' \in Nat
  <2>1. retireQueue \in Seq(Uops) /\ log \in Seq(Uops) /\ rnd \in Nat
    BY DEF TypeOK, RobTypeOK, PipelineTypeOK
  <2>2. retireQueue # <<>> => prog.round[retireQueue[Len(retireQueue)]] \in Nat
    <3>1. retireQueue # <<>> => retireQueue[Len(retireQueue)] \in Uops
      BY <2>1, EmptySeq, LenProperties, ElementOfSeq
    <3> QED
      BY <3>1, ProgramTyped DEF TypeOK, StorageTypeOK
  <2>3. log' = log \o retireQueue /\ retireQueue' = <<>> /\ rnd' = RoundAfterDrain
    BY DEF Tick, Stop, Drain
  <2>4. log \o retireQueue \in Seq(Uops)
    BY <2>1, ConcatProperties
  <2>5. <<>> \in Seq(Uops)
    BY EmptySeq
  <2>6. RoundAfterDrain \in Nat
    BY <2>1, <2>2 DEF RoundAfterDrain
  <2> QED
    BY <2>3, <2>4, <2>5, <2>6
<1>2. StorageTypeOK'
  BY DEF Tick, Stop, TypeOK, StorageTypeOK, storageVars
<1>3. RobTypeOK'
  BY <1>1 DEF Tick, Stop, TypeOK, RobTypeOK
<1>4. LoopTypeOK'
  BY DEF Tick, Stop, TypeOK, SchedulerTypeOK, LoopTypeOK
<1>5. SchedulerTypeOK'
  BY <1>4 DEF Tick, Stop, TypeOK, SchedulerTypeOK, QueueTypeOK, schedulerVars, queueVars
<1>6. PipelineTypeOK'
  BY <1>1 DEF Tick, Stop, TypeOK, PipelineTypeOK, frontVars, storageVars, Lams, prog
<1> QED
  BY <1>2, <1>3, <1>5, <1>6 DEF TypeOK

LEMMA InitTyped == Init => TypeOK
<1> SUFFICES ASSUME Init PROVE TypeOK
  OBVIOUS
<1>1. StorageTypeOK
  BY ConstantsTyped DEF Init, StorageInit, StorageTypeOK
<1>2. RobTypeOK
  BY EmptySeq DEF Init, RobInit, RobTypeOK
<1>3. LoopTypeOK
  BY EmptySeq DEF Init, SchedulerInit, LoopTypeOK
<1>4. QueueTypeOK
  BY EmptySeq DEF Init, SchedulerInit, QueueTypeOK
<1>5. SchedulerTypeOK
  BY <1>3, <1>4, EmptySeq DEF Init, SchedulerInit, SchedulerTypeOK
<1>6. PipelineTypeOK
  BY <1>1, ProgramTyped, EmptySeq, PipelineAssumption DEF Init, StorageTypeOK, PipelineTypeOK
<1> QED
  BY <1>1, <1>2, <1>5, <1>6 DEF TypeOK

LEMMA UnchangedTyped ==
  ASSUME TypeOK, UNCHANGED vars
  PROVE  TypeOK'
<1>1. StorageTypeOK' /\ RobTypeOK'
  BY DEF vars, storageVars, robVars, TypeOK, StorageTypeOK, RobTypeOK
<1>2. SchedulerTypeOK'
  BY DEF vars, loopVars, schedulerVars, queueVars, TypeOK, SchedulerTypeOK, LoopTypeOK, QueueTypeOK
<1>3. PipelineTypeOK'
  BY DEF vars, storageVars, frontVars, runVars, TypeOK, PipelineTypeOK, Lams, prog
<1> QED
  BY <1>1, <1>2, <1>3 DEF TypeOK

LEMMA NextTyped == TypeOK /\ [Next]_vars => TypeOK'
BY IssueTyped, ReorderBufferTyped, CycleSchedulerTyped, FillTyped, DrainTyped, UnchangedTyped
   DEF Next, Done

(* Whatever the stream and the parameters of the machine, every variable   *)
(* always holds a value of its type: the loops of the scheduler never meet *)
(* an id that is not a uop or a port it does not know, no counter becomes  *)
(* negative, and every stamp is a cycle.                                   *)
THEOREM TypeCorrect == Spec => []TypeOK
<1>1. Init => TypeOK
  BY InitTyped
<1>2. TypeOK /\ [Next]_vars => TypeOK'
  BY NextTyped
<1> QED
  BY <1>1, <1>2, PTL DEF Spec

-----------------------------------------------------------------------------
(* Program order.                                                          *)

(* The group belongs to no other run while it is being issued; after that  *)
(* the reorder buffer holds it and the scheduler merely walks over it.     *)
IssueGroup == IF phase \in {"issue", "rob"} THEN group ELSE <<>>

(* Laminated uops whose instruction has been issued, and the fused uop     *)
(* that is issued next: the merge uops of the head may be out already.     *)
IssuedLams == delivered - Len(idq)

NextFused ==
  IF lastMerge = IssuedLams + 1 THEN prog.lams[lastMerge].mid
  ELSE IF IssuedLams = 0 THEN 0 ELSE prog.lams[IssuedLams].end

InBuffer == CoreRetired + Len(rob)

(* The fill level test leaves room for the group that is being issued.     *)
LengthInv ==
  /\ Len(rob) <= RBWidth
  /\ Len(IssueGroup) <= IssueWidth
  /\ IssueGroup # <<>> => Len(rob) + IssueWidth <= RBWidth
  /\ phase \notin {"issue", "rob", "ready", "add"} => group = <<>>

SequenceInv ==
  /\ Len(idq) <= delivered /\ idq = RunOf(IssuedLams, delivered)
  /\ lastMerge <= IssuedLams + 1
  /\ lastMerge = IssuedLams + 1 => idq # <<>>
  /\ log = RunOf(0, Len(log))
  /\ retireQueue = RunOf(Len(log), CoreRetired)
  /\ rob = RunOf(CoreRetired, InBuffer)
  /\ IssueGroup = RunOf(InBuffer, NextFused)
  /\ NextFused = InBuffer + Len(IssueGroup)

Follows(f, g) ==
  \/ fused[f].retired < fused[g].retired
  \/ fused[f].retired = fused[g].retired /\ fused[f].idx < fused[g].idx

StampInv ==
  /\ phase \in {"issue", "rob"} => retireQueue = <<>>
  /\ \A f \in Uops : Retired(f) <=> f <= CoreRetired
  /\ \A f \in Uops : f <= Len(log) /\ phase # "done" => fused[f].retired < clock
  /\ \A f \in Uops : Len(log) < f /\ f <= CoreRetired =>
       fused[f].retired = clock /\ fused[f].idx = f - Len(log) - 1
  /\ \A f \in 2..NumUops : f <= CoreRetired => Follows(f - 1, f)

RoundInv == rnd = IF log = <<>> THEN 0 ELSE prog.round[Len(log)]

OrderInv == LengthInv /\ SequenceInv /\ StampInv /\ RoundInv

-----------------------------------------------------------------------------
(* Runs of consecutive ids.                                                *)

LEMMA RunOfNat ==
  ASSUME NEW m \in Nat, NEW n \in Nat, m <= n
  PROVE  RunOf(m, n) \in Seq(Nat) /\ Len(RunOf(m, n)) = n - m
<1>1. RunOf(m, n) \in Seq(m + 1 .. n) /\ Len(RunOf(m, n)) = n - m
  BY RunOfProperties
<1>2. m + 1 .. n \subseteq Nat
  OBVIOUS
<1> QED
  BY <1>1, <1>2, SeqMonotonic

LEMMA RunOfEmpty ==
  ASSUME NEW m \in Nat
  PROVE  RunOf(m, m) = <<>>
<1>1. RunOf(m, m) \in Seq(Nat) /\ Len(RunOf(m, m)) = 0
  BY RunOfNat
<1> QED
  BY <1>1, EmptySeq

LEMMA RunOfConcat ==
  ASSUME NEW l \in Nat, NEW m \in Nat, NEW n \in Nat, l <= m, m <= n
  PROVE  RunOf(l, m) \o RunOf(m, n) = RunOf(l, n)
<1> DEFINE a == RunOf(l, m)
<1> DEFINE b == RunOf(m, n)
<1> DEFINE c == RunOf(l, n)
<1> DEFINE d == a \o b
<1>1. l <= n
  OBVIOUS
<1>2. /\ a \in Seq(Nat) /\ Len(a) = m - l
      /\ b \in Seq(Nat) /\ Len(b) = n - m
      /\ c \in Seq(Nat) /\ Len(c) = n - l
  BY <1>1, RunOfNat
<1>3. /\ \A i \in 1..(m - l) : a[i] = l + i
      /\ \A i \in 1..(n - m) : b[i] = m + i
      /\ \A i \in 1..(n - l) : c[i] = l + i
  BY DEF RunOf
<1> HIDE DEF a, b, c
<1>4. /\ d \in Seq(Nat) /\ Len(d) = Len(a) + Len(b)
      /\ \A i \in 1..Len(a) + Len(b) : d[i] = IF i <= Len(a) THEN a[i] ELSE b[i - Len(a)]
  BY <1>2, ConcatProperties
<1> HIDE DEF d
<1>5. Len(a) + Len(b) = n - l /\ Len(d) = n - l
  BY <1>2, <1>4
<1>6. \A i \in 1..(n - l) : d[i] = l + i
  <2> TAKE i \in 1..(n - l)
  <2>1. d[i] = IF i <= m - l THEN a[i] ELSE b[i - (m - l)]
    BY <1>2, <1>4, <1>5
  <2>2. CASE i <= m - l
    BY <1>3, <2>1, <2>2
  <2>3. CASE i > m - l
    <3>1. i - (m - l) \in 1..(n - m) /\ ~(i <= m - l)
      BY <2>3
    <3> QED
      BY <1>3, <2>1, <3>1
  <2> QED
    BY <2>2, <2>3
<1>7. d = c
  BY <1>2, <1>3, <1>4, <1>5, <1>6, SeqEqual
<1> QED
  BY <1>7 DEF a, b, c, d

LEMMA RunOfSplit ==
  ASSUME NEW m \in Nat, NEW n \in Nat, m <= n, NEW k \in 0..(n - m)
  PROVE  /\ SubSeq(RunOf(m, n), 1, k) = RunOf(m, m + k)
         /\ SubSeq(RunOf(m, n), k + 1, n - m) = RunOf(m + k, n)
<1> DEFINE r == RunOf(m, n)
<1>1. r \in Seq(Nat) /\ Len(r) = n - m
  BY RunOfNat
<1>2. /\ SubSeq(r, 1, k) \in Seq(Nat) /\ Len(SubSeq(r, 1, k)) = k
      /\ \A i \in 1..k : SubSeq(r, 1, k)[i] = r[i]
      /\ SubSeq(r, k + 1, n - m) \in Seq(Nat)
      /\ Len(SubSeq(r, k + 1, n - m)) = n - m - k
      /\ \A i \in 1..(n - m - k) : SubSeq(r, k + 1, n - m)[i] = r[k + i]
  <2> HIDE DEF r
  <2> DEFINE l == Len(r)
  <2>1. k \in 0..l /\ l = n - m
    BY <1>1
  <2>2. /\ SubSeq(r, 1, k) \in Seq(Nat) /\ Len(SubSeq(r, 1, k)) = k
        /\ \A i \in 1..k : SubSeq(r, 1, k)[i] = r[i]
        /\ SubSeq(r, k + 1, l) \in Seq(Nat)
        /\ Len(SubSeq(r, k + 1, l)) = l - k
        /\ \A i \in 1..(l - k) : SubSeq(r, k + 1, l)[i] = r[k + i]
    BY <1>1, <2>1, SplitProperties
  <2> HIDE DEF l
  <2> QED
    BY <2>1, <2>2
<1>3. \A i \in 1..(n - m) : RunOf(m, n)[i] = m + i
  BY DEF RunOf
<1>4. SubSeq(RunOf(m, n), 1, k) = RunOf(m, m + k)
  <2>1. RunOf(m, m + k) \in Seq(Nat) /\ Len(RunOf(m, m + k)) = k
    <3>1. m + k \in Nat /\ m <= m + k
      OBVIOUS
    <3> QED
      BY <3>1, RunOfNat
  <2>2. \A i \in 1..k : RunOf(m, m + k)[i] = m + i
    BY DEF RunOf
  <2> QED
    BY <1>2, <1>3, <2>1, <2>2, SeqEqual
<1>5. SubSeq(RunOf(m, n), k + 1, n - m) = RunOf(m + k, n)
  <2>1. RunOf(m + k, n) \in Seq(Nat) /\ Len(RunOf(m + k, n)) = n - m - k
    <3>1. m + k \in Nat /\ m + k <= n
      OBVIOUS
    <3> QED
      BY <3>1, RunOfNat
  <2>2. \A i \in 1..(n - m - k) : RunOf(m + k, n)[i] = m + k + i
    BY DEF RunOf
  <2> QED
    BY <1>2, <1>3, <2>1, <2>2, SeqEqual
<1> QED
  BY <1>4, <1>5

LEMMA RunOfTail ==
  ASSUME NEW m \in Nat, NEW n \in Nat, m < n
  PROVE  RunOf(m, n)[1] = m + 1 /\ Tail(RunOf(m, n)) = RunOf(m + 1, n)
<1>1. RunOf(m, n) \in Seq(Nat) /\ Len(RunOf(m, n)) = n - m /\ RunOf(m, n) # <<>>
  BY RunOfNat, EmptySeq
<1>2. Tail(RunOf(m, n)) = SubSeq(RunOf(m, n), 2, n - m)
  BY <1>1, TailIsSubSeq
<1>3. SubSeq(RunOf(m, n), 1 + 1, n - m) = RunOf(m + 1, n)
  <2>1. 1 \in 0..(n - m) /\ m <= n
    OBVIOUS
  <2> QED
    BY <2>1, RunOfSplit
<1> QED
  BY <1>2, <1>3 DEF RunOf

-----------------------------------------------------------------------------
(* What a step leaves alone.                                               *)

(* Everything the order of fused uops depends on.                          *)
orderVars == <<stream, clock, fused, robVars, frontVars, runVars>>

(* The scheduler only walks over the group, from which the reorder buffer  *)
(* has already taken it.                                                   *)
LEMMA SchedulerFrame ==
  ASSUME CycleScheduler
  PROVE  /\ UNCHANGED orderVars
         /\ phase \notin {"issue", "rob", "fill", "drain", "done"}
         /\ phase' \notin {"issue", "rob", "drain", "done"}
         /\ \/ phase \in {"ready", "add"} /\ phase' \in {"ready", "add"}
            \/ phase \in {"ready", "add"} /\ group = <<>> /\ group' = <<>>
            \/ phase \notin {"ready", "add"} /\ group' = group
<1>1. UNCHANGED <<robVars, frontVars, runVars>>
  BY DEF CycleScheduler
<1>2. CASE MoveReadyUop \/ EndMoveReady \/ VisitFused \/ SkipUop \/ AddNewUop
  BY <1>1, <1>2
     DEF MoveReadyUop, EndMoveReady, VisitFused, SkipUop, AddNewUop, orderVars, storageVars
<1>3. CASE BeginDispatch \/ DispatchUop \/ IdlePort \/ EndDispatch
  BY <1>1, <1>3
     DEF BeginDispatch, DispatchUop, IdlePort, EndDispatch, EnterLoop, orderVars, storageVars
<1>4. CASE FinishPendingUop \/ KeepPendingUop \/ EndPending \/ WakeDependent
  BY <1>1, <1>4
     DEF FinishPendingUop, KeepPendingUop, EndPending, WakeDependent, EnterLoop, orderVars,
         storageVars
<1>5. CASE BeginNonReady \/ MakeReady \/ StayNonReady \/ EndNonReady \/ EndSchedulerCycle
  BY <1>1, <1>5
     DEF BeginNonReady, MakeReady, StayNonReady, EndNonReady, EndSchedulerCycle, EnterLoop,
         orderVars, storageVars
<1> QED
  BY <1>2, <1>3, <1>4, <1>5 DEF CycleScheduler, SchedulerNext

(* Steps that concern neither the reorder buffer nor the issue group.      *)
Elsewhere == CycleScheduler \/ Stall \/ NoFill \/ Done \/ UNCHANGED vars

LEMMA ElsewhereFrame ==
  ASSUME Elsewhere
  PROVE  /\ UNCHANGED <<stream, clock, fused, robVars, idq, delivered, lastMerge, runVars>>
         /\ phase' \in {"issue", "rob"} <=> phase \in {"issue", "rob"}
         /\ phase \in {"issue", "rob"} => group' = group
         /\ phase' = "done" <=> phase = "done"
<1>1. CASE CycleScheduler
  BY <1>1, SchedulerFrame DEF orderVars, frontVars
<1>2. CASE Stall \/ NoFill
  BY <1>2 DEF Stall, NoFill, storageVars, frontVars
<1>3. CASE Done \/ UNCHANGED vars
  BY <1>3 DEF Done, vars, storageVars, loopVars, frontVars
<1> QED
  BY <1>1, <1>2, <1>3 DEF Elsewhere

-----------------------------------------------------------------------------
(* The reorder buffer does not overflow.                                   *)

LEMMA LengthInit == Init => LengthInv
BY EmptySeq, WidthsAssumption DEF Init, RobInit, SchedulerInit, LengthInv, IssueGroup

LEMMA LengthElsewhere ==
  ASSUME TypeOK, LengthInv, Elsewhere
  PROVE  LengthInv'
<1>1. rob' = rob /\ IssueGroup' = IssueGroup
  BY ElsewhereFrame DEF IssueGroup, robVars
<1>2. (phase \notin {"issue", "rob", "ready", "add"} => group = <<>>)'
  <2>1. CASE CycleScheduler
    BY <2>1, SchedulerFrame DEF LengthInv
  <2>2. CASE Stall \/ NoFill \/ Done \/ UNCHANGED vars
    BY <2>2 DEF Stall, NoFill, Done, vars, loopVars, LengthInv
  <2> QED
    BY <2>1, <2>2 DEF Elsewhere
<1> QED
  BY <1>1, <1>2 DEF LengthInv

LEMMA LengthStep ==
  ASSUME TypeOK, LengthInv, [Next]_vars
  PROVE  LengthInv'
<1>1. /\ rob \in Seq(Uops) /\ group \in Seq(Uops) /\ idq \in Seq(Lams)
      /\ stream \in DOMAIN Streams /\ Len(rob) \in Nat /\ Len(group) \in Nat
  BY LenProperties
     DEF TypeOK, RobTypeOK, SchedulerTypeOK, LoopTypeOK, PipelineTypeOK, StorageTypeOK
<1>2. IssueWidth \in Nat /\ RBWidth \in Nat
  BY WidthsAssumption
<1>3. CASE IssueLam \/ IssueMerges
  <2>1. Len(rob) + IssueWidth <= RBWidth
    BY <1>1, <1>2, <1>3 DEF IssueLam, IssueMerges, MayIssue, ROBFull
  <2>2. idq[1] \in Lams
    BY <1>1, <1>3, RunsTyped DEF IssueLam, IssueMerges, MayIssue
  <2>3. /\ HeadLam.start \in Nat /\ HeadLam.mid \in Nat /\ HeadLam.end \in Nat
        /\ HeadLam.start <= HeadLam.mid /\ HeadLam.mid <= HeadLam.end
        /\ HeadLam.mid - HeadLam.start <= IssueWidth
    <3>1. stream \in DOMAIN Streams
      BY <1>1
    <3>2. LET lam == prog.lams[idq[1]]
          IN  /\ lam.start \in Nat /\ lam.mid \in Nat /\ lam.end \in Nat
              /\ lam.start <= lam.mid /\ lam.mid < lam.end
              /\ lam.mid - lam.start <= IssueWidth
      BY <2>2, <3>1, LamTyped
    <3> QED
      BY <3>2 DEF HeadLam
  <2>4. Len(group') <= IssueWidth
    <3>1. CASE IssueLam
      <4>1. group' = group \o RunOf(HeadLam.mid, HeadLam.end)
        BY <3>1 DEF IssueLam
      <4>2. Len(group) + HeadLam.end - HeadLam.mid <= IssueWidth
        BY <3>1 DEF IssueLam, MayIssue
      <4>3. /\ RunOf(HeadLam.mid, HeadLam.end) \in Seq(Uops)
            /\ Len(RunOf(HeadLam.mid, HeadLam.end)) = HeadLam.end - HeadLam.mid
        BY <1>1, <2>3, <3>1, RunsTyped, RunOfProperties DEF IssueLam, MayIssue
      <4>4. Len(group') = Len(group) + (HeadLam.end - HeadLam.mid)
        BY <1>1, <4>1, <4>3, ConcatProperties
      <4> QED
        BY <1>1, <1>2, <2>3, <4>2, <4>4
    <3>2. CASE IssueMerges
      <4>1. Len(RunOf(HeadLam.start, HeadLam.mid)) = HeadLam.mid - HeadLam.start
        BY <2>3, RunOfProperties
      <4> QED
        BY <1>1, <2>3, <3>2, <4>1, RunsTyped DEF IssueMerges, MayIssue
    <3> QED
      BY <1>3, <3>1, <3>2
  <2>5. rob' = rob /\ phase' \in {"issue", "rob"}
    BY <1>3 DEF IssueLam, IssueMerges, robVars
  <2> QED
    BY <2>1, <2>4, <2>5 DEF LengthInv, IssueGroup
<1>4. CASE EndIssue
  BY <1>4 DEF EndIssue, LengthInv, IssueGroup, robVars
<1>5. CASE CycleReorderBuffer
  <2>1. PICK n \in 0..Len(rob) : rob' = SubSeq(rob, n + 1, Len(rob)) \o group
    BY <1>5 DEF CycleReorderBuffer, ReorderBufferCycle, AddUops, AfterCycle
  <2>2. /\ SubSeq(rob, n + 1, Len(rob)) \in Seq(Uops)
        /\ Len(SubSeq(rob, n + 1, Len(rob))) = Len(rob) - n
    BY <1>1, SplitProperties
  <2>3. Len(rob') = Len(rob) - n + Len(group)
    BY <1>1, <2>1, <2>2, ConcatProperties
  <2>4. Len(group) <= IssueWidth /\ (group # <<>> => Len(rob) + IssueWidth <= RBWidth)
    BY <1>5 DEF CycleReorderBuffer, LengthInv, IssueGroup
  <2>5. group = <<>> => Len(group) = 0
    BY EmptySeq
  <2>6. Len(rob') <= RBWidth
    BY <1>1, <1>2, <2>3, <2>4, <2>5 DEF LengthInv
  <2>7. phase' = "ready"
    BY <1>5 DEF CycleReorderBuffer, BeginMoveReady, EnterLoop
  <2> QED
    BY <1>2, <2>6, <2>7, EmptySeq DEF LengthInv, IssueGroup
<1>6. CASE Deliver
  BY <1>2, <1>6, EmptySeq DEF Deliver, LengthInv, IssueGroup, robVars
<1>7. CASE Tick \/ Stop
  BY <1>2, <1>7, EmptySeq DEF Tick, Stop, LengthInv, IssueGroup
<1>8. CASE Elsewhere
  BY <1>8, LengthElsewhere
<1> QED
  BY <1>3, <1>4, <1>5, <1>6, <1>7, <1>8 DEF Next, Elsewhere

(* The reorder buffer never holds more than rb_width fused uops, although  *)
(* ReorderBuffer::is_full is asked before the size of the group is known.  *)
THEOREM ROBNeverOverflows == Spec => []ROBWithinCapacity
<1>1. Init => LengthInv
  BY LengthInit
<1>2. TypeOK /\ LengthInv /\ [Next]_vars => LengthInv'
  BY LengthStep
<1>3. LengthInv => ROBWithinCapacity
  BY DEF LengthInv, ROBWithinCapacity
<1> QED
  BY <1>1, <1>2, <1>3, TypeCorrect, PTL DEF Spec

-----------------------------------------------------------------------------
(* Everything in flight is one run of consecutive fused uops.              *)

LEMMA BordersTyped ==
  ASSUME TypeOK, SequenceInv
  PROVE  /\ Len(log) \in Nat /\ Len(retireQueue) \in Nat /\ Len(rob) \in Nat
         /\ Len(IssueGroup) \in Nat /\ Len(idq) \in Nat
         /\ CoreRetired \in Nat /\ InBuffer \in Nat /\ NextFused \in Nat
         /\ IssuedLams \in Nat /\ delivered \in Nat /\ delivered <= Len(prog.lams)
         /\ IssuedLams <= delivered /\ Len(prog.lams) \in Nat
         /\ CoreRetired <= InBuffer /\ InBuffer <= NextFused /\ Len(log) <= CoreRetired
         /\ rob \in Seq(Uops) /\ retireQueue \in Seq(Uops) /\ log \in Seq(Uops)
         /\ group \in Seq(Uops) /\ idq \in Seq(Lams) /\ stream \in DOMAIN Streams
         /\ lastMerge \in Int
<1>1. /\ rob \in Seq(Uops) /\ retireQueue \in Seq(Uops) /\ log \in Seq(Uops)
      /\ group \in Seq(Uops) /\ idq \in Seq(Lams) /\ stream \in DOMAIN Streams
      /\ delivered \in 0..Len(prog.lams) /\ lastMerge \in Lams \cup {None}
  BY DEF TypeOK, RobTypeOK, PipelineTypeOK, SchedulerTypeOK, LoopTypeOK, StorageTypeOK
<1>2. IssueGroup \in Seq(Uops)
  BY <1>1, EmptySeq DEF IssueGroup
<1>3. /\ Len(log) \in Nat /\ Len(retireQueue) \in Nat /\ Len(rob) \in Nat
      /\ Len(IssueGroup) \in Nat /\ Len(idq) \in Nat
  BY <1>1, <1>2, LenProperties
<1>4. Len(prog.lams) \in Nat
  BY <1>1, ProgramTyped
<1>5. IssuedLams \in Nat /\ IssuedLams <= delivered
  <2>1. Len(idq) <= delivered
    BY DEF SequenceInv
  <2> QED
    BY <1>1, <1>3, <1>4, <2>1 DEF IssuedLams
<1>6. /\ CoreRetired \in Nat /\ InBuffer \in Nat
      /\ Len(log) <= CoreRetired /\ CoreRetired <= InBuffer
  BY <1>3 DEF CoreRetired, InBuffer
<1>7. NextFused \in Nat /\ InBuffer <= NextFused
  <2>1. NextFused = InBuffer + Len(IssueGroup)
    BY DEF SequenceInv
  <2> QED
    BY <1>3, <1>6, <2>1
<1>8. delivered \in Nat /\ delivered <= Len(prog.lams)
  BY <1>1, <1>4
<1>9. lastMerge \in Int
  <2>1. prog.lams \in Seq(LaminatedUop)
    BY <1>1, ProgramTyped
  <2>2. Lams = 1..Len(prog.lams)
    BY <2>1, LenProperties DEF Lams
  <2> QED
    BY <1>1, <1>4, <2>2 DEF None
<1> QED
  BY <1>1, <1>3, <1>4, <1>5, <1>6, <1>7, <1>8, <1>9

(* The head of the idq is the laminated uop after the ones issued.         *)
LEMMA HeadProperties ==
  ASSUME TypeOK, SequenceInv, idq # <<>>
  PROVE  /\ idq[1] = IssuedLams + 1 /\ idq[1] \in Lams
         /\ Tail(idq) = RunOf(IssuedLams + 1, delivered)
         /\ Len(Tail(idq)) = Len(idq) - 1 /\ IssuedLams + 1 <= delivered
         /\ HeadLam.start = IF IssuedLams = 0 THEN 0 ELSE prog.lams[IssuedLams].end
         /\ HeadLam.start \in Nat /\ HeadLam.mid \in Nat /\ HeadLam.end \in Nat
         /\ HeadLam.start <= HeadLam.mid /\ HeadLam.mid <= HeadLam.end
<1>1. Len(idq) \in Nat \ {0} /\ Len(Tail(idq)) = Len(idq) - 1
  BY BordersTyped, EmptySeq, HeadTailProperties
<1>2. IssuedLams \in Nat /\ delivered \in Nat /\ IssuedLams < delivered
  BY <1>1, BordersTyped DEF IssuedLams
<1>3. idq[1] = IssuedLams + 1 /\ Tail(idq) = RunOf(IssuedLams + 1, delivered)
  BY <1>2, RunOfTail DEF SequenceInv
<1>4. idq[1] \in Lams
  BY BordersTyped, RunsTyped
<1>5. HeadLam.start = IF IssuedLams = 0 THEN 0 ELSE prog.lams[IssuedLams].end
  <2>1. stream \in DOMAIN Streams
    BY BordersTyped
  <2>2. /\ idq[1] > 1 => HeadLam.start = prog.lams[idq[1] - 1].end
        /\ idq[1] = 1 => HeadLam.start = 0
    BY <1>4, <2>1, LamTyped DEF HeadLam
  <2> QED
    BY <1>2, <1>3, <2>2
<1>6. /\ HeadLam.start \in Nat /\ HeadLam.mid \in Nat /\ HeadLam.end \in Nat
      /\ HeadLam.start <= HeadLam.mid /\ HeadLam.mid <= HeadLam.end
  <2>1. stream \in DOMAIN Streams
    BY BordersTyped
  <2>2. /\ HeadLam.start \in Nat /\ HeadLam.mid \in Nat /\ HeadLam.end \in Nat
        /\ HeadLam.start <= HeadLam.mid /\ HeadLam.mid < HeadLam.end
    BY <1>4, <2>1, LamTyped DEF HeadLam
  <2> QED
    BY <2>2
<1>7. IssuedLams + 1 <= delivered
  BY <1>2
<1> QED
  BY <1>1, <1>3, <1>4, <1>5, <1>6, <1>7

LEMMA SequenceInit == Init => SequenceInv
<1> SUFFICES ASSUME Init PROVE SequenceInv
  OBVIOUS
<1>1. /\ idq = <<>> /\ log = <<>> /\ rob = <<>> /\ retireQueue = <<>> /\ group = <<>>
      /\ delivered = 0 /\ lastMerge = None
      /\ Len(idq) = 0 /\ Len(log) = 0 /\ Len(rob) = 0 /\ Len(retireQueue) = 0
  BY EmptySeq DEF Init, RobInit, SchedulerInit
<1>2. /\ IssuedLams = 0 /\ CoreRetired = 0 /\ InBuffer = 0
      /\ IssueGroup = <<>> /\ Len(IssueGroup) = 0
  <2>1. IssueGroup = <<>> /\ Len(IssueGroup) = 0
    BY <1>1, EmptySeq DEF IssueGroup
  <2>2. IssuedLams = 0
    <3>1. delivered = 0 /\ Len(idq) = 0
      BY <1>1
    <3> QED
      BY <3>1 DEF IssuedLams
  <2>3. CoreRetired = 0
    <3>1. Len(log) = 0 /\ Len(retireQueue) = 0
      BY <1>1
    <3> QED
      BY <3>1 DEF CoreRetired
  <2> QED
    BY <1>1, <2>1, <2>2, <2>3 DEF InBuffer
<1>3. NextFused = 0
  BY <1>1, <1>2 DEF NextFused, None
<1>4. RunOf(0, 0) = <<>>
  BY RunOfEmpty
<1> QED
  BY <1>1, <1>2, <1>3, <1>4 DEF SequenceInv, None

LEMMA SequenceElsewhere ==
  ASSUME SequenceInv, Elsewhere
  PROVE  SequenceInv'
<1>1. /\ UNCHANGED <<prog, rob, retireQueue, idq, delivered, lastMerge, log>>
      /\ IssueGroup' = IssueGroup
  BY ElsewhereFrame DEF robVars, runVars, prog, IssueGroup
<1>2. UNCHANGED <<IssuedLams, NextFused, CoreRetired, InBuffer>>
  BY <1>1 DEF IssuedLams, NextFused, CoreRetired, InBuffer
<1> QED
  BY <1>1, <1>2 DEF SequenceInv

(* An instruction of the idq joins the group behind its merge uops.        *)
LEMMA SequenceIssueLam ==
  ASSUME TypeOK, SequenceInv, IssueLam
  PROVE  SequenceInv'
<1>1. /\ UNCHANGED <<stream, rob, retireQueue, delivered, lastMerge, log>>
      /\ idq # <<>> /\ idq' = Tail(idq) /\ phase = "issue" /\ phase' = "issue"
      /\ group' = group \o RunOf(HeadLam.mid, HeadLam.end)
  BY DEF IssueLam, MayIssue, storageVars, robVars, runVars
<1>2. UNCHANGED <<prog, CoreRetired, InBuffer>>
  BY <1>1 DEF prog, CoreRetired, InBuffer
<1>3. IssuedLams' = IssuedLams + 1
  <2>1. Len(idq') = Len(idq) - 1 /\ delivered' = delivered
    BY <1>1, HeadProperties
  <2>2. Len(idq) \in Nat /\ delivered \in Nat
    BY BordersTyped
  <2> QED
    BY <2>1, <2>2 DEF IssuedLams
<1>4. /\ IssuedLams \in Nat /\ InBuffer \in Nat /\ InBuffer <= NextFused
      /\ idq[1] = IssuedLams + 1
  BY <1>1, BordersTyped, HeadProperties
<1>5. NextFused = HeadLam.mid
  <2>1. lastMerge = IssuedLams + 1 => NextFused = HeadLam.mid
    BY <1>4 DEF NextFused, HeadLam
  <2>2. lastMerge # IssuedLams + 1 => NextFused = HeadLam.start
    BY <1>1, HeadProperties DEF NextFused
  <2>3. lastMerge # IssuedLams + 1 => ~HasMerges
    BY <1>4 DEF IssueLam, MayIssue, MustMerge
  <2>4. ~HasMerges => HeadLam.start = HeadLam.mid
    <3>1. HasMerges <=> HeadLam.start < HeadLam.mid
      BY <1>1, BordersTyped, RunsTyped
    <3>2. HeadLam.start \in Nat /\ HeadLam.mid \in Nat /\ HeadLam.start <= HeadLam.mid
      BY <1>1, HeadProperties
    <3> QED
      BY <3>1, <3>2
  <2> QED
    BY <2>1, <2>2, <2>3, <2>4
<1>6. NextFused' = HeadLam.end
  <2>1. lastMerge' # IssuedLams' + 1
    <3>1. lastMerge <= IssuedLams + 1 /\ lastMerge \in Int
      BY BordersTyped DEF SequenceInv
    <3> QED
      BY <1>1, <1>3, <1>4, <3>1
  <2>2. IssuedLams' # 0 /\ prog'.lams[IssuedLams'] = prog.lams[idq[1]]
    BY <1>2, <1>3, <1>4
  <2> QED
    BY <2>1, <2>2 DEF NextFused, HeadLam
<1>7. HeadLam.mid \in Nat /\ HeadLam.end \in Nat /\ HeadLam.mid <= HeadLam.end
  BY <1>1, HeadProperties
<1>8. IssueGroup' = RunOf(InBuffer', NextFused') /\ NextFused' = InBuffer' + Len(IssueGroup')
  <2>1. IssueGroup' = RunOf(InBuffer, HeadLam.mid) \o RunOf(HeadLam.mid, HeadLam.end)
    BY <1>1, <1>5 DEF IssueGroup, SequenceInv
  <2>2. IssueGroup' = RunOf(InBuffer, HeadLam.end)
    BY <1>4, <1>5, <1>7, <2>1, RunOfConcat
  <2>3. InBuffer <= HeadLam.end
    BY <1>4, <1>5, <1>7
  <2>4. Len(IssueGroup') = HeadLam.end - InBuffer
    BY <1>4, <1>7, <2>2, <2>3, RunOfNat
  <2> QED
    BY <1>2, <1>4, <1>6, <1>7, <2>2, <2>4
<1>9. Len(idq') <= delivered' /\ idq' = RunOf(IssuedLams', delivered')
  <2>1. Len(idq') = Len(idq) - 1 /\ idq' = RunOf(IssuedLams + 1, delivered)
    BY <1>1, HeadProperties
  <2>2. Len(idq) \in Nat /\ delivered \in Nat /\ Len(idq) <= delivered
    BY BordersTyped DEF SequenceInv
  <2> QED
    BY <1>1, <1>3, <2>1, <2>2
<1>10. lastMerge' <= IssuedLams' + 1 /\ lastMerge' # IssuedLams' + 1
  <2>1. lastMerge <= IssuedLams + 1 /\ lastMerge \in Int
    BY BordersTyped DEF SequenceInv
  <2>2. lastMerge <= (IssuedLams + 1) + 1 /\ lastMerge # (IssuedLams + 1) + 1
    BY <1>4, <2>1
  <2>3. lastMerge' = lastMerge /\ IssuedLams' = IssuedLams + 1
    BY <1>1, <1>3
  <2> QED
    BY <2>2, <2>3
<1> QED
  BY <1>1, <1>2, <1>8, <1>9, <1>10 DEF SequenceInv

(* Merge uops are issued alone, when everything before them is out.        *)
LEMMA SequenceIssueMerges ==
  ASSUME TypeOK, SequenceInv, IssueMerges
  PROVE  SequenceInv'
<1>1. /\ UNCHANGED <<stream, rob, retireQueue, idq, delivered, log>>
      /\ idq # <<>> /\ phase = "issue" /\ phase' = "rob" /\ group = <<>>
      /\ group' = RunOf(HeadLam.start, HeadLam.mid)
      /\ lastMerge' = idq[1] /\ lastMerge # idq[1]
  BY BordersTyped, RunsTyped DEF IssueMerges, MayIssue, MustMerge, robVars, runVars
<1>2. UNCHANGED <<prog, CoreRetired, InBuffer, IssuedLams>>
  BY <1>1 DEF prog, CoreRetired, InBuffer, IssuedLams
<1>3. idq[1] = IssuedLams + 1 /\ IssuedLams \in Nat /\ InBuffer \in Nat
  BY <1>1, BordersTyped, HeadProperties
<1>4. InBuffer = HeadLam.start
  <2>1. NextFused = HeadLam.start
    BY <1>1, <1>3, HeadProperties DEF NextFused
  <2>2. NextFused = InBuffer + Len(IssueGroup) /\ Len(IssueGroup) = 0
    BY <1>1, EmptySeq DEF SequenceInv, IssueGroup
  <2> QED
    BY <1>3, <2>1, <2>2
<1>5. NextFused' = HeadLam.mid
  BY <1>1, <1>2, <1>3 DEF NextFused, HeadLam
<1>6. IssueGroup' = RunOf(InBuffer', NextFused') /\ NextFused' = InBuffer' + Len(IssueGroup')
  <2>1. /\ HeadLam.start \in Nat /\ HeadLam.mid \in Nat /\ HeadLam.start <= HeadLam.mid
    BY <1>1, HeadProperties
  <2>2. IssueGroup' = RunOf(HeadLam.start, HeadLam.mid)
    BY <1>1 DEF IssueGroup
  <2>3. Len(IssueGroup') = HeadLam.mid - HeadLam.start
    BY <2>1, <2>2, RunOfNat
  <2> QED
    BY <1>2, <1>4, <1>5, <2>1, <2>2, <2>3
<1> QED
  BY <1>1, <1>2, <1>3, <1>6 DEF SequenceInv

LEMMA SequenceEndIssue ==
  ASSUME SequenceInv, EndIssue
  PROVE  SequenceInv'
<1>1. /\ UNCHANGED <<prog, rob, retireQueue, idq, delivered, lastMerge, log>>
      /\ IssueGroup' = IssueGroup
  BY DEF EndIssue, prog, robVars, frontVars, runVars, IssueGroup
<1>2. UNCHANGED <<IssuedLams, NextFused, CoreRetired, InBuffer>>
  BY <1>1 DEF IssuedLams, NextFused, CoreRetired, InBuffer
<1> QED
  BY <1>1, <1>2 DEF SequenceInv

(* ReorderBuffer::cycle moves the border between retireQueue and rob up by *)
(* the retired uops and the end of rob up by the group.                    *)
LEMMA CycleBorders ==
  ASSUME TypeOK, SequenceInv, CycleReorderBuffer
  PROVE  \E n \in 0..Len(rob) :
           /\ RetireUops(n)
           /\ retireQueue' = RunOf(Len(log), CoreRetired + n)
           /\ Len(retireQueue') = Len(retireQueue) + n
           /\ rob' = RunOf(CoreRetired + n, NextFused)
           /\ Len(rob') = NextFused - (CoreRetired + n)
<1>1. PICK n \in 0..Len(rob) : RetireUops(n) /\ AddUops(n, group)
  BY DEF CycleReorderBuffer, ReorderBufferCycle
<1>2. /\ retireQueue' = retireQueue \o SubSeq(rob, 1, n)
      /\ rob' = SubSeq(rob, n + 1, Len(rob)) \o group
  BY <1>1 DEF RetireUops, AddUops, AfterCycle
<1>3. group = RunOf(InBuffer, NextFused)
  BY DEF CycleReorderBuffer, IssueGroup, SequenceInv
<1>4. /\ Len(log) \in Nat /\ CoreRetired \in Nat /\ InBuffer \in Nat /\ NextFused \in Nat
      /\ Len(log) <= CoreRetired /\ CoreRetired <= InBuffer /\ InBuffer <= NextFused
      /\ Len(rob) \in Nat /\ InBuffer = CoreRetired + Len(rob)
  BY BordersTyped DEF InBuffer
<1>5. /\ rob = RunOf(CoreRetired, InBuffer)
      /\ retireQueue = RunOf(Len(log), CoreRetired)
  BY DEF SequenceInv
<1> DEFINE k == CoreRetired + n
<1>6. /\ SubSeq(rob, 1, n) = RunOf(CoreRetired, k)
      /\ SubSeq(rob, n + 1, Len(rob)) = RunOf(k, InBuffer)
  <2>1. n \in 0..(InBuffer - CoreRetired) /\ Len(rob) = InBuffer - CoreRetired
    BY <1>4
  <2> DEFINE c == CoreRetired
  <2> DEFINE b == InBuffer
  <2>2. c \in Nat /\ b \in Nat /\ c <= b /\ n \in 0..(b - c)
    BY <1>4, <2>1
  <2>3. k = c + n /\ rob = RunOf(c, b) /\ Len(rob) = b - c
    BY <1>5, <2>1
  <2> HIDE DEF c, b, k
  <2>4. /\ SubSeq(RunOf(c, b), 1, n) = RunOf(c, c + n)
        /\ SubSeq(RunOf(c, b), n + 1, b - c) = RunOf(c + n, b)
    BY <2>2, RunOfSplit
  <2>5. SubSeq(rob, 1, n) = RunOf(c, k) /\ SubSeq(rob, n + 1, Len(rob)) = RunOf(k, b)
    BY <2>3, <2>4
  <2> QED
    BY <2>5 DEF c, b
<1>7. /\ k \in Nat /\ Len(log) <= k /\ k <= InBuffer /\ CoreRetired <= k /\ k <= NextFused
      /\ k - Len(log) = (CoreRetired - Len(log)) + n
  BY <1>4
<1> HIDE DEF k
<1>8. retireQueue' = RunOf(Len(log), k)
  <2>1. retireQueue' = RunOf(Len(log), CoreRetired) \o RunOf(CoreRetired, k)
    BY <1>2, <1>5, <1>6
  <2> QED
    BY <1>4, <1>7, <2>1, RunOfConcat
<1>9. rob' = RunOf(k, NextFused)
  <2>1. rob' = RunOf(k, InBuffer) \o RunOf(InBuffer, NextFused)
    BY <1>2, <1>3, <1>6
  <2> QED
    BY <1>4, <1>7, <2>1, RunOfConcat
<1>10. Len(retireQueue') = k - Len(log) /\ Len(rob') = NextFused - k
  BY <1>4, <1>7, <1>8, <1>9, RunOfNat
<1>11. Len(retireQueue') = Len(retireQueue) + n
  <2>1. Len(retireQueue) \in Nat /\ CoreRetired = Len(log) + Len(retireQueue)
    BY BordersTyped DEF CoreRetired
  <2> QED
    BY <1>4, <1>7, <1>10, <2>1
<1> QED
  BY <1>1, <1>8, <1>9, <1>10, <1>11 DEF k

LEMMA SequenceCycle ==
  ASSUME TypeOK, SequenceInv, CycleReorderBuffer
  PROVE  SequenceInv'
<1>1. PICK n \in 0..Len(rob) :
        /\ retireQueue' = RunOf(Len(log), CoreRetired + n)
        /\ Len(retireQueue') = Len(retireQueue) + n
        /\ rob' = RunOf(CoreRetired + n, NextFused)
        /\ Len(rob') = NextFused - (CoreRetired + n)
  BY CycleBorders
<1>2. /\ UNCHANGED <<prog, idq, delivered, lastMerge, log>>
      /\ phase' = "ready"
  BY DEF CycleReorderBuffer, BeginMoveReady, EnterLoop, prog, frontVars, runVars
<1>3. UNCHANGED <<IssuedLams, NextFused>>
  BY <1>2 DEF IssuedLams, NextFused
<1>4. CoreRetired' = CoreRetired + n
  <2>1. Len(log) \in Nat /\ Len(retireQueue) \in Nat /\ Len(log') = Len(log)
    BY <1>2, BordersTyped
  <2> QED
    BY <1>1, <2>1 DEF CoreRetired
<1>5. InBuffer' = NextFused /\ NextFused \in Nat
  <2>1. NextFused \in Nat /\ CoreRetired \in Nat /\ Len(rob) \in Nat
    BY BordersTyped
  <2> QED
    BY <1>1, <1>4, <2>1 DEF InBuffer
<1>6. IssueGroup' = <<>> /\ Len(IssueGroup') = 0
  BY <1>2, EmptySeq DEF IssueGroup
<1>7. RunOf(NextFused, NextFused) = <<>>
  BY <1>5, RunOfEmpty
<1> QED
  BY <1>1, <1>2, <1>3, <1>4, <1>5, <1>6, <1>7 DEF SequenceInv

LEMMA SequenceDeliver ==
  ASSUME TypeOK, SequenceInv, Deliver
  PROVE  SequenceInv'
<1>1. PICK n \in 1..DeliverWidth :
        idq' = idq \o RunOf(delivered, delivered + n) /\ delivered' = delivered + n
  BY DEF Deliver
<1>2. /\ UNCHANGED <<prog, rob, retireQueue, lastMerge, log>>
      /\ IssueGroup' = IssueGroup
  BY DEF Deliver, prog, IssueGroup, storageVars, robVars, runVars
<1>3. /\ IssuedLams \in Nat /\ delivered \in Nat /\ IssuedLams <= delivered
      /\ Len(idq) \in Nat /\ Len(idq) <= delivered
  BY BordersTyped DEF SequenceInv
<1>4. n \in Nat /\ delivered + n \in Nat /\ IssuedLams <= delivered + n /\ delivered <= delivered + n
  BY <1>3, PipelineAssumption
<1> DEFINE d == delivered + n
<1>5. idq' = RunOf(IssuedLams, d)
  <2>1. d \in Nat /\ IssuedLams <= d /\ delivered <= d
    BY <1>4
  <2>2. idq' = RunOf(IssuedLams, delivered) \o RunOf(delivered, d)
    BY <1>1 DEF SequenceInv
  <2> HIDE DEF d
  <2> QED
    BY <1>3, <2>1, <2>2, RunOfConcat
<1>6. Len(idq') = delivered + n - IssuedLams
  <2>1. d \in Nat /\ IssuedLams <= d /\ d - IssuedLams = delivered + n - IssuedLams
    BY <1>3, <1>4
  <2> HIDE DEF d
  <2>2. Len(idq') = d - IssuedLams
    BY <1>3, <1>5, <2>1, RunOfNat
  <2> QED
    BY <2>1, <2>2
<1>7. Len(idq') = Len(idq) + n /\ IssuedLams' = IssuedLams
  <2>1. IssuedLams = delivered - Len(idq)
    BY DEF IssuedLams
  <2>2. Len(idq') = Len(idq) + n
    BY <1>3, <1>4, <1>6, <2>1
  <2>3. delivered' = delivered + n
    BY <1>1
  <2>4. delivered' - Len(idq') = delivered - Len(idq)
    BY <1>3, <1>4, <2>2, <2>3
  <2> QED
    BY <2>2, <2>4 DEF IssuedLams
<1>8. UNCHANGED <<NextFused, CoreRetired, InBuffer>>
  BY <1>2, <1>7 DEF NextFused, CoreRetired, InBuffer
<1>9. idq' # <<>> /\ Len(idq') <= delivered'
  <2>1. n >= 1
    OBVIOUS
  <2> QED
    BY <1>1, <1>3, <1>4, <1>7, <2>1, EmptySeq
<1> QED
  BY <1>1, <1>2, <1>5, <1>7, <1>8, <1>9 DEF SequenceInv

(* The run loop appends the retire queue to its log.                       *)
LEMMA SequenceDrain ==
  ASSUME TypeOK, LengthInv, SequenceInv, Tick \/ Stop
  PROVE  SequenceInv' /\ Len(log') = CoreRetired /\ CoreRetired' = CoreRetired
<1>1. /\ UNCHANGED <<prog, rob, idq, delivered, lastMerge, group>>
      /\ log' = log \o retireQueue /\ retireQueue' = <<>>
      /\ phase = "drain"
  BY DEF Tick, Stop, Drain, prog, storageVars, frontVars
<1>2. IssueGroup = <<>> /\ IssueGroup' = <<>>
  BY <1>1 DEF IssueGroup, LengthInv
<1>3. Len(log) \in Nat /\ CoreRetired \in Nat /\ Len(log) <= CoreRetired /\ 0 <= Len(log)
  BY BordersTyped
<1>4. log' = RunOf(0, CoreRetired)
  <2>1. log = RunOf(0, Len(log)) /\ retireQueue = RunOf(Len(log), CoreRetired)
    BY DEF SequenceInv
  <2> DEFINE m == Len(log)
  <2>2. log' = RunOf(0, m) \o RunOf(m, CoreRetired)
    BY <1>1, <2>1
  <2>3. m \in Nat /\ 0 \in Nat /\ 0 <= m /\ m <= CoreRetired
    BY <1>3
  <2> HIDE DEF m
  <2> QED
    BY <1>3, <2>2, <2>3, RunOfConcat
<1>5. Len(log') = CoreRetired
  BY <1>3, <1>4, RunOfNat
<1>6. CoreRetired' = CoreRetired
  <2>1. Len(retireQueue') = 0
    BY <1>1, EmptySeq
  <2> QED
    BY <1>3, <1>5, <2>1 DEF CoreRetired
<1>7. UNCHANGED <<IssuedLams, NextFused, InBuffer>>
  BY <1>1, <1>6 DEF IssuedLams, NextFused, InBuffer
<1>8. RunOf(CoreRetired, CoreRetired) = <<>>
  BY <1>3, RunOfEmpty
<1> QED
  BY <1>1, <1>2, <1>4, <1>5, <1>6, <1>7, <1>8 DEF SequenceInv

LEMMA SequenceStep ==
  ASSUME TypeOK, LengthInv, SequenceInv, [Next]_vars
  PROVE  SequenceInv'
<1>1. CASE IssueLam \/ IssueMerges \/ EndIssue
  BY <1>1, SequenceIssueLam, SequenceIssueMerges, SequenceEndIssue
<1>2. CASE CycleReorderBuffer \/ Deliver
  BY <1>2, SequenceCycle, SequenceDeliver
<1>3. CASE Tick \/ Stop
  BY <1>3, SequenceDrain
<1>4. CASE Elsewhere
  BY <1>4, SequenceElsewhere
<1> QED
  BY <1>1, <1>2, <1>3, <1>4 DEF Next, Elsewhere

-----------------------------------------------------------------------------
(* The rounds that have retired.                                           *)

LEMMA RoundStep ==
  ASSUME TypeOK, LengthInv, SequenceInv, RoundInv, [Next]_vars
  PROVE  RoundInv'
<1>1. CASE UNCHANGED <<prog, log, rnd>>
  BY <1>1 DEF RoundInv
<1>2. CASE Tick \/ Stop
  <2>1. /\ prog' = prog /\ log' = log \o retireQueue
        /\ rnd' = IF retireQueue = <<>> THEN rnd ELSE prog.round[retireQueue[Len(retireQueue)]]
    BY <1>2 DEF Tick, Stop, Drain, RoundAfterDrain, prog, storageVars
  <2>2. Len(log') = CoreRetired /\ log' = RunOf(0, CoreRetired)
    <3>1. SequenceInv' /\ Len(log') = CoreRetired
      BY <1>2, SequenceDrain
    <3> QED
      BY <3>1 DEF SequenceInv
  <2>3. /\ Len(log) \in Nat /\ Len(retireQueue) \in Nat /\ CoreRetired \in Nat
        /\ CoreRetired = Len(log) + Len(retireQueue)
        /\ log \in Seq(Uops) /\ retireQueue \in Seq(Uops)
        /\ retireQueue = RunOf(Len(log), CoreRetired)
    BY BordersTyped DEF CoreRetired, SequenceInv
  <2>4. CASE retireQueue = <<>>
    <3>1. log' = log
      BY <2>1, <2>3, <2>4, ConcatEmptySeq
    <3> QED
      BY <2>1, <2>4, <3>1 DEF RoundInv
  <2>5. CASE retireQueue # <<>>
    <3>1. Len(retireQueue) > 0
      BY <2>3, <2>5, EmptySeq
    <3>2. retireQueue[Len(retireQueue)] = CoreRetired
      <4>1. \A i \in 1..(CoreRetired - Len(log)) :
              RunOf(Len(log), CoreRetired)[i] = Len(log) + i
        BY DEF RunOf
      <4>2. Len(retireQueue) \in 1..(CoreRetired - Len(log))
        BY <2>3, <3>1
      <4>3. retireQueue[Len(retireQueue)] = Len(log) + Len(retireQueue)
        BY <2>3, <4>1, <4>2
      <4> QED
        BY <2>3, <4>3
    <3>3. log' # <<>>
      <4>1. Len(log') # 0
        BY <2>2, <2>3, <3>1
      <4> QED
        BY <4>1, EmptySeq
    <3> QED
      BY <2>1, <2>2, <2>5, <3>2, <3>3 DEF RoundInv
  <2> QED
    BY <2>4, <2>5
<1>3. CASE IssueLam \/ IssueMerges \/ EndIssue
  BY <1>1, <1>3 DEF IssueLam, IssueMerges, EndIssue, storageVars, runVars, prog
<1>4. CASE CycleReorderBuffer \/ Deliver
  BY <1>1, <1>4 DEF CycleReorderBuffer, Deliver, storageVars, runVars, prog
<1>5. CASE Elsewhere
  BY <1>1, <1>5, ElsewhereFrame DEF runVars, prog
<1> QED
  BY <1>2, <1>3, <1>4, <1>5 DEF Next, Elsewhere

LEMMA RoundInit == Init => RoundInv
BY DEF Init, RoundInv

(* A round that the round of the last retired uop has left behind has      *)
(* retired completely, because rounds do not decrease along the stream.    *)
LEMMA RoundsComplete ==
  ASSUME TypeOK, SequenceInv, RoundInv
  PROVE  RelevantRoundsComplete
<1> SUFFICES ASSUME NEW f \in Stream, prog.round[f] < rnd
             PROVE  \E i \in DOMAIN log : log[i] = f
  BY DEF RelevantRoundsComplete
<1>1. /\ log \in Seq(Uops) /\ log = RunOf(0, Len(log)) /\ Len(log) \in Nat
      /\ stream \in DOMAIN Streams
  BY BordersTyped DEF SequenceInv
<1>2. f \in Uops
  <2>1. Len(prog.lams) \in Lams
    BY <1>1, ProgramTyped
  <2>2. prog.lams[Len(prog.lams)].end \in Nat /\ prog.lams[Len(prog.lams)].end <= NumUops
    BY <1>1, <2>1, LamTyped
  <2> QED
    BY <2>2, NumUopsAssumption DEF Stream, Uops
<1>3. /\ prog.round \in [Uops -> Nat]
      /\ \A g, h \in Uops : g < h => prog.round[g] <= prog.round[h]
  BY <1>1, ProgramsAssumption DEF Streams, prog, WellFormed
<1>4. log # <<>> /\ rnd = prog.round[Len(log)]
  BY <1>2, <1>3 DEF RoundInv
<1>5. \A i \in 1..Len(log) : log[i] = i
  <2>1. \A n \in Nat : \A i \in 1..n : RunOf(0, n)[i] = i
    BY DEF RunOf
  <2> QED
    BY <1>1, <2>1
<1>6. DOMAIN log = 1..Len(log) /\ Len(log) > 0
  BY <1>1, <1>4, EmptySeq, LenProperties
<1>7. Len(log) \in Uops
  <2>1. Len(log) \in DOMAIN log
    BY <1>1, <1>6
  <2>2. log[Len(log)] \in Uops
    BY <1>1, <2>1, ElementOfSeq, LenProperties
  <2> QED
    BY <1>5, <1>6, <2>1, <2>2
<1>8. f <= Len(log)
  <2>1. CASE Len(log) < f
    <3>1. prog.round[Len(log)] <= prog.round[f]
      BY <1>2, <1>3, <1>7, <2>1
    <3>2. prog.round[Len(log)] \in Nat /\ prog.round[f] \in Nat
      BY <1>2, <1>3, <1>7
    <3> QED
      BY <1>4, <3>1, <3>2
  <2> QED
    BY <1>1, <1>2, <2>1 DEF Uops
<1> QED
  BY <1>1, <1>2, <1>5, <1>6, <1>8 DEF Uops

-----------------------------------------------------------------------------
(* The retirement stamps.                                                  *)

LEMMA StampInit == Init => StampInv
<1> SUFFICES ASSUME Init PROVE StampInv
  OBVIOUS
<1>1. /\ log = <<>> /\ retireQueue = <<>> /\ \A f \in Uops : fused[f].retired = None
      /\ Len(log) = 0 /\ Len(retireQueue) = 0
  BY EmptySeq DEF Init, RobInit, StorageInit
<1>2. CoreRetired = 0
  <2>1. Len(log) = 0 /\ Len(retireQueue) = 0
    BY <1>1
  <2> QED
    BY <2>1 DEF CoreRetired
<1>3. \A f \in Uops : f > 0
  BY DEF Uops
<1> QED
  BY <1>1, <1>2, <1>3 DEF StampInv, Retired, Uops

(* Steps that write no retirement stamp and move no border.                *)
LEMMA StampFrame ==
  ASSUME StampInv, UNCHANGED <<clock, log, retireQueue>>,
         \A f \in Uops : fused'[f].retired = fused[f].retired /\ fused'[f].idx = fused[f].idx,
         phase' \in {"issue", "rob"} => phase \in {"issue", "rob"},
         phase = "done" => phase' = "done"
  PROVE  StampInv'
<1>1. CoreRetired' = CoreRetired /\ Len(log') = Len(log)
  BY DEF CoreRetired
<1>2. \A f \in 2..NumUops : f \in Uops /\ f - 1 \in Uops
  BY NumUopsAssumption DEF Uops
<1>3. (\A f \in 2..NumUops : f <= CoreRetired => Follows(f - 1, f))'
  BY <1>1, <1>2 DEF StampInv, Follows
<1>4. (\A f \in Uops : Retired(f) <=> f <= CoreRetired)'
  BY <1>1 DEF StampInv, Retired
<1> QED
  BY <1>1, <1>3, <1>4 DEF StampInv

LEMMA MarkIssuedFrame ==
  ASSUME TypeOK, NEW new, MarkIssued(new)
  PROVE  \A f \in Uops : fused'[f].retired = fused[f].retired /\ fused'[f].idx = fused[f].idx
<1>1. fused \in [Uops -> [issued : OptNat, retired : OptNat, idx : OptNat]]
  BY DEF TypeOK, StorageTypeOK
<1> SUFFICES ASSUME NEW f \in Uops
             PROVE  fused'[f].retired = fused[f].retired /\ fused'[f].idx = fused[f].idx
  OBVIOUS
<1>2. \/ fused'[f] = fused[f]
      \/ fused'[f] = [fused[f] EXCEPT !.issued = clock]
  BY DEF MarkIssued
<1> QED
  BY <1>1, <1>2

(* retire_uops numbers the uops it takes off the head of the buffer.       *)
LEMMA StampRetire ==
  ASSUME TypeOK, SequenceInv, NEW n \in 0..Len(rob), RetireUops(n)
  PROVE  /\ \A f \in Uops : f <= CoreRetired \/ f > CoreRetired + n => fused'[f] = fused[f]
         /\ \A f \in Uops : CoreRetired < f /\ f <= CoreRetired + n =>
              fused'[f].retired = clock /\ fused'[f].idx = f - CoreRetired - 1
<1>1. CoreRetired \in Nat /\ Len(rob) \in Nat /\ InBuffer = CoreRetired + Len(rob)
  BY BordersTyped DEF InBuffer
<1>2. \A i \in 1..n : rob[i] = CoreRetired + i
  <2>1. \A i \in 1..(InBuffer - CoreRetired) : RunOf(CoreRetired, InBuffer)[i] = CoreRetired + i
    BY DEF RunOf
  <2> QED
    BY <1>1, <2>1 DEF SequenceInv
<1>3. fused \in [Uops -> [issued : OptNat, retired : OptNat, idx : OptNat]]
  BY DEF TypeOK, StorageTypeOK
<1>4. \A f \in Uops :
        fused'[f] = IF \E i \in 1..n : rob[i] = f
                    THEN [fused[f] EXCEPT !.retired = clock,
                                          !.idx = (CHOOSE i \in 1..n : rob[i] = f) - 1]
                    ELSE fused[f]
  BY DEF RetireUops
<1>5. ASSUME NEW f \in Uops, f <= CoreRetired \/ f > CoreRetired + n
      PROVE  fused'[f] = fused[f]
  <2>1. ~\E i \in 1..n : rob[i] = f
    BY <1>1, <1>2, <1>5 DEF Uops
  <2> QED
    BY <1>4, <2>1
<1>6. ASSUME NEW f \in Uops, CoreRetired < f, f <= CoreRetired + n
      PROVE  fused'[f].retired = clock /\ fused'[f].idx = f - CoreRetired - 1
  <2>1. f - CoreRetired \in 1..n /\ rob[f - CoreRetired] = f
    BY <1>1, <1>2, <1>6 DEF Uops
  <2>2. \A i \in 1..n : rob[i] = f => i = f - CoreRetired
    BY <1>1, <1>2 DEF Uops
  <2>3. (CHOOSE i \in 1..n : rob[i] = f) = f - CoreRetired
    BY <2>1, <2>2
  <2>4. fused'[f] = [fused[f] EXCEPT !.retired = clock, !.idx = f - CoreRetired - 1]
    BY <1>4, <2>1, <2>3
  <2> QED
    BY <1>3, <2>4
<1> QED
  BY <1>5, <1>6

LEMMA StampCycle ==
  ASSUME TypeOK, SequenceInv, StampInv, CycleReorderBuffer
  PROVE  StampInv'
<1>1. PICK n \in 0..Len(rob) : RetireUops(n) /\ Len(retireQueue') = Len(retireQueue) + n
  BY CycleBorders
<1>2. /\ clock' = clock /\ log' = log /\ phase = "rob" /\ phase' = "ready"
      /\ retireQueue = <<>> /\ Len(retireQueue) = 0
  BY EmptySeq
     DEF CycleReorderBuffer, BeginMoveReady, EnterLoop, storageVars, runVars, StampInv
<1>3. /\ CoreRetired \in Nat /\ CoreRetired = Len(log) /\ CoreRetired' = CoreRetired + n
      /\ n \in Nat /\ clock \in Nat
  <2>1. Len(log) \in Nat /\ Len(rob) \in Nat /\ clock \in Nat
    BY BordersTyped DEF TypeOK, StorageTypeOK
  <2>2. CoreRetired' = Len(log) + Len(retireQueue')
    BY <1>2 DEF CoreRetired
  <2>3. CoreRetired = Len(log) + Len(retireQueue)
    BY DEF CoreRetired
  <2> QED
    BY <1>1, <1>2, <2>1, <2>2, <2>3
<1>4. /\ \A f \in Uops : f <= CoreRetired \/ f > CoreRetired + n => fused'[f] = fused[f]
      /\ \A f \in Uops : CoreRetired < f /\ f <= CoreRetired + n =>
           fused'[f].retired = clock /\ fused'[f].idx = f - CoreRetired - 1
  BY <1>1, StampRetire
<1>5. \A f \in Uops : f <= CoreRetired => fused[f].retired < clock
  BY <1>2, <1>3 DEF StampInv
<1>6. ASSUME NEW f \in Uops
      PROVE  fused'[f].retired # None <=> f <= CoreRetired + n
  <2>1. fused[f].retired # None <=> f <= CoreRetired
    BY DEF StampInv, Retired
  <2>2. CASE f <= CoreRetired
    BY <1>3, <1>4, <2>1, <2>2 DEF Uops
  <2>3. CASE CoreRetired < f /\ f <= CoreRetired + n
    BY <1>3, <1>4, <2>3 DEF None
  <2>4. CASE f > CoreRetired + n
    BY <1>3, <1>4, <2>1, <2>4 DEF Uops
  <2> QED
    BY <1>3, <2>2, <2>3, <2>4 DEF Uops
<1>7. (\A f \in Uops : Retired(f) <=> f <= CoreRetired)'
  BY <1>3, <1>6 DEF Retired
<1>8. (\A f \in Uops : f <= Len(log) /\ phase # "done" => fused[f].retired < clock)'
  BY <1>2, <1>3, <1>4, <1>5
<1>9. (\A f \in Uops : Len(log) < f /\ f <= CoreRetired =>
         fused[f].retired = clock /\ fused[f].idx = f - Len(log) - 1)'
  BY <1>2, <1>3, <1>4
<1>10. ASSUME NEW f \in 2..NumUops, f <= CoreRetired + n
       PROVE  Follows(f - 1, f)'
  <2>1. f \in Uops /\ f - 1 \in Uops
    BY NumUopsAssumption DEF Uops
  <2>2. CASE f <= CoreRetired
    <3>1. fused'[f] = fused[f] /\ fused'[f - 1] = fused[f - 1]
      BY <1>3, <1>4, <2>1, <2>2
    <3>2. Follows(f - 1, f)
      BY <2>2 DEF StampInv
    <3> QED
      BY <3>1, <3>2 DEF Follows
  <2>3. CASE f = CoreRetired + 1
    <3>1. fused'[f - 1].retired < clock
      BY <1>3, <1>4, <1>5, <2>1, <2>3
    <3>2. fused'[f].retired = clock
      BY <1>3, <1>4, <1>10, <2>1, <2>3
    <3> QED
      BY <3>1, <3>2 DEF Follows
  <2>4. CASE f > CoreRetired + 1
    <3>1. fused'[f].retired = clock /\ fused'[f].idx = f - CoreRetired - 1
      BY <1>3, <1>4, <1>10, <2>1, <2>4
    <3>2. fused'[f - 1].retired = clock /\ fused'[f - 1].idx = (f - 1) - CoreRetired - 1
      BY <1>3, <1>4, <1>10, <2>1, <2>4
    <3>3. (f - 1) - CoreRetired - 1 < f - CoreRetired - 1
      BY <1>3
    <3> QED
      BY <3>1, <3>2, <3>3 DEF Follows
  <2> QED
    BY <1>3, <2>2, <2>3, <2>4
<1>11. (\A f \in 2..NumUops : f <= CoreRetired => Follows(f - 1, f))'
  BY <1>3, <1>10
<1> QED
  BY <1>2, <1>7, <1>8, <1>9, <1>11 DEF StampInv

(* The uops that retired in this cycle belong to the past when the clock   *)
(* moves on.                                                               *)
LEMMA StampDrain ==
  ASSUME TypeOK, LengthInv, SequenceInv, StampInv, Tick \/ Stop
  PROVE  StampInv'
<1>1. Len(log') = CoreRetired /\ CoreRetired' = CoreRetired
  BY SequenceDrain
<1>2. fused' = fused /\ retireQueue' = <<>> /\ phase = "drain"
  BY DEF Tick, Stop, Drain, storageVars
<1>3. CoreRetired \in Nat /\ Len(log) \in Nat /\ clock \in Nat
  BY BordersTyped DEF TypeOK, StorageTypeOK
<1>4. \A f \in Uops : fused[f].retired \in Int
  <2>1. fused \in [Uops -> [issued : OptNat, retired : OptNat, idx : OptNat]]
    BY DEF TypeOK, StorageTypeOK
  <2> QED
    BY <2>1 DEF OptNat, None
<1>5. phase' # "done" => clock' = clock + 1
  BY DEF Tick, Stop
<1>6. ASSUME NEW f \in Uops, f <= CoreRetired
      PROVE  fused[f].retired < clock + 1
  <2>1. f <= Len(log) \/ Len(log) < f
    BY <1>3 DEF Uops
  <2> QED
    BY <1>2, <1>3, <1>4, <1>6, <2>1 DEF StampInv
<1>7. (\A f \in Uops : f <= Len(log) /\ phase # "done" => fused[f].retired < clock)'
  BY <1>1, <1>2, <1>5, <1>6
<1>8. (\A f \in Uops : Len(log) < f /\ f <= CoreRetired =>
         fused[f].retired = clock /\ fused[f].idx = f - Len(log) - 1)'
  BY <1>1, <1>3 DEF Uops
<1>9. (\A f \in Uops : Retired(f) <=> f <= CoreRetired)'
  BY <1>1, <1>2 DEF StampInv, Retired
<1>10. (\A f \in 2..NumUops : f <= CoreRetired => Follows(f - 1, f))'
  BY <1>1, <1>2 DEF StampInv, Follows
<1> QED
  BY <1>2, <1>7, <1>8, <1>9, <1>10 DEF StampInv

LEMMA StampStep ==
  ASSUME TypeOK, LengthInv, SequenceInv, StampInv, [Next]_vars
  PROVE  StampInv'
<1>1. CASE IssueMerges \/ EndIssue
  <2>1. /\ UNCHANGED <<clock, log, retireQueue>> /\ phase = "issue" /\ phase' = "rob"
        /\ \E new \in {group, group'} : MarkIssued(new)
    BY <1>1 DEF IssueMerges, EndIssue, robVars, runVars
  <2> QED
    BY <2>1, MarkIssuedFrame, StampFrame
<1>2. CASE IssueLam
  <2>1. UNCHANGED <<clock, log, retireQueue, fused, phase>>
    BY <1>2 DEF IssueLam, storageVars, robVars, runVars
  <2> QED
    BY <2>1, StampFrame
<1>3. CASE Deliver
  <2>1. UNCHANGED <<clock, log, retireQueue, fused>> /\ phase = "fill" /\ phase' = "drain"
    BY <1>3 DEF Deliver, storageVars, robVars, runVars
  <2> QED
    BY <2>1, StampFrame
<1>4. CASE CycleReorderBuffer
  BY <1>4, StampCycle
<1>5. CASE Tick \/ Stop
  BY <1>5, StampDrain
<1>6. CASE Elsewhere
  <2>1. /\ UNCHANGED <<clock, log, retireQueue, fused>>
        /\ phase' \in {"issue", "rob"} <=> phase \in {"issue", "rob"}
        /\ phase' = "done" <=> phase = "done"
    BY <1>6, ElsewhereFrame DEF robVars, runVars
  <2> QED
    BY <2>1, StampFrame
<1> QED
  BY <1>1, <1>2, <1>3, <1>4, <1>5, <1>6 DEF Next, Elsewhere

-----------------------------------------------------------------------------
(* What the invariant is for.                                              *)

(* The fill levels, the borders between the runs of fused uops, their      *)
(* stamps and the round counter are always those the code would compute    *)
(* from the issue order.                                                   *)
THEOREM OrderCorrect == Spec => []OrderInv
<1>1. Init => OrderInv
  BY LengthInit, SequenceInit, StampInit, RoundInit DEF OrderInv
<1>2. TypeOK /\ OrderInv /\ [Next]_vars => OrderInv'
  <2>1. TypeOK /\ OrderInv /\ [Next]_vars => LengthInv' /\ SequenceInv'
    BY LengthStep, SequenceStep DEF OrderInv
  <2>2. TypeOK /\ OrderInv /\ [Next]_vars => StampInv' /\ RoundInv'
    BY StampStep, RoundStep DEF OrderInv
  <2> QED
    BY <2>1, <2>2 DEF OrderInv
<1> QED
  BY <1>1, <1>2, TypeCorrect, PTL DEF Spec

(* Fused uops retire in program order, each once, and retire_uops stamps   *)
(* them in that order, for all widths and every stream in which no         *)
(* instruction with register merges is synchronised (MergesAssumption: the *)
(* renamer issues the merge uops of such an instruction twice).            *)
THEOREM RetirementOrder == Spec => []RetireInOrder
<1>1. TypeOK /\ StampInv /\ SequenceInv => RetireInOrder
  <2> SUFFICES ASSUME TypeOK, StampInv, SequenceInv, NEW f \in 2..NumUops, Retired(f)
               PROVE  Retired(f - 1) /\ Follows(f - 1, f)
    BY DEF RetireInOrder, SequenceInv, Follows
  <2>1. f \in Uops /\ f - 1 \in Uops
    BY NumUopsAssumption DEF Uops
  <2>2. f <= CoreRetired
    BY <2>1 DEF StampInv
  <2>3. f - 1 <= CoreRetired
    <3>1. CoreRetired \in Nat
      BY BordersTyped
    <3> QED
      BY <2>2, <3>1
  <2> QED
    BY <2>1, <2>2, <2>3 DEF StampInv
<1> QED
  BY <1>1, OrderCorrect, TypeCorrect, PTL DEF OrderInv

(* The rounds the throughput is computed from are complete when the run    *)
(* loop stops.                                                             *)
THEOREM CountedRoundsRetired == Spec => []RelevantRoundsComplete
<1>1. TypeOK /\ OrderInv => RelevantRoundsComplete
  BY RoundsComplete DEF OrderInv
<1> QED
  BY <1>1, OrderCorrect, TypeCorrect, PTL
=============================================================================
