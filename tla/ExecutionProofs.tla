--------------------------- MODULE ExecutionProofs ---------------------------
(***************************************************************************)
(* Uops execute in the order the data flow and the cycle stamps ask for,   *)
(* and the back end implements the abstract out-of-order core.             *)
(*                                                                         *)
(* The argument: what a stamp is compared with when it is written has      *)
(* itself been written, and a stamp that has been written stays. So each   *)
(* relation between two stamps is settled by the one step that writes the  *)
(* later of them.                                                          *)
(***************************************************************************)
EXTENDS PlaceProofs

-----------------------------------------------------------------------------
(* What is known of a uop when it is added, made ready or dispatched.      *)

LEMMA AddedIssued ==
  ASSUME TypeOK, OrderInv, PlaceInv, NEW u \in Uops, Added(u)
  PROVE  FusedOf(u) \in Uops /\ FusedOf(u) <= InBuffer /\ Issued(FusedOf(u))
<1>1. FusedOf(u) \in Uops /\ FusedOf(u) \in Nat
  BY StampsTyped, UopIdsExact, ConstantsTyped
<1>2. FusedOf(u) <= Visited
  BY DEF PlaceInv, StageInv, AddInv
<1>3. /\ Len(group) \in Nat /\ InBuffer \in Nat
      /\ CoreIssued = InBuffer + (IF phase = "rob" THEN Len(group) ELSE 0)
  BY BordersTyped, LenProperties DEF OrderInv, CoreIssued, InBuffer, GroupStamped
<1>4. FusedOf(u) <= InBuffer /\ FusedOf(u) <= CoreIssued
  BY <1>1, <1>2, <1>3 DEF Visited
<1> QED
  BY <1>1, <1>4 DEF PlaceInv, IssuedInv

(* The cycle check_uop_ready puts a uop off to is one in which all its     *)
(* operands are available.                                                 *)
LEMMA ReadyCycleOperands ==
  ASSUME StorageTypeOK, NEW u \in Uops, NEW t \in OperandTimes(u)
  PROVE  ReadyForDispatchCycle(u, t) >= t
<1>1. t \in Int
  BY InputReadyTyped DEF OperandTimes, OptNat, None
<1>2. fused[prog.uops[u].fused].issued \in OptNat
  BY UopTyped DEF StorageTypeOK
<1>3. clock \in Nat
  BY DEF StorageTypeOK
<1> DEFINE earliest == fused[prog.uops[u].fused].issued + IssueDispatchDelay
<1>4. earliest \in Int
  BY <1>2, ConstantsTyped DEF OptNat, None
<1>5. EarliestDispatch(u, t) \in Int /\ EarliestDispatch(u, t) >= t
  <2>1. EarliestDispatch(u, t) = IF t < earliest THEN earliest
                                 ELSE IF t <= earliest + 1 THEN t + 1 ELSE t
    BY DEF EarliestDispatch
  <2> HIDE DEF earliest
  <2> QED
    BY <1>1, <1>4, <2>1
<1> QED
  BY <1>1, <1>3, <1>5 DEF ReadyForDispatchCycle, Max2

(* The step that writes a stamp is the one its loop takes for that uop.    *)
LEMMA WrittenReady ==
  ASSUME TypeOK, [Next]_vars, NEW u \in Uops, uop[u].ready = None, uop'[u].ready # None
  PROVE  MakeReady /\ u = Head(work)
<1>1. MakeReady
  BY StampWriters DEF KeepsReady
<1> QED
  BY <1>1, ReadyEffect

LEMMA WrittenDisp ==
  ASSUME TypeOK, PlaceInv, [Next]_vars, NEW u \in Uops, uop[u].disp = None, uop'[u].disp # None
  PROVE  /\ DispatchUop /\ uop'[u].disp = clock
         /\ uop[u].ready # None /\ uop[u].ready <= clock
<1>1. DispatchUop
  BY StampWriters DEF KeepsDisp
<1>2. phase = "dispatch"
  BY <1>1, DispatchEffect
<1>3. PICK q \in Queues, v \in Uops :
        /\ v \in readyQueue[q] /\ uop'[v].disp = clock
        /\ \A w \in Uops \ {v} : uop'[w] = uop[w]
  BY <1>1, DispatchEffect
<1>4. v = u
  BY <1>3
<1>5. uop[u].ready # None /\ Due(uop[u].ready)
  BY <1>2, <1>3, <1>4, QueuedStage DEF PlaceInv
<1> QED
  BY <1>1, <1>3, <1>4, <1>5, StampsTyped DEF Due

LEMMA WrittenExec ==
  ASSUME TypeOK, [Next]_vars, NEW u \in Uops, NeedsPort(u), uop[u].exec = None,
         uop'[u].exec # None
  PROVE  FinishPendingUop /\ u = Head(work) /\ uop'[u].exec >= uop[u].disp + 2
<1>1. FinishPendingUop \/ CycleReorderBuffer
  BY StampWriters DEF KeepsExec
<1>2. FinishPendingUop
  BY <1>1, BufferEffect
<1>3. u = Head(work)
  BY <1>2, FinishEffect
<1>4. uop[u].disp + 2 \in FinishTimes(u)
  BY DEF FinishTimes
<1> QED
  BY <1>2, <1>3, <1>4, FinishEffect

(* A fused uop retires in a step of the reorder buffer, when its uops have *)
(* executed in earlier cycles.                                             *)
LEMMA WrittenRetired ==
  ASSUME TypeOK, OrderInv, [Next]_vars, NEW f \in Uops, ~Retired(f), Retired(f)'
  PROVE  /\ CycleReorderBuffer /\ fused'[f].retired = clock
         /\ \A u \in UopIds(f) : uop[u].exec # None /\ uop[u].exec < clock
<1>1. CycleReorderBuffer
  <2>1. CASE IssueMerges \/ EndIssue
    BY <2>1, MarkIssuedFrame DEF IssueMerges, EndIssue, Retired
  <2> QED
    BY <2>1, FusedWriters DEF Retired
<1>2. PICK n \in 0..Len(rob) : RetireUops(n)
  BY <1>1 DEF CycleReorderBuffer, ReorderBufferCycle
<1>3. PICK i \in 1..n : rob[i] = f
  <2>1. (~\E i \in 1..n : rob[i] = f) => fused'[f] = fused[f]
    BY <1>2 DEF RetireUops
  <2> QED
    BY <2>1 DEF Retired
<1>4. AllExecuted(f)
  BY <1>2, <1>3 DEF RetireUops, RetireCount
<1>5. fused'[f].retired = clock
  <2>1. fused[f] \in [issued : OptNat, retired : OptNat, idx : OptNat]
    BY DEF TypeOK, StorageTypeOK
  <2>2. fused'[f] = [fused[f] EXCEPT !.retired = clock,
                                     !.idx = (CHOOSE j \in 1..n : rob[j] = f) - 1]
    BY <1>2, <1>3 DEF RetireUops
  <2> QED
    BY <2>1, <2>2
<1> QED
  BY <1>1, <1>4, <1>5 DEF AllExecuted

-----------------------------------------------------------------------------
(* The life of a uop.                                                      *)

LifeInv == \A u \in Uops :
  /\ uop[u].ready # None => fused[FusedOf(u)].issued + IssueDispatchDelay <= uop[u].ready
  /\ uop[u].disp # None => uop[u].ready <= uop[u].disp
  /\ NeedsPort(u) /\ uop[u].exec # None => uop[u].disp < uop[u].exec
  /\ Retired(FusedOf(u)) => uop[u].exec # None /\ uop[u].exec < fused[FusedOf(u)].retired

LEMMA LifeStep ==
  ASSUME TypeOK, OrderInv, TypeOK', OrderInv', PlaceInv, LifeInv, [Next]_vars
  PROVE  LifeInv'
<1> SUFFICES ASSUME NEW u \in Uops
             PROVE  /\ uop'[u].ready # None =>
                         fused'[FusedOf(u)].issued + IssueDispatchDelay <= uop'[u].ready
                    /\ uop'[u].disp # None => uop'[u].ready <= uop'[u].disp
                    /\ NeedsPort(u) /\ uop'[u].exec # None => uop'[u].disp < uop'[u].exec
                    /\ Retired(FusedOf(u))' =>
                         uop'[u].exec # None /\ uop'[u].exec < fused'[FusedOf(u)].retired
  BY StorageWriters DEF LifeInv, FusedOf
<1> DEFINE f == FusedOf(u)
<1>1. f \in Uops /\ u \in UopIds(f) /\ IssuedInv /\ f' = f
  BY StampsTyped, StorageWriters, UopIdsExact DEF PlaceInv, FusedOf
<1>2. /\ uop[u].ready # None => uop'[u].ready = uop[u].ready
      /\ uop[u].disp # None  => uop'[u].disp = uop[u].disp
      /\ uop[u].exec # None  => uop'[u].exec = uop[u].exec
  BY UopStampsKept
<1>3. /\ Issued(f)  => fused'[f].issued = fused[f].issued
      /\ Retired(f) => fused'[f].retired = fused[f].retired
  BY <1>1, FusedStampsKept
<1>4. /\ uop[u].ready # None => Added(u)
      /\ uop[u].disp # None => uop[u].ready # None
  BY DEF PlaceInv, StageInv
<1> HIDE DEF f
<1>5. uop'[u].ready # None => fused'[f].issued + IssueDispatchDelay <= uop'[u].ready
  <2>1. CASE uop[u].ready # None
    BY <1>2, <1>3, <1>4, <2>1, AddedIssued DEF LifeInv, f
  <2>2. CASE uop[u].ready = None /\ uop'[u].ready # None
    <3>1. MakeReady /\ u = Head(work)
      BY <2>2, WrittenReady
    <3>2. PICK t \in OperandTimes(u) : uop'[u].ready = ReadyForDispatchCycle(u, t)
      BY <3>1, ReadyEffect
    <3>3. fused[f].issued + IssueDispatchDelay <= uop'[u].ready
      <4>1. /\ ReadyForDispatchCycle(u, t) >= fused[prog.uops[u].fused].issued + IssueDispatchDelay
            /\ ReadyForDispatchCycle(u, t) \in Nat
        BY ReadyCycleTyped DEF TypeOK
      <4>2. fused[f].issued \in Int /\ IssueDispatchDelay \in Int
        BY <1>1, ConstantsTyped DEF TypeOK, StorageTypeOK, OptNat, None
      <4> QED
        BY <3>2, <4>1, <4>2 DEF f, FusedOf
    <3>4. Added(u)
      BY <3>1, HeadToWait DEF MakeReady, PlaceInv
    <3> QED
      BY <1>3, <3>3, <3>4, AddedIssued DEF f
  <2> QED
    BY <2>1, <2>2
<1>6. uop'[u].disp # None => uop'[u].ready <= uop'[u].disp
  <2>1. CASE uop[u].disp # None
    BY <1>2, <1>4, <2>1 DEF LifeInv
  <2>2. CASE uop[u].disp = None /\ uop'[u].disp # None
    BY <1>2, <2>2, WrittenDisp
  <2> QED
    BY <2>1, <2>2
<1>7. NeedsPort(u) /\ uop'[u].exec # None => uop'[u].disp < uop'[u].exec
  <2>1. CASE NeedsPort(u) /\ uop[u].exec # None
    <3>1. uop[u].disp # None
      BY <2>1 DEF PlaceInv, StageInv
    <3> QED
      BY <1>2, <2>1, <3>1 DEF LifeInv
  <2>2. CASE NeedsPort(u) /\ uop[u].exec = None /\ uop'[u].exec # None
    <3>1. FinishPendingUop /\ u = Head(work) /\ uop'[u].exec >= uop[u].disp + 2
      BY <2>2, WrittenExec
    <3>2. uop'[u].disp = uop[u].disp
      BY <3>1, FinishEffect DEF KeepsDisp
    <3>3. uop'[u].exec \in Int /\ uop[u].disp \in Int
      BY StampsTyped DEF TypeOK, StorageTypeOK, OptNat, None
    <3> QED
      BY <3>1, <3>2, <3>3
  <2> QED
    BY <2>1, <2>2
<1>8. Retired(f)' => uop'[u].exec # None /\ uop'[u].exec < fused'[f].retired
  <2>1. CASE Retired(f)
    BY <1>2, <1>3, <2>1 DEF LifeInv, f
  <2>2. CASE ~Retired(f) /\ Retired(f)'
    BY <1>1, <1>2, <2>2, WrittenRetired
  <2> QED
    BY <2>1, <2>2
<1> QED
  BY <1>1, <1>5, <1>6, <1>7, <1>8 DEF f, Retired

LEMMA LifeInit == Init => LifeInv
BY UopTyped, ConstantsTyped DEF Init, StorageInit, LifeInv, FusedOf, Retired

(* The stamps of a uop are written in the order of its life, and those of  *)
(* a retired fused uop are complete.                                       *)
THEOREM LifeCorrect == Spec => []LifeInv
<1>1. Init => LifeInv
  BY LifeInit
<1>2. /\ TypeOK /\ OrderInv /\ TypeOK' /\ OrderInv' /\ PlaceInv /\ LifeInv /\ [Next]_vars
      => LifeInv'
  BY LifeStep
<1> QED
  BY <1>1, <1>2, TypeCorrect, OrderCorrect, PlaceCorrect, PTL DEF Spec

(* A uop becomes ready no earlier than the issue delay allows, is          *)
(* dispatched no earlier than that, executes after its dispatch, and its   *)
(* fused uop retires after all its uops have executed.                     *)
THEOREM Lifecycle == Spec => []LifecycleOrdered
<1>1. TypeOK /\ OrderInv /\ PlaceInv /\ LifeInv => LifecycleOrdered
  <2> SUFFICES ASSUME TypeOK, PlaceInv, LifeInv, NEW f \in Stream, NEW u \in UopIds(f)
               PROVE  /\ uop[u].ready # None =>
                           fused[f].issued + IssueDispatchDelay <= uop[u].ready
                      /\ uop[u].disp # None =>
                           uop[u].ready # None /\ uop[u].ready <= uop[u].disp
                      /\ NeedsPort(u) /\ uop[u].exec # None =>
                           uop[u].disp # None /\ uop[u].disp < uop[u].exec
                      /\ Retired(f) => uop[u].exec # None /\ uop[u].exec < fused[f].retired
    BY DEF LifecycleOrdered
  <2>1. f \in Uops /\ stream \in DOMAIN Streams
    BY StampsTyped, StreamTyped
  <2>2. u \in Uops
    BY <2>1, ProgramTyped, ElementOfSeq, LenProperties DEF UopIds
  <2>3. FusedOf(u) = f
    BY <2>1, <2>2, UopIdsExact
  <2> QED
    BY <2>2, <2>3 DEF LifeInv, PlaceInv, StageInv
<1> QED
  BY <1>1, LifeCorrect, TypeCorrect, OrderCorrect, PlaceCorrect, PTL

-----------------------------------------------------------------------------
(* The data flow.                                                          *)

Forwarded(v) == prog.uops[v].kind = "load" /\ prog.uops[v].entry # None

(* All results of a uop become known at once: when it has been dispatched  *)
(* and, for a load that reads a store, that store's address and data are   *)
(* known.                                                                  *)
Known(v) ==
  /\ uop[v].disp # None
  /\ Forwarded(v) => /\ entry[prog.uops[v].entry].addr # None
                     /\ entry[prog.uops[v].entry].data # None

LEMMA ResultKnown ==
  ASSUME StorageTypeOK, NEW v \in Uops, NEW lat \in Nat
  PROVE  /\ ResultReady(v, lat) # None <=> Known(v)
         /\ Known(v) =>
              /\ uop[v].disp + lat <= ResultReady(v, lat)
              /\ Forwarded(v) =>
                   /\ entry[prog.uops[v].entry].addr + 4 <= ResultReady(v, lat)
                   /\ entry[prog.uops[v].entry].data + 4 <= ResultReady(v, lat)
<1> DEFINE e == prog.uops[v].entry
<1> DEFINE d == uop[v].disp
<1> DEFINE a == entry[e].addr
<1> DEFINE b == entry[e].data
<1>1. d \in OptNat /\ e \in Uops \cup {None} /\ (e # None => a \in OptNat /\ b \in OptNat)
  BY UopTyped DEF StorageTypeOK
<1>2. ResultReady(v, lat) =
        IF d = None THEN None
        ELSE IF ~Forwarded(v) THEN d + lat
        ELSE IF a = None \/ b = None THEN None
        ELSE Max2(d + lat, Max2(a, b) + 4)
  BY DEF ResultReady, Forwarded
<1>3. Known(v) <=> d # None /\ (Forwarded(v) => a # None /\ b # None)
  BY DEF Known
<1>4. Forwarded(v) => e # None
  BY DEF Forwarded
<1> HIDE DEF d, a, b
<1>5. ASSUME d \in Nat, a \in Nat, b \in Nat
      PROVE  LET r == Max2(d + lat, Max2(a, b) + 4)
             IN  r \in Nat /\ r >= d + lat /\ r >= a + 4 /\ r >= b + 4
  BY <1>5 DEF Max2
<1>6. CASE d = None
  BY <1>2, <1>3, <1>6
<1>7. CASE d # None /\ ~Forwarded(v)
  BY <1>1, <1>2, <1>3, <1>7 DEF d, OptNat, None
<1>8. CASE d # None /\ Forwarded(v) /\ (a = None \/ b = None)
  BY <1>2, <1>3, <1>8
<1>9. CASE d # None /\ Forwarded(v) /\ a # None /\ b # None
  <2>1. d \in Nat /\ a \in Nat /\ b \in Nat
    BY <1>1, <1>4, <1>9 DEF OptNat, None
  <2> QED
    BY <1>2, <1>3, <1>5, <1>9, <2>1 DEF a, b, d, None
<1> QED
  BY <1>6, <1>7, <1>8, <1>9

(* What the properties of uops that name each other have in common.        *)
LEMMA StoresTyped ==
  ASSUME stream \in DOMAIN Streams, NEW u \in Uops
  PROVE  /\ prog.uops[u].kind = "sta" <=> prog.uops[u].entry = u
         /\ prog.uops[u].kind = "alu" => prog.uops[u].entry = None
         /\ \A v \in Uops : /\ prog.uops[u].kind = "std" /\ prog.uops[v].kind = "std"
                            /\ prog.uops[u].entry = prog.uops[v].entry
                            /\ prog.uops[u].entry # None
                            => u = v
         /\ \A i \in DOMAIN prog.uops[u].inputs :
              LET o == prog.uops[u].inputs[i]
              IN  /\ o.uop \in Uops /\ o.uop < u /\ NeedsPort(o.uop)
                  /\ o.lat \in Nat /\ o.lat \in prog.uops[o.uop].outputs
<1>1. WellFormed(prog)
  BY ProgramsAssumption DEF Streams, prog
<1> QED
  BY <1>1, UopTyped DEF WellFormed, RefersBackwards, NeedsPort

(* FinishPendingUop writes the address or the data of one entry.           *)
LEMMA EntryEffect ==
  ASSUME TypeOK, FinishPendingUop, NEW e \in Uops
  PROVE  LET u == Head(work)
         IN  /\ \/ entry'[e].addr = entry[e].addr
                \/ prog.uops[u].kind = "sta" /\ e = u
             /\ \/ entry'[e].data = entry[e].data
                \/ prog.uops[u].kind = "std" /\ prog.uops[u].entry = e
<1> DEFINE u == Head(work)
<1>1. u \in Uops /\ stream \in DOMAIN Streams
  BY FinishEffect, StampsTyped
<1>2. entry \in [Uops -> [addr : OptNat, data : OptNat]]
  BY DEF TypeOK, StorageTypeOK
<1>3. prog.uops[u].kind \in {"alu", "load", "sta", "std"} /\ prog.uops[u].entry \in Uops \cup {None}
  BY <1>1, UopTyped DEF UopProperties
<1>4. CASE prog.uops[u].kind = "sta"
  <2>1. entry' = [entry EXCEPT ![u].addr = uop[u].disp + 5]
    BY <1>1, <1>4, StoresTyped DEF FinishPendingUop, Current
  <2>2. entry'[e] = IF e = u THEN [entry[e] EXCEPT !.addr = uop[u].disp + 5] ELSE entry[e]
    BY <1>1, <1>2, <2>1
  <2> QED
    BY <1>2, <1>4, <2>2
<1>5. CASE prog.uops[u].kind = "std" /\ prog.uops[u].entry # None
  <2>1. entry' = [entry EXCEPT ![prog.uops[u].entry].data = uop[u].disp + 1]
    BY <1>5 DEF FinishPendingUop, Current
  <2>2. entry'[e] = IF e = prog.uops[u].entry THEN [entry[e] EXCEPT !.data = uop[u].disp + 1]
                    ELSE entry[e]
    BY <1>2, <1>3, <1>5, <2>1
  <2> QED
    BY <1>2, <1>5, <2>2
<1>6. CASE prog.uops[u].kind \notin {"sta", "std"} \/ prog.uops[u].entry = None
  <2>1. u # None
    BY <1>1, ConstantsTyped DEF None
  <2>2. prog.uops[u].kind = "sta" => prog.uops[u].entry = u
    BY <1>1, StoresTyped
  <2>3. prog.uops[u].kind # "sta"
    BY <1>6, <2>1, <2>2
  <2> QED
    BY <1>6, <2>3 DEF FinishPendingUop, Current
<1> QED
  BY <1>3, <1>4, <1>5, <1>6

(* An address is known when its uop has executed, data when the store-data *)
(* uop of the entry has.                                                   *)
EntryInv == \A e \in Uops :
  /\ entry[e].addr # None => prog.uops[e].kind = "sta" /\ NeedsPort(e) /\ uop[e].exec # None
  /\ entry[e].data # None =>
       \E d \in Uops : /\ prog.uops[d].kind = "std" /\ prog.uops[d].entry = e
                       /\ NeedsPort(d) /\ uop[d].exec # None

LEMMA EntryKept ==
  ASSUME TypeOK, PlaceInv, EntryInv, [Next]_vars, NEW e \in Uops
  PROVE  /\ entry[e].addr # None => entry'[e].addr = entry[e].addr
         /\ entry[e].data # None => entry'[e].data = entry[e].data
<1>1. CASE FinishPendingUop
  <2> DEFINE u == Head(work)
  <2>1. u \in Uops /\ uop[u].exec = None /\ stream \in DOMAIN Streams
    BY <1>1, HeadToFinish, StampsTyped DEF FinishPendingUop, PlaceInv
  <2>2. /\ entry'[e].addr = entry[e].addr \/ e = u
        /\ entry'[e].data = entry[e].data \/ (prog.uops[u].kind = "std" /\ prog.uops[u].entry = e)
    BY <1>1, EntryEffect
  <2> HIDE DEF u
  <2>3. entry[e].addr # None => e # u
    BY <2>1 DEF EntryInv
  <2>4. ASSUME entry[e].data # None, prog.uops[u].kind = "std", prog.uops[u].entry = e
        PROVE  FALSE
    <3>1. PICK d \in Uops : /\ prog.uops[d].kind = "std" /\ prog.uops[d].entry = e
                            /\ uop[d].exec # None
      BY <2>4 DEF EntryInv
    <3>2. e # None
      BY ConstantsTyped DEF None
    <3>3. d = u
      BY <2>1, <2>4, <3>1, <3>2, StoresTyped
    <3> QED
      BY <2>1, <3>1, <3>3
  <2> QED
    BY <2>2, <2>3, <2>4
<1>2. CASE entry' = entry
  BY <1>2
<1> QED
  BY <1>1, <1>2, StorageWriters

LEMMA EntryStep ==
  ASSUME TypeOK, OrderInv, TypeOK', PlaceInv, EntryInv, [Next]_vars
  PROVE  EntryInv'
<1>1. \A u \in Uops : uop[u].exec # None => uop'[u].exec # None
  BY UopStampsKept
<1>2. prog' = prog /\ \A u : NeedsPort(u)' <=> NeedsPort(u)
  BY StorageWriters
<1> SUFFICES ASSUME NEW e \in Uops
             PROVE  /\ entry'[e].addr # None =>
                         prog.uops[e].kind = "sta" /\ NeedsPort(e) /\ uop'[e].exec # None
                    /\ entry'[e].data # None =>
                         \E d \in Uops : /\ prog.uops[d].kind = "std" /\ prog.uops[d].entry = e
                                         /\ NeedsPort(d) /\ uop'[d].exec # None
  BY <1>2 DEF EntryInv
<1>3. CASE FinishPendingUop
  <2> DEFINE u == Head(work)
  <2>1. u \in Uops /\ NeedsPort(u) /\ uop'[u].exec # None
    BY <1>3, HeadToFinish, FinishEffect DEF FinishPendingUop, PlaceInv
  <2>2. /\ \/ entry'[e].addr = entry[e].addr
           \/ prog.uops[u].kind = "sta" /\ e = u
        /\ \/ entry'[e].data = entry[e].data
           \/ prog.uops[u].kind = "std" /\ prog.uops[u].entry = e
    BY <1>3, EntryEffect
  <2> HIDE DEF u
  <2> QED
    BY <1>1, <2>1, <2>2 DEF EntryInv
<1>4. CASE entry' = entry
  BY <1>1, <1>4 DEF EntryInv
<1> QED
  BY <1>3, <1>4, StorageWriters

(* What is known stays known, and stays the same.                          *)
LEMMA KnownKept ==
  ASSUME TypeOK, OrderInv, TypeOK', PlaceInv, EntryInv, [Next]_vars,
         NEW v \in Uops, NEW lat \in Nat, Known(v)
  PROVE  /\ Known(v)' /\ uop'[v].disp = uop[v].disp
         /\ ResultReady(v, lat)' = ResultReady(v, lat)
<1>1. uop[v].disp # None /\ uop'[v].disp = uop[v].disp
  BY UopStampsKept DEF Known
<1>2. prog' = prog
  BY StorageWriters
<1>3. prog.uops[v].entry \in Uops \cup {None}
  BY UopTyped, StampsTyped
<1>4. CASE ~Forwarded(v)
  <2>1. ~(prog.uops[v].kind = "load" /\ prog.uops[v].entry # None)
    BY <1>4 DEF Forwarded
  <2>2. ResultReady(v, lat) = uop[v].disp + lat
    BY <1>1, <2>1 DEF ResultReady
  <2>3. ResultReady(v, lat)' = uop'[v].disp + lat
    BY <1>1, <1>2, <2>1 DEF ResultReady
  <2>4. Known(v)'
    BY <1>1, <1>2, <2>1 DEF Known, Forwarded
  <2> QED
    BY <1>1, <2>2, <2>3, <2>4
<1>5. CASE Forwarded(v)
  <2> DEFINE e == prog.uops[v].entry
  <2>1. e \in Uops /\ prog.uops[v].kind = "load" /\ e # None
    BY <1>3, <1>5 DEF Forwarded
  <2>2. entry[e].addr # None /\ entry[e].data # None
    BY <1>5 DEF Known
  <2>3. entry'[e].addr = entry[e].addr /\ entry'[e].data = entry[e].data
    BY <2>1, <2>2, EntryKept
  <2>4. Known(v)'
    BY <1>1, <1>2, <2>2, <2>3 DEF Known
  <2>5. ResultReady(v, lat)' = ResultReady(v, lat)
    BY <1>1, <1>2, <2>1, <2>3 DEF ResultReady
  <2> QED
    BY <1>1, <2>4, <2>5
<1> QED
  BY <1>4, <1>5

(* A ready uop was made ready when its operands were known, for a cycle in *)
(* which they are available, and after their producers were dispatched.    *)
DataInv == \A u \in Uops : uop[u].ready # None =>
  \A i \in DOMAIN prog.uops[u].inputs :
    LET o == prog.uops[u].inputs[i]
    IN  /\ Known(o.uop) /\ ResultReady(o.uop, o.lat) <= uop[u].ready
        /\ uop[o.uop].disp < uop[u].ready

LEMMA DataStep ==
  ASSUME TypeOK, OrderInv, TypeOK', PlaceInv, EntryInv, DataInv, [Next]_vars
  PROVE  DataInv'
<1>1. prog' = prog /\ stream \in DOMAIN Streams
  BY StorageWriters, StampsTyped
<1> SUFFICES ASSUME NEW u \in Uops, uop'[u].ready # None, NEW i \in DOMAIN prog.uops[u].inputs,
                    NEW v, NEW lat, v = prog.uops[u].inputs[i].uop,
                    lat = prog.uops[u].inputs[i].lat
             PROVE  /\ Known(v)' /\ ResultReady(v, lat)' <= uop'[u].ready
                    /\ uop'[v].disp < uop'[u].ready
  BY <1>1 DEF DataInv
<1>2. v \in Uops /\ lat \in Nat
  BY <1>1, StoresTyped
<1>3. Known(v) /\ ResultReady(v, lat) <= uop'[u].ready /\ uop[v].disp < uop'[u].ready
  <2>1. CASE uop[u].ready # None
    <3>1. uop'[u].ready = uop[u].ready
      BY <2>1, UopStampsKept
    <3> QED
      BY <2>1, <3>1 DEF DataInv
  <2>2. CASE uop[u].ready = None
    <3>1. MakeReady /\ u = Head(work)
      BY <2>2, WrittenReady
    <3>2. PICK t \in OperandTimes(u) :
            IsLatest(t, OperandTimes(u)) /\ uop'[u].ready = ReadyForDispatchCycle(u, t)
      BY <3>1, ReadyEffect
    <3>3. /\ Checks(u) /\ phase = "nonReady"
          /\ uop'[u].ready > clock /\ uop'[u].ready \in Nat
      BY <3>1, ReadyEffect
    <3>4. InputReady(u, i) = ResultReady(v, lat) /\ InputReady(u, i) # None
      BY <3>3 DEF InputReady, Checks, InputsKnown
    <3>5. Known(v)
      BY <1>2, <3>4, ResultKnown DEF TypeOK
    <3>6. InputReady(u, i) <= t
      BY <3>2 DEF IsLatest, OperandTimes
    <3>7. t <= uop'[u].ready
      BY <3>2, ReadyCycleOperands DEF TypeOK
    <3>8. InputReady(u, i) \in Int /\ t \in Int
      BY <3>2, InputReadyTyped DEF TypeOK, OperandTimes, OptNat, None
    <3>9. uop[v].disp <= clock
      BY <1>2, <3>3 DEF PlaceInv, RsInv
    <3>10. ResultReady(v, lat) <= uop'[u].ready
      BY <3>3, <3>4, <3>6, <3>7, <3>8
    <3>11. uop[v].disp < uop'[u].ready
      <4>1. uop[v].disp \in Int /\ clock \in Int
        BY <1>2, StampsTyped
      <4> QED
        BY <3>3, <3>9, <4>1
    <3> QED
      BY <3>5, <3>10, <3>11
  <2> QED
    BY <2>1, <2>2
<1> QED
  BY <1>2, <1>3, KnownKept

LEMMA FlowInit == Init => EntryInv /\ DataInv
BY DEF Init, StorageInit, EntryInv, DataInv

(* What made a uop ready, and what filled a store buffer entry, still      *)
(* stands: update_readiness wrote it from stamps that do not change.       *)
THEOREM FlowCorrect == Spec => [](EntryInv /\ DataInv)
<1>1. Init => EntryInv /\ DataInv
  BY FlowInit
<1>2. /\ TypeOK /\ OrderInv /\ TypeOK' /\ PlaceInv /\ EntryInv /\ DataInv /\ [Next]_vars
      => EntryInv' /\ DataInv'
  BY EntryStep, DataStep
<1> QED
  BY <1>1, <1>2, TypeCorrect, OrderCorrect, PlaceCorrect, PTL DEF Spec

(* When a uop is dispatched, the results of all the uops it reads are      *)
(* available, and for a value loaded from the store buffer the address and *)
(* the data of the store are known. check_uop_ready decided this cycles    *)
(* before; what it relied on has not changed.                              *)
THEOREM Dataflow == Spec => []DataflowRespected
<1>1. TypeOK /\ PlaceInv /\ LifeInv /\ DataInv => DataflowRespected
  <2> SUFFICES ASSUME TypeOK, PlaceInv, LifeInv, DataInv, NEW u \in Uops, uop[u].disp # None,
                      NEW i \in DOMAIN prog.uops[u].inputs
               PROVE  LET o == prog.uops[u].inputs[i]
                          e == prog.uops[o.uop].entry
                      IN  /\ uop[o.uop].disp # None /\ uop[o.uop].disp + o.lat <= uop[u].disp
                          /\ prog.uops[o.uop].kind = "load" /\ e # None =>
                               /\ entry[e].addr # None /\ entry[e].addr + 4 <= uop[u].disp
                               /\ entry[e].data # None /\ entry[e].data + 4 <= uop[u].disp
    BY DEF DataflowRespected
  <2> DEFINE v == prog.uops[u].inputs[i].uop
  <2> DEFINE lat == prog.uops[u].inputs[i].lat
  <2> DEFINE e == prog.uops[v].entry
  <2>1. v \in Uops /\ lat \in Nat
    BY StampsTyped, StoresTyped
  <2>2. uop[u].ready # None /\ uop[u].ready <= uop[u].disp
    BY DEF PlaceInv, StageInv, LifeInv
  <2>3. Known(v) /\ ResultReady(v, lat) <= uop[u].ready
    BY <2>2 DEF DataInv
  <2>4. e \in Uops \cup {None}
    BY <2>1, UopTyped, StampsTyped
  <2> HIDE DEF v, lat
  <2>5. /\ uop[u].ready \in Int /\ uop[u].disp \in Int /\ uop[v].disp \in Int
        /\ ResultReady(v, lat) \in Int
        /\ e # None => entry[e].addr \in Int /\ entry[e].data \in Int
    BY <2>1, <2>4, ResultReadyTyped DEF TypeOK, StorageTypeOK, OptNat, None
  <2>6. ResultReady(v, lat) <= uop[u].disp
    BY <2>2, <2>3, <2>5
  <2>7. uop[v].disp # None /\ uop[v].disp + lat <= ResultReady(v, lat)
    BY <2>1, <2>3, ResultKnown DEF TypeOK, Known
  <2>8. ASSUME prog.uops[v].kind = "load", e # None
        PROVE  /\ entry[e].addr # None /\ entry[e].addr + 4 <= ResultReady(v, lat)
               /\ entry[e].data # None /\ entry[e].data + 4 <= ResultReady(v, lat)
    BY <2>1, <2>3, <2>8, ResultKnown DEF TypeOK, Known, Forwarded
  <2>9. uop[v].disp + lat <= uop[u].disp
    BY <2>1, <2>5, <2>6, <2>7
  <2>10. ASSUME prog.uops[v].kind = "load", e # None
         PROVE  entry[e].addr + 4 <= uop[u].disp /\ entry[e].data + 4 <= uop[u].disp
    <3>1. /\ entry[e].addr \in Int /\ entry[e].addr + 4 <= ResultReady(v, lat)
          /\ entry[e].data \in Int /\ entry[e].data + 4 <= ResultReady(v, lat)
      BY <2>5, <2>8, <2>10
    <3> QED
      BY <2>5, <2>6, <3>1
  <2> QED
    BY <2>7, <2>8, <2>9, <2>10 DEF v, lat
<1> QED
  BY <1>1, LifeCorrect, FlowCorrect, TypeCorrect, PlaceCorrect, PTL

-----------------------------------------------------------------------------
(* The order of the pending list.                                          *)

(* The lists of process_pending_uops are in dispatch order.                *)
Sorted(s) == \A i, j \in DOMAIN s : i < j => uop[s[i]].disp <= uop[s[j]].disp

SortInv ==
  /\ Sorted(pending) /\ Sorted(PendWork)
  /\ \A i \in DOMAIN pending, j \in DOMAIN PendWork :
       uop[pending[i]].disp <= uop[PendWork[j]].disp

(* A uop that is kept pending is not one a ready uop reads: while the list *)
(* is processed, the producers that have not executed are still to come.   *)
WorkingInv == phase = "pending" =>
  \A u \in Uops : uop[u].ready # None =>
    \A i \in DOMAIN prog.uops[u].inputs :
      LET v == prog.uops[u].inputs[i].uop
      IN  uop[v].exec = None => Contains(PendWork, v)

LEMMA PendMembers ==
  ASSUME TypeOK, PendInv
  PROVE  /\ \A i \in DOMAIN pending : pending[i] \in Uops /\ uop[pending[i]].disp # None
         /\ \A i \in DOMAIN PendWork : PendWork[i] \in Uops /\ uop[PendWork[i]].disp # None
<1>1. /\ PendLists[0] = pending /\ PendLists[1] = PendWork /\ DOMAIN PendLists = {0, 1}
      /\ pending \in Seq(Uops) /\ PendWork \in Seq(Uops)
  BY ListsTyped
<1>2. /\ \A i \in DOMAIN pending : pending[i] \in Uops
      /\ \A i \in DOMAIN PendWork : PendWork[i] \in Uops
  BY <1>1, ElementOfSeq, LenProperties
<1>3. /\ \A i \in DOMAIN pending : Holds(PendLists, pending[i])
      /\ \A i \in DOMAIN PendWork : Holds(PendLists, PendWork[i])
  BY <1>1 DEF Holds, Contains
<1> QED
  BY <1>2, <1>3 DEF PendInv

LEMMA SortStep ==
  ASSUME TypeOK, OrderInv, PlaceInv, SortInv, [Next]_vars
  PROVE  SortInv'
<1>1. /\ \A i \in DOMAIN pending : pending[i] \in Uops /\ uop[pending[i]].disp # None
      /\ \A i \in DOMAIN PendWork : PendWork[i] \in Uops /\ uop[PendWork[i]].disp # None
  BY PendMembers DEF PlaceInv
<1>2. /\ \A i \in DOMAIN pending : uop'[pending[i]].disp = uop[pending[i]].disp
      /\ \A i \in DOMAIN PendWork : uop'[PendWork[i]].disp = uop[PendWork[i]].disp
  BY <1>1, UopStampsKept
<1>3. CASE pending' = pending /\ PendWork' = PendWork
  BY <1>2, <1>3 DEF SortInv, Sorted
<1>4. pending \in Seq(Uops) /\ DOMAIN pending = 1..Len(pending) /\ Len(pending) \in Nat
  BY ListsTyped, LenProperties
<1>5. CASE DispatchUop
  <2>1. PICK q \in Queues, u \in Uops :
          /\ u \in readyQueue[q] /\ uop'[u].disp = clock /\ pending' = AppendNew(pending, u)
    BY <1>5, DispatchEffect
  <2>2. phase = "dispatch" /\ phase' = "dispatch"
    BY <1>5, DispatchEffect
  <2>3. uop[u].disp = None
    BY <2>1, <2>2, QueuedStage DEF PlaceInv
  <2>4. pending' = Append(pending, u)
    BY <1>1, <2>1, <2>3 DEF AppendNew, Contains
  <2>5. DOMAIN PendWork' = {}
    BY <2>2, EmptySeq, LenProperties DEF PendWork, WorkIn
  <2>6. \A i \in DOMAIN pending : uop'[pending[i]].disp <= clock
    BY <1>1, <1>2, <2>2 DEF PlaceInv, RsInv
  <2>7. /\ DOMAIN pending' = 1..(Len(pending) + 1)
        /\ \A i \in 1..(Len(pending) + 1) :
             (pending')[i] = IF i = Len(pending) + 1 THEN u ELSE pending[i]
    BY <1>4, <2>1, <2>4, AppendProperties, LenProperties
  <2>8. clock \in Int
    BY StampsTyped
  <2>9. ASSUME NEW i \in DOMAIN pending', NEW j \in DOMAIN pending', i < j
        PROVE  uop'[(pending')[i]].disp <= uop'[(pending')[j]].disp
    <3>1. i \in DOMAIN pending /\ (pending')[i] = pending[i]
      BY <1>4, <2>7, <2>9
    <3>2. CASE j = Len(pending) + 1
      BY <2>1, <2>6, <2>7, <3>1, <3>2
    <3>3. CASE j \in DOMAIN pending
      <4>1. (pending')[j] = pending[j]
        BY <1>4, <2>7, <3>3
      <4> QED
        BY <1>2, <2>9, <3>1, <3>3, <4>1 DEF SortInv, Sorted
    <3> QED
      BY <1>4, <2>7, <3>2, <3>3
  <2> QED
    BY <2>5, <2>9 DEF SortInv, Sorted
<1>6. CASE EndDispatch
  <2>1. pending' = <<>> /\ PendWork' = pending
    BY <1>6 DEF EndDispatch, EnterLoop, PendWork, WorkIn
  <2>2. DOMAIN pending' = {}
    BY <2>1, EmptySeq, LenProperties
  <2> QED
    BY <1>2, <2>1, <2>2 DEF SortInv, Sorted
<1>7. CASE FinishPendingUop \/ KeepPendingUop
  <2>1. /\ phase = "pending" /\ phase' = "pending" /\ work # <<>> /\ work' = Tail(work)
        /\ work \in Seq(Uops)
    BY <1>7, StampsTyped DEF FinishPendingUop, KeepPendingUop, Advance
  <2>2. PendWork = work /\ PendWork' = Tail(work)
    BY <2>1 DEF PendWork, WorkIn
  <2>3. /\ DOMAIN work = 1..Len(work) /\ DOMAIN Tail(work) = 1..(Len(work) - 1)
        /\ Len(work) \in Nat \ {0} /\ Head(work) = work[1] /\ 1 \in DOMAIN work
        /\ \A i \in DOMAIN Tail(work) : i + 1 \in DOMAIN work /\ Tail(work)[i] = work[i + 1]
    BY <2>1, TailContains, HeadContained
  <2>4. Sorted(PendWork)'
    <3>1. ASSUME NEW i \in DOMAIN Tail(work), NEW j \in DOMAIN Tail(work), i < j
          PROVE  uop'[Tail(work)[i]].disp <= uop'[Tail(work)[j]].disp
      <4>1. i + 1 \in DOMAIN work /\ j + 1 \in DOMAIN work /\ i + 1 < j + 1
        BY <2>3, <3>1
      <4>2. uop[work[i + 1]].disp <= uop[work[j + 1]].disp
        BY <2>2, <4>1 DEF SortInv, Sorted
      <4> QED
        BY <1>2, <2>2, <2>3, <4>1, <4>2
    <3> QED
      BY <2>2, <3>1 DEF Sorted
  <2>5. ASSUME NEW i \in DOMAIN pending, NEW j \in DOMAIN Tail(work)
        PROVE  uop'[pending[i]].disp <= uop'[Tail(work)[j]].disp
    <3>1. j + 1 \in DOMAIN work
      BY <2>3
    <3> QED
      BY <1>2, <2>2, <2>3, <3>1 DEF SortInv
  <2>6. CASE pending' = pending
    BY <1>2, <2>2, <2>4, <2>5, <2>6 DEF SortInv, Sorted
  <2>7. CASE pending' = Append(pending, Head(work))
    <3>1. /\ DOMAIN pending' = 1..(Len(pending) + 1)
          /\ \A i \in 1..(Len(pending) + 1) :
               (pending')[i] = IF i = Len(pending) + 1 THEN work[1] ELSE pending[i]
      <4>1. Head(work) \in Uops
        BY <2>1, HeadTailProperties
      <4> QED
        BY <1>4, <2>3, <2>7, <4>1, AppendProperties, LenProperties
    <3>2. \A i \in DOMAIN pending : uop'[pending[i]].disp <= uop'[work[1]].disp
      BY <1>2, <2>2, <2>3 DEF SortInv
    <3>3. \A j \in DOMAIN Tail(work) : uop'[work[1]].disp <= uop'[Tail(work)[j]].disp
      <4> SUFFICES ASSUME NEW j \in DOMAIN Tail(work)
                   PROVE  uop'[work[1]].disp <= uop'[Tail(work)[j]].disp
        OBVIOUS
      <4>1. j + 1 \in DOMAIN work /\ 1 < j + 1
        BY <2>3
      <4>2. uop[work[1]].disp <= uop[work[j + 1]].disp
        BY <2>2, <2>3, <4>1 DEF SortInv, Sorted
      <4> QED
        BY <1>2, <2>2, <2>3, <4>1, <4>2
    <3>4. ASSUME NEW i \in DOMAIN pending', NEW j \in DOMAIN pending', i < j
          PROVE  uop'[(pending')[i]].disp <= uop'[(pending')[j]].disp
      <4>1. i \in DOMAIN pending /\ (pending')[i] = pending[i]
        BY <1>4, <3>1, <3>4
      <4>2. CASE j = Len(pending) + 1
        BY <3>1, <3>2, <4>1, <4>2
      <4>3. CASE j \in DOMAIN pending
        <5>1. (pending')[j] = pending[j]
          BY <1>4, <3>1, <4>3
        <5> QED
          BY <1>2, <3>4, <4>1, <4>3, <5>1 DEF SortInv, Sorted
      <4> QED
        BY <1>4, <3>1, <4>2, <4>3
    <3>5. ASSUME NEW i \in DOMAIN pending', NEW j \in DOMAIN Tail(work)
          PROVE  uop'[(pending')[i]].disp <= uop'[Tail(work)[j]].disp
      <4>1. CASE i = Len(pending) + 1
        BY <3>1, <3>3, <4>1
      <4>2. CASE i \in DOMAIN pending
        <5>1. (pending')[i] = pending[i]
          BY <1>4, <3>1, <4>2
        <5> QED
          BY <2>5, <4>2, <5>1
      <4> QED
        BY <1>4, <3>1, <4>1, <4>2
    <3> QED
      BY <2>2, <2>4, <3>4, <3>5 DEF SortInv, Sorted
  <2> QED
    BY <1>7, <2>6, <2>7 DEF FinishPendingUop, KeepPendingUop, Current
<1> QED
  BY <1>3, <1>5, <1>6, <1>7, QueueWriters, WorkWriters

LEMMA PendingPhase ==
  ASSUME [Next]_vars, phase' = "pending", ~EndDispatch
  PROVE  phase = "pending"
<1>1. CASE Quiet
  BY <1>1, QuietFrame
<1>2. CASE Tick \/ CycleReorderBuffer
  BY <1>2 DEF Tick, CycleReorderBuffer, BeginMoveReady, EnterLoop
<1>3. CASE \/ MoveReadyUop \/ EndMoveReady \/ VisitFused \/ SkipUop \/ AddNewUop
           \/ BeginDispatch \/ DispatchUop \/ IdlePort
  BY <1>3
     DEF MoveReadyUop, EndMoveReady, VisitFused, SkipUop, AddNewUop, BeginDispatch, DispatchUop,
         IdlePort, EnterLoop
<1>4. CASE \/ FinishPendingUop \/ KeepPendingUop \/ EndPending \/ WakeDependent
           \/ BeginNonReady \/ MakeReady \/ StayNonReady \/ EndNonReady \/ EndSchedulerCycle
  BY <1>4
     DEF FinishPendingUop, KeepPendingUop, EndPending, WakeDependent, BeginNonReady, MakeReady,
         StayNonReady, EndNonReady, EndSchedulerCycle, EnterLoop
<1> QED
  BY <1>1, <1>2, <1>3, <1>4, Steps DEF SchedulerNext

LEMMA WorkingStep ==
  ASSUME TypeOK, OrderInv, PlaceInv, DataInv, WorkingInv, [Next]_vars
  PROVE  WorkingInv'
<1>1. prog' = prog /\ stream \in DOMAIN Streams
  BY StorageWriters, StampsTyped
<1> SUFFICES ASSUME phase' = "pending", NEW u \in Uops, uop'[u].ready # None,
                    NEW i \in DOMAIN prog.uops[u].inputs, NEW v, v = prog.uops[u].inputs[i].uop,
                    uop'[v].exec = None
             PROVE  Contains(PendWork', v)
  BY <1>1 DEF WorkingInv
<1>2. v \in Uops
  BY <1>1, StoresTyped
<1>3. uop[v].exec = None
  BY <1>2, UopStampsKept
<1>4. uop[u].ready # None
  <2>1. uop[u].ready = None => MakeReady
    BY WrittenReady
  <2> QED
    BY <2>1, ReadyEffect
<1>5. Known(v)
  BY <1>4 DEF DataInv
<1>6. CASE EndDispatch
  <2>1. phase = "dispatch" /\ PendWork' = pending
    BY <1>6 DEF EndDispatch, EnterLoop, PendWork, WorkIn
  <2>2. Holds(PendLists, v)
    BY <1>2, <1>3, <1>5 DEF PlaceInv, PendInv, Known
  <2>3. DOMAIN PendLists[1] = {} /\ PendLists[0] = pending /\ DOMAIN PendLists = {0, 1}
    BY <2>1, ListsTyped, EmptySeq, LenProperties DEF PendWork, WorkIn
  <2> QED
    BY <2>1, <2>2, <2>3 DEF Holds, Contains
<1>7. CASE FinishPendingUop \/ KeepPendingUop
  <2>1. /\ phase = "pending" /\ work # <<>> /\ work' = Tail(work) /\ work \in Seq(Uops)
    BY <1>7, StampsTyped DEF FinishPendingUop, KeepPendingUop, Advance
  <2>2. PendWork = work /\ PendWork' = Tail(work)
    BY <2>1 DEF PendWork, WorkIn
  <2>3. Contains(work, v)
    BY <1>3, <1>4, <2>1, <2>2 DEF WorkingInv
  <2>4. v # Head(work)
    <3>1. CASE FinishPendingUop
      BY <3>1, FinishEffect
    <3>2. CASE KeepPendingUop
      <4>1. prog.uops[v].outputs \subseteq Nat
        BY <1>1, <1>2, UopTyped
      <4>2. ResultsKnown(v)
        BY <1>2, <1>5, <4>1, ResultKnown DEF ResultsKnown, TypeOK
      <4> QED
        BY <3>2, <4>2 DEF KeepPendingUop, Current
    <3> QED
      BY <1>7, <3>1, <3>2
  <2> QED
    BY <2>1, <2>2, <2>3, <2>4, TailContains
<1>8. CASE ~EndDispatch /\ ~FinishPendingUop /\ ~KeepPendingUop
  <2>1. phase = "pending" /\ PendWork' = PendWork
    BY <1>8, PendingPhase, WorkWriters
  <2> QED
    BY <1>3, <1>4, <2>1 DEF WorkingInv
<1> QED
  BY <1>6, <1>7, <1>8

-----------------------------------------------------------------------------
(* A uop executes after the uops it reads.                                 *)

LEMMA InputsExecuted ==
  ASSUME TypeOK, PlaceInv, LifeInv, DataInv, SortInv, WorkingInv, FinishPendingUop,
         NEW i \in DOMAIN prog.uops[Head(work)].inputs
  PROVE  LET v == prog.uops[Head(work)].inputs[i].uop
         IN  v \in Uops /\ NeedsPort(v) /\ uop[v].exec # None
<1> DEFINE u == Head(work)
<1> DEFINE v == prog.uops[u].inputs[i].uop
<1>1. /\ phase = "pending" /\ work # <<>> /\ work \in Seq(Uops) /\ PendWork = work
      /\ u \in Uops /\ uop[u].ready # None /\ uop[u].disp # None
  BY StampsTyped, HeadToFinish DEF FinishPendingUop, PendWork, WorkIn, PlaceInv
<1>2. v \in Uops /\ NeedsPort(v)
  BY <1>1, StampsTyped, StoresTyped
<1>3. uop[v].disp < uop[u].ready /\ uop[u].ready <= uop[u].disp
  BY <1>1 DEF DataInv, LifeInv
<1>4. ASSUME uop[v].exec = None PROVE FALSE
  <2>1. PICK j \in DOMAIN work : work[j] = v
    BY <1>1, <1>4 DEF WorkingInv, Contains
  <2>2. /\ DOMAIN work = 1..Len(work) /\ Len(work) \in Nat \ {0} /\ work[1] = u
        /\ 1 \in DOMAIN work
    BY <1>1, TailContains, HeadContained
  <2>3. uop[u].disp <= uop[v].disp
    <3>1. CASE j = 1
      BY <1>1, <2>1, <2>2, <3>1, StampsTyped
    <3>2. CASE 1 < j
      BY <1>1, <2>1, <2>2, <3>2 DEF SortInv, Sorted
    <3> QED
      BY <2>2, <3>1, <3>2
  <2> HIDE DEF v, u
  <2> QED
    BY <1>1, <1>2, <1>3, <2>3, StampsTyped
<1> QED
  BY <1>2, <1>4

LEMMA StoresExecuted ==
  ASSUME TypeOK, PlaceInv, EntryInv, FinishPendingUop, NEW v \in Uops,
         ReadsStore(prog, Head(work), v)
  PROVE  NeedsPort(v) /\ uop[v].exec # None
<1> DEFINE u == Head(work)
<1>1. u \in Uops /\ stream \in DOMAIN Streams /\ ResultsKnown(u)
  BY FinishEffect, StampsTyped
<1> DEFINE e == prog.uops[u].entry
<1>2. /\ prog.uops[u].kind = "load" /\ e # None /\ prog.uops[u].outputs # {}
      /\ prog.uops[v].kind \in {"sta", "std"} /\ prog.uops[v].entry = e
  BY DEF ReadsStore
<1>3. e \in Uops /\ prog.uops[u].outputs \subseteq Nat
  BY <1>1, <1>2, UopTyped
<1>4. Known(u)
  BY <1>1, <1>2, <1>3, ResultKnown DEF ResultsKnown, TypeOK
<1>5. entry[e].addr # None /\ entry[e].data # None
  BY <1>2, <1>4 DEF Known, Forwarded
<1> HIDE DEF u, e
<1>6. CASE prog.uops[v].kind = "sta"
  <2>1. v = e
    BY <1>1, <1>2, <1>6, StoresTyped
  <2> QED
    BY <1>3, <1>5, <2>1 DEF EntryInv
<1>7. CASE prog.uops[v].kind = "std"
  <2>1. PICK d \in Uops : /\ prog.uops[d].kind = "std" /\ prog.uops[d].entry = e
                          /\ NeedsPort(d) /\ uop[d].exec # None
    BY <1>3, <1>5 DEF EntryInv
  <2>2. d = v
    BY <1>1, <1>2, <1>7, <2>1, StoresTyped
  <2> QED
    BY <2>1, <2>2
<1> QED
  BY <1>2, <1>6, <1>7

-----------------------------------------------------------------------------
(* The laminated uops of the stream follow each other.                     *)

LEMMA LamsFollow ==
  ASSUME stream \in DOMAIN Streams, NEW k \in Lams, NEW l \in Lams, k < l
  PROVE  prog.lams[k].end <= prog.lams[l].start
<1> DEFINE T == {m \in Lams : k < m /\ prog.lams[k].end > prog.lams[m].start}
<1>1. Lams = 1..Len(prog.lams) /\ Len(prog.lams) \in Nat
  BY ProgramTyped
<1>2. T \in SUBSET Nat
  BY <1>1
<1>3. ASSUME T # {} PROVE FALSE
  <2>1. PICK m \in T : \A y \in T : m <= y
    <3> HIDE DEF T
    <3> QED
      BY <1>2, <1>3, NatMinimum
  <2>2. m \in Lams /\ k < m /\ prog.lams[k].end > prog.lams[m].start /\ m > 1 /\ m - 1 \in Lams
    BY <1>1, <2>1
  <2>3. prog.lams[m].start = prog.lams[m - 1].end
    BY <2>2, LamTyped
  <2>4. k # m - 1
    BY <2>2, <2>3, LamTyped
  <2>5. k < m - 1
    BY <1>1, <2>2, <2>4
  <2>6. ~(prog.lams[k].end > prog.lams[m - 1].start)
    <3>1. ~(m <= m - 1)
      BY <1>1, <2>2
    <3> QED
      BY <2>1, <2>2, <2>5, <3>1
  <2>7. /\ prog.lams[k].end \in Nat /\ prog.lams[m - 1].start \in Nat
        /\ prog.lams[m - 1].end \in Nat /\ prog.lams[m - 1].mid \in Nat
        /\ prog.lams[m - 1].start <= prog.lams[m - 1].mid
        /\ prog.lams[m - 1].mid < prog.lams[m - 1].end
    BY <2>2, LamTyped
  <2> QED
    BY <2>2, <2>3, <2>6, <2>7
<1>4. prog.lams[k].end \in Nat /\ prog.lams[l].start \in Nat
  BY LamTyped
<1> QED
  BY <1>3, <1>4

(* Nothing beyond the last laminated uop is issued.                        *)
LEMMA NextFusedBounded ==
  ASSUME TypeOK, OrderInv
  PROVE  NextFused <= prog.lams[Len(prog.lams)].end
<1> DEFINE n == Len(prog.lams)
<1>1. /\ stream \in DOMAIN Streams /\ IssuedLams \in Nat /\ IssuedLams <= n
      /\ lastMerge \in Lams \cup {None}
  BY BordersTyped DEF OrderInv, TypeOK, PipelineTypeOK
<1>2. Lams = 1..n /\ n \in Nat \ {0}
  BY <1>1, ProgramTyped
<1>3. ASSUME NEW l \in Lams
      PROVE  prog.lams[l].end <= prog.lams[n].end /\ prog.lams[l].mid <= prog.lams[n].end
  <2>1. n \in Lams
    BY <1>2
  <2>2. /\ prog.lams[l].mid < prog.lams[l].end /\ prog.lams[l].end \in Nat
        /\ prog.lams[l].mid \in Nat
    BY <1>1, LamTyped
  <2>3. /\ prog.lams[n].start <= prog.lams[n].mid /\ prog.lams[n].mid < prog.lams[n].end
        /\ prog.lams[n].start \in Nat /\ prog.lams[n].mid \in Nat /\ prog.lams[n].end \in Nat
    BY <1>1, <2>1, LamTyped
  <2>4. l # n => prog.lams[l].end <= prog.lams[n].start
    <3>1. l # n => l < n
      BY <1>2
    <3> QED
      BY <1>1, <2>1, <3>1, LamsFollow
  <2> HIDE DEF n
  <2> QED
    BY <2>2, <2>3, <2>4
<1>4. prog.lams[n].end \in Nat /\ n \in Lams
  BY <1>1, <1>2, LamTyped
<1>5. CASE lastMerge = IssuedLams + 1
  <2>1. lastMerge \in Lams
    BY <1>1, <1>5 DEF None
  <2> QED
    BY <1>3, <1>5, <2>1 DEF NextFused
<1>6. CASE lastMerge # IssuedLams + 1 /\ IssuedLams # 0
  <2>1. IssuedLams \in Lams
    BY <1>1, <1>2, <1>6
  <2> QED
    BY <1>3, <1>6, <2>1 DEF NextFused
<1>7. CASE lastMerge # IssuedLams + 1 /\ IssuedLams = 0
  BY <1>4, <1>7 DEF NextFused
<1> QED
  BY <1>5, <1>6, <1>7

-----------------------------------------------------------------------------
(* The back end implements the abstract core, step by step.                *)

LEMMA CoreFrame ==
  ASSUME TypeOK, OrderInv, [Next]_vars,
         ~IssueMerges, ~EndIssue, ~CycleReorderBuffer, ~FinishPendingUop
  PROVE  UNCHANGED <<stream, CoreIssued, CoreExecuted, CoreRetired>>
<1>1. stream' = stream /\ \A u : NeedsPort(u)' <=> NeedsPort(u)
  BY StorageWriters
<1>2. CoreExecuted' = CoreExecuted
  <2>1. KeepsExec
    BY StampWriters
  <2> QED
    BY <1>1, <2>1 DEF CoreExecuted, KeepsExec
<1>3. CoreRetired' = CoreRetired
  <2>1. CASE Tick \/ Stop
    BY <2>1, SequenceDrain DEF OrderInv, Tick, Stop
  <2>2. CASE CycleScheduler
    BY <2>2, SchedulerFrame DEF orderVars, robVars, runVars, CoreRetired
  <2>3. CASE IssueLam \/ Deliver \/ Stall \/ NoFill \/ Done \/ UNCHANGED vars
    BY <2>3 DEF IssueLam, Deliver, Stall, NoFill, Done, vars, robVars, runVars, CoreRetired
  <2> QED
    BY <2>1, <2>2, <2>3 DEF Next
<1>4. InBuffer' = InBuffer
  BY BorderStep
<1>5. phase' = "rob" <=> phase = "rob"
  BY FusedWriters
<1>6. phase = "rob" => group' = group
  <2>1. CASE Quiet
    BY <2>1, QuietFrame DEF Quiet, IssueLam, Deliver, Stall, NoFill, Stop, Done, vars, loopVars
  <2>2. CASE Tick
    BY <2>2 DEF Tick
  <2>3. CASE CycleScheduler
    BY <2>3, SchedulerFrame
  <2> QED
    BY <2>1, <2>2, <2>3, Steps
<1>7. CoreIssued = InBuffer + (IF phase = "rob" THEN Len(group) ELSE 0)
  BY DEF CoreIssued, InBuffer, GroupStamped
<1>8. CoreIssued' = InBuffer' + (IF phase' = "rob" THEN Len(group') ELSE 0)
  BY DEF CoreIssued, InBuffer, GroupStamped
<1> QED
  BY <1>1, <1>2, <1>3, <1>4, <1>5, <1>6, <1>7, <1>8

LEMMA CoreIssue ==
  ASSUME TypeOK, OrderInv, TypeOK', OrderInv', IssueMerges \/ EndIssue
  PROVE  [Core!Next]_(Core!coreVars)
<1>1. /\ CoreIssued \in Nat /\ CoreIssued' \in Nat /\ CoreIssued <= CoreIssued'
      /\ CoreIssued = InBuffer /\ InBuffer \in Nat
  BY GroupStamp
<1>2. /\ phase' = "rob" /\ rob' = rob /\ retireQueue' = retireQueue /\ log' = log
      /\ stream' = stream /\ uop' = uop
  BY DEF IssueMerges, EndIssue, robVars, runVars
<1>3. /\ CoreRetired' = CoreRetired /\ InBuffer' = InBuffer /\ prog' = prog
      /\ CoreExecuted' = CoreExecuted
  BY <1>2 DEF CoreRetired, InBuffer, prog, CoreExecuted, NeedsPort
<1>4. /\ IssueGroup' = group' /\ NextFused' = InBuffer + Len(group')
      /\ CoreIssued' = InBuffer + Len(group')
  <2>1. IssueGroup' = group'
    BY <1>2 DEF IssueGroup
  <2>2. NextFused' = InBuffer' + Len(IssueGroup')
    BY DEF OrderInv, SequenceInv
  <2>3. CoreIssued' = InBuffer' + Len(group')
    BY <1>2 DEF CoreIssued, InBuffer, GroupStamped
  <2> QED
    BY <1>3, <2>1, <2>2, <2>3
<1>5. Len(group') \in Nat /\ (Len(group') # 0 => group' # <<>>)
  <2>1. group' \in Seq(Uops)
    BY DEF TypeOK, SchedulerTypeOK, LoopTypeOK
  <2> QED
    BY <2>1, LenProperties, EmptySeq
<1>6. Len(group') <= IssueWidth /\ (group' # <<>> => Len(rob) + IssueWidth <= RBWidth)
  BY <1>2, <1>4 DEF OrderInv, LengthInv
<1> DEFINE n == Len(group')
<1>7. CASE n = 0
  <2>1. CoreIssued' = CoreIssued
    BY <1>1, <1>4, <1>7
  <2> QED
    BY <1>2, <1>3, <2>1 DEF Core!coreVars
<1>8. CASE n # 0
  <2>1. n \in 1..IssueWidth
    BY <1>5, <1>6, <1>8, WidthsAssumption
  <2>2. CoreIssued' = CoreIssued + n
    BY <1>1, <1>4
  <2>3. CoreIssued + n <= CoreLength[stream]
    <3>1. NextFused' <= prog.lams[Len(prog.lams)].end
      <4>1. (NextFused <= prog.lams[Len(prog.lams)].end)'
        BY NextFusedBounded, PTL
      <4> QED
        BY <1>3, <4>1
    <3>2. CoreLength[stream] = prog.lams[Len(prog.lams)].end
      BY StampsTyped DEF CoreLength, prog
    <3> QED
      BY <1>1, <1>4, <3>1, <3>2
  <2>4. CoreIssued + n - CoreRetired <= RBWidth
    <3>1. CoreRetired \in Nat /\ Len(rob) \in Nat /\ CoreIssued = CoreRetired + Len(rob)
      BY <1>1, BordersTyped DEF OrderInv, InBuffer
    <3>2. Len(rob) + IssueWidth <= RBWidth
      BY <1>5, <1>6, <1>8
    <3> QED
      BY <2>1, <3>1, <3>2, WidthsAssumption
  <2>5. Core!Issue(n)
    BY <1>2, <1>3, <2>2, <2>3, <2>4 DEF Core!Issue
  <2> QED
    BY <2>1, <2>5 DEF Core!Next
<1> QED
  BY <1>7, <1>8

LEMMA CoreRetire ==
  ASSUME TypeOK, OrderInv, CycleReorderBuffer
  PROVE  [Core!Next]_(Core!coreVars)
<1>1. /\ stream' = stream /\ log' = log /\ phase = "rob" /\ phase' = "ready"
      /\ \A u : NeedsPort(u)' <=> NeedsPort(u)
  BY StorageWriters, BufferEffect DEF CycleReorderBuffer, runVars, Next
<1>2. PICK n \in 0..Len(rob) : RetireUops(n) /\ Len(retireQueue') = Len(retireQueue) + n
  BY CycleBorders DEF OrderInv
<1>3. /\ Len(log) \in Nat /\ Len(retireQueue) \in Nat /\ Len(rob) \in Nat
      /\ CoreRetired \in Nat /\ InBuffer \in Nat /\ InBuffer = CoreRetired + Len(rob)
      /\ rob \in Seq(Uops)
  BY BordersTyped DEF OrderInv, InBuffer
<1>4. CoreRetired' = CoreRetired + n
  BY <1>1, <1>2, <1>3 DEF CoreRetired
<1>5. CoreIssued' = CoreIssued /\ CoreRetired + n <= CoreIssued
  <2>1. /\ NextFused \in Nat /\ Len(group) = NextFused - InBuffer /\ InBuffer' = NextFused
        /\ InBuffer <= NextFused
    BY GroupEntered
  <2>2. CoreIssued = InBuffer + Len(group)
    BY <1>1 DEF CoreIssued, InBuffer, GroupStamped
  <2>3. CoreIssued' = InBuffer' + 0
    BY <1>1 DEF CoreIssued, InBuffer, GroupStamped
  <2> QED
    BY <1>3, <2>1, <2>2, <2>3
<1>6. CoreExecuted' = CoreExecuted
  BY <1>1, BufferEffect DEF CoreExecuted
<1>7. CASE n = 0
  <2>1. CoreRetired' = CoreRetired
    BY <1>3, <1>4, <1>7
  <2> QED
    BY <1>1, <1>5, <1>6, <2>1 DEF Core!coreVars
<1>8. CASE n # 0
  <2>1. n \in 1..RetireWidth
    <3>1. n <= RetireWidth
      BY <1>2 DEF RetireUops, RetireCount
    <3> QED
      BY <1>3, <1>8, <3>1, WidthsAssumption
  <2>2. \A f \in CoreRetired + 1 .. CoreRetired + n : CoreParts[stream][f] \subseteq CoreExecuted
    <3> SUFFICES ASSUME NEW f \in CoreRetired + 1 .. CoreRetired + n,
                        NEW u \in CoreParts[stream][f]
                 PROVE  u \in CoreExecuted
      OBVIOUS
    <3>1. /\ f - CoreRetired \in 1..n /\ f - CoreRetired \in DOMAIN rob
          /\ rob[f - CoreRetired] = f
      <4>1. /\ rob = RunOf(CoreRetired, InBuffer) /\ DOMAIN rob = 1..Len(rob)
            /\ Len(rob) = InBuffer - CoreRetired
        BY <1>3, LenProperties DEF OrderInv, SequenceInv
      <4>2. f - CoreRetired \in 1..n /\ CoreRetired + (f - CoreRetired) = f
        BY <1>2, <1>3
      <4>3. f - CoreRetired \in 1..(InBuffer - CoreRetired)
        BY <1>2, <1>3, <4>2
      <4> QED
        BY <4>1, <4>2, <4>3 DEF RunOf
    <3>2. f \in Uops
      BY <1>3, <3>1, ElementOfSeq, LenProperties
    <3>3. u \in Uops /\ NeedsPort(u) /\ FusedOf(u) = f
      BY <3>2, StampsTyped DEF CoreParts, NeedsPort, FusedOf, prog
    <3>4. u \in UopIds(f)
      BY <3>2, <3>3, UopIdsExact, StampsTyped
    <3>5. uop[u].exec # None
      BY <1>2, <3>1, <3>4 DEF RetireUops, RetireCount, AllExecuted
    <3> QED
      BY <3>3, <3>5 DEF CoreExecuted
  <2>3. Core!Retire(n)
    BY <1>1, <1>4, <1>5, <1>6, <2>2 DEF Core!Retire
  <2> QED
    BY <2>1, <2>3 DEF Core!Next
<1> QED
  BY <1>7, <1>8

LEMMA CoreExecute ==
  ASSUME TypeOK, OrderInv, PlaceInv, LifeInv, EntryInv, DataInv, SortInv, WorkingInv,
         FinishPendingUop, [Next]_vars
  PROVE  [Core!Next]_(Core!coreVars)
<1> DEFINE u == Head(work)
<1>1. /\ u \in Uops /\ Added(u) /\ NeedsPort(u) /\ uop[u].exec = None
  BY HeadToFinish DEF FinishPendingUop, PlaceInv
<1>2. /\ uop'[u].exec # None /\ \A v \in Uops \ {u} : uop'[v] = uop[v]
      /\ phase = "pending" /\ phase' = "pending"
  BY FinishEffect
<1>3. stream' = stream /\ stream \in DOMAIN Streams /\ \A v : NeedsPort(v)' <=> NeedsPort(v)
  BY StorageWriters, StampsTyped
<1>4. CoreRetired' = CoreRetired /\ CoreIssued' = CoreIssued /\ CoreIssued = InBuffer
  <2>1. InBuffer' = InBuffer /\ InBuffer \in Nat
    <3>1. ~CycleReorderBuffer
      BY <1>2 DEF CycleReorderBuffer
    <3> QED
      BY <3>1, BorderStep
  <2>2. CoreIssued = InBuffer + 0 /\ CoreIssued' = InBuffer' + 0
    BY <1>2 DEF CoreIssued, InBuffer, GroupStamped
  <2>3. CoreRetired' = CoreRetired
    <3>1. CycleScheduler
      BY <1>2 DEF Next, CycleScheduler, SchedulerNext, vars, robVars, runVars, loopVars,
                  IssueLam, IssueMerges, EndIssue, CycleReorderBuffer, Deliver, Stall, NoFill,
                  Tick, Stop, Done
    <3> QED
      BY <3>1, SchedulerFrame DEF orderVars, robVars, runVars, CoreRetired
  <2> QED
    BY <2>1, <2>2, <2>3
<1>5. CoreExecuted' = CoreExecuted \cup {u}
  BY <1>1, <1>2, <1>3 DEF CoreExecuted
<1>6. /\ FusedOf(u) \in Uops /\ FusedOf(u) \in Nat /\ FusedOf(u) > 0 /\ FusedOf(u) <= CoreIssued
      /\ u \in CoreParts[stream][FusedOf(u)] \ CoreExecuted /\ CoreIssued \in Nat
  <2>1. /\ FusedOf(u) \in Uops /\ FusedOf(u) <= InBuffer /\ InBuffer \in Nat
    BY <1>1, AddedIssued, BordersTyped DEF OrderInv
  <2>2. u \in CoreParts[stream][FusedOf(u)]
    BY <1>1, <1>3, <2>1 DEF CoreParts, NeedsPort, FusedOf, prog
  <2>3. u \notin CoreExecuted
    BY <1>1 DEF CoreExecuted
  <2> QED
    BY <1>4, <2>1, <2>2, <2>3 DEF Uops
<1>7. CoreProducers[stream][u] \subseteq CoreExecuted
  <2>1. CoreProducers[stream][u] =
          {prog.uops[u].inputs[i].uop : i \in DOMAIN prog.uops[u].inputs}
            \cup {v \in 1..(u - 1) : ReadsStore(prog, u, v)}
    BY <1>1, <1>3 DEF CoreProducers, prog
  <2>2. ASSUME NEW i \in DOMAIN prog.uops[u].inputs
        PROVE  prog.uops[u].inputs[i].uop \in CoreExecuted
    BY InputsExecuted DEF CoreExecuted
  <2>3. ASSUME NEW v \in 1..(u - 1), ReadsStore(prog, u, v)
        PROVE  v \in CoreExecuted
    <3>1. v \in Uops
      BY <1>1, NumUopsAssumption DEF Uops
    <3> QED
      BY <2>3, <3>1, StoresExecuted DEF CoreExecuted
  <2> QED
    BY <2>1, <2>2, <2>3
<1> HIDE DEF u
<1>8. Core!Execute(FusedOf(u), u)
  BY <1>3, <1>4, <1>5, <1>6, <1>7 DEF Core!Execute
<1>9. FusedOf(u) \in 1..CoreIssued /\ u \in CoreParts[stream][FusedOf(u)]
  BY <1>6
<1> QED
  BY <1>8, <1>9 DEF Core!Next

LEMMA CoreInit == Init => Core!Init
<1> SUFFICES ASSUME Init PROVE Core!Init
  OBVIOUS
<1>1. /\ stream \in DOMAIN Streams /\ \A u \in Uops : uop[u].exec = None
      /\ Len(log) = 0 /\ Len(retireQueue) = 0 /\ Len(rob) = 0 /\ phase = "issue"
  BY EmptySeq DEF Init, StorageInit, RobInit, SchedulerInit
<1>2. CoreRetired = 0
  BY <1>1 DEF CoreRetired
<1>3. CoreIssued = 0
  BY <1>1, <1>2 DEF CoreIssued, GroupStamped
<1>4. CoreExecuted = {}
  BY <1>1 DEF CoreExecuted
<1>5. stream \in DOMAIN CoreLength
  BY <1>1 DEF CoreLength
<1> QED
  BY <1>2, <1>3, <1>4, <1>5 DEF Core!Init

(* The lists of process_pending_uops are in dispatch order, and what is    *)
(* left of them holds every producer a ready uop still waits for.          *)
THEOREM PendingOrder == Spec => [](SortInv /\ WorkingInv)
<1>1. Init => SortInv /\ WorkingInv
  <2> SUFFICES ASSUME Init PROVE SortInv /\ WorkingInv
    OBVIOUS
  <2>1. phase = "issue" /\ DOMAIN pending = {} /\ DOMAIN PendWork = {}
    BY EmptySeq, LenProperties DEF Init, SchedulerInit, PendWork, WorkIn
  <2> QED
    BY <2>1 DEF SortInv, WorkingInv, Sorted
<1>2. /\ TypeOK /\ OrderInv /\ PlaceInv /\ EntryInv /\ DataInv /\ SortInv /\ WorkingInv
      /\ [Next]_vars
      => SortInv' /\ WorkingInv'
  BY SortStep, WorkingStep
<1> QED
  BY <1>1, <1>2, TypeCorrect, OrderCorrect, PlaceCorrect, FlowCorrect, PTL DEF Spec

(* The back end, with all its queues, ports and cycles, does nothing but   *)
(* issue in order, execute along the data flow and retire in order: every  *)
(* step is a step of the abstract core or none, on every stream in which   *)
(* the renamer issues no merge uops twice (MergesAssumption).              *)
THEOREM Refinement == Spec => ImplementsCore
<1>1. Init => Core!Init
  BY CoreInit
<1>2. ASSUME TypeOK, OrderInv, TypeOK', OrderInv', PlaceInv, LifeInv, EntryInv, DataInv, SortInv,
             WorkingInv, [Next]_vars
      PROVE  [Core!Next]_(Core!coreVars)
  <2>1. CASE IssueMerges \/ EndIssue
    BY <1>2, <2>1, CoreIssue
  <2>2. CASE CycleReorderBuffer
    BY <1>2, <2>2, CoreRetire
  <2>3. CASE FinishPendingUop
    BY <1>2, <2>3, CoreExecute
  <2>4. CASE ~IssueMerges /\ ~EndIssue /\ ~CycleReorderBuffer /\ ~FinishPendingUop
    BY <1>2, <2>4, CoreFrame DEF Core!coreVars
  <2> QED
    BY <2>1, <2>2, <2>3, <2>4
<1> QED
  BY <1>1, <1>2, TypeCorrect, OrderCorrect, PlaceCorrect, LifeCorrect, FlowCorrect, PendingOrder,
     PTL DEF Spec, ImplementsCore, Core!Spec

-----------------------------------------------------------------------------
(* Serializing instructions.                                               *)

(* A serializing instruction enters the issue group only while the reorder *)
(* buffer is empty.                                                        *)
SerialInv == phase \in {"issue", "rob"} =>
  \A l \in Lams : /\ prog.lams[l].serializing
                  /\ InBuffer < prog.lams[l].mid + 1 /\ prog.lams[l].mid + 1 <= NextFused
                  => rob = <<>>

(* When it was stamped, everything stamped in earlier cycles had retired.  *)
DrainInv ==
  /\ \A f \in Uops : Issued(f) => fused[f].issued <= clock
  /\ \A l \in Lams : prog.lams[l].serializing =>
       LET f == prog.lams[l].mid + 1
       IN  Issued(f) => \A g \in Uops : Issued(g) /\ fused[g].issued < fused[f].issued =>
                          Retired(g) /\ fused[g].retired < fused[f].issued

(* The first fused uop of a laminated uop belongs to no other one.         *)
LEMMA LamsApart ==
  ASSUME stream \in DOMAIN Streams, NEW k \in Lams, NEW l \in Lams,
         prog.lams[k].start < prog.lams[l].mid + 1, prog.lams[l].mid + 1 <= prog.lams[k].end
  PROVE  k = l
<1>1. Lams \subseteq Nat
  BY ProgramTyped
<1>2. /\ prog.lams[k].start \in Nat /\ prog.lams[k].end \in Nat
      /\ prog.lams[l].start \in Nat /\ prog.lams[l].mid \in Nat /\ prog.lams[l].end \in Nat
      /\ prog.lams[l].start <= prog.lams[l].mid /\ prog.lams[l].mid < prog.lams[l].end
  BY LamTyped
<1>3. CASE k < l
  <2>1. prog.lams[k].end <= prog.lams[l].start
    BY <1>3, LamsFollow
  <2> QED
    BY <1>2, <2>1
<1>4. CASE l < k
  <2>1. prog.lams[l].end <= prog.lams[k].start
    BY <1>4, LamsFollow
  <2> QED
    BY <1>2, <2>1
<1> QED
  BY <1>1, <1>3, <1>4

LEMMA SerialStep ==
  ASSUME TypeOK, OrderInv, SerialInv, [Next]_vars
  PROVE  SerialInv'
<1>1. /\ InBuffer \in Nat /\ NextFused \in Nat /\ stream \in DOMAIN Streams /\ SequenceInv
      /\ IssuedLams \in Nat
  BY BordersTyped DEF OrderInv
<1>2. prog' = prog /\ Lams' = Lams
  BY StorageWriters DEF Lams
<1> SUFFICES ASSUME phase' \in {"issue", "rob"}, NEW l \in Lams, prog.lams[l].serializing,
                    InBuffer' < prog.lams[l].mid + 1, prog.lams[l].mid + 1 <= NextFused'
             PROVE  rob' = <<>>
  BY <1>2 DEF SerialInv
<1>3. CASE IssueLam
  <2>1. /\ idq # <<>> /\ phase = "issue" /\ rob' = rob /\ retireQueue' = retireQueue /\ log' = log
        /\ ~MustMerge /\ delivered' = delivered /\ lastMerge' = lastMerge /\ idq' = Tail(idq)
    BY <1>3 DEF IssueLam, MayIssue, robVars, runVars
  <2>2. InBuffer' = InBuffer
    BY <2>1 DEF InBuffer, CoreRetired
  <2>3. /\ idq[1] = IssuedLams + 1 /\ idq[1] \in Lams
        /\ HeadLam.start = (IF IssuedLams = 0 THEN 0 ELSE prog.lams[IssuedLams].end)
        /\ HeadLam.start \in Nat /\ HeadLam.mid \in Nat /\ HeadLam.end \in Nat
        /\ HeadLam.start <= HeadLam.mid /\ Len(Tail(idq)) = Len(idq) - 1
    BY <1>1, <2>1, HeadProperties
  <2>4. NextFused' = HeadLam.end
    <3>1. IssuedLams' = IssuedLams + 1
      BY <2>1, <2>3, BordersTyped DEF IssuedLams, OrderInv
    <3>2. lastMerge' # IssuedLams' + 1
      BY <1>1, <2>1, <3>1, BordersTyped DEF SequenceInv
    <3> QED
      BY <1>1, <1>2, <2>3, <3>1, <3>2 DEF NextFused, HeadLam
  <2>5. NextFused = HeadLam.mid
    <3>1. lastMerge = IssuedLams + 1 => NextFused = HeadLam.mid
      BY <2>3 DEF NextFused, HeadLam
    <3>2. lastMerge # IssuedLams + 1 => NextFused = HeadLam.start
      BY <2>3 DEF NextFused
    <3>3. lastMerge # IssuedLams + 1 => ~HasMerges
      BY <1>3, <2>3 DEF IssueLam, MayIssue, MustMerge
    <3>4. HasMerges <=> HeadLam.start < HeadLam.mid
      BY <1>1, <2>1, BordersTyped, RunsTyped
    <3> QED
      BY <2>3, <3>1, <3>2, <3>3, <3>4
  <2>6. CASE prog.lams[l].mid + 1 <= NextFused
    BY <2>1, <2>2, <2>6 DEF SerialInv
  <2>7. CASE ~(prog.lams[l].mid + 1 <= NextFused)
    <3>1. prog.lams[l].mid \in Nat
      BY <1>1, LamTyped
    <3>2. HeadLam.start < prog.lams[l].mid + 1 /\ prog.lams[l].mid + 1 <= HeadLam.end
      BY <2>3, <2>4, <2>5, <2>7, <3>1
    <3>3. l = idq[1]
      BY <1>1, <2>3, <3>2, LamsApart DEF HeadLam
    <3>4. Drained
      BY <1>3, <2>1 DEF IssueLam, MayIssue
    <3> QED
      BY <2>1, <3>3, <3>4 DEF Drained, HeadLam
  <2> QED
    BY <2>6, <2>7
<1>4. CASE IssueMerges
  <2>1. /\ idq # <<>> /\ phase = "issue" /\ rob' = rob /\ retireQueue' = retireQueue /\ log' = log
        /\ group = <<>> /\ lastMerge # idq[1] /\ lastMerge' = idq[1]
        /\ idq' = idq /\ delivered' = delivered
    BY <1>4 DEF IssueMerges, MayIssue, MustMerge, robVars, runVars
  <2>2. InBuffer' = InBuffer
    BY <2>1 DEF InBuffer, CoreRetired
  <2>3. /\ idq[1] = IssuedLams + 1 /\ idq[1] \in Lams
        /\ HeadLam.start = (IF IssuedLams = 0 THEN 0 ELSE prog.lams[IssuedLams].end)
        /\ HeadLam.start \in Nat /\ HeadLam.mid \in Nat /\ HeadLam.end \in Nat
        /\ HeadLam.mid <= HeadLam.end
    BY <1>1, <2>1, HeadProperties
  <2>4. NextFused = HeadLam.start /\ NextFused' = HeadLam.mid
    BY <1>2, <2>1, <2>3 DEF NextFused, IssuedLams, HeadLam
  <2>5. InBuffer = HeadLam.start
    <3>1. IssueGroup = <<>> /\ Len(<<>>) = 0
      BY <2>1, EmptySeq DEF IssueGroup
    <3>2. NextFused = InBuffer + Len(IssueGroup)
      BY <1>1 DEF SequenceInv
    <3> QED
      BY <1>1, <2>4, <3>1, <3>2
  <2>6. prog.lams[l].mid \in Nat
    BY <1>1, LamTyped
  <2>7. HeadLam.start < prog.lams[l].mid + 1 /\ prog.lams[l].mid + 1 <= HeadLam.end
    BY <2>2, <2>3, <2>4, <2>5, <2>6
  <2>8. l = idq[1]
    BY <1>1, <2>3, <2>7, LamsApart DEF HeadLam
  <2> QED
    BY <2>3, <2>4, <2>8 DEF HeadLam
<1>5. CASE EndIssue
  <2>1. /\ phase = "issue" /\ rob' = rob /\ retireQueue' = retireQueue /\ log' = log
        /\ UNCHANGED <<idq, delivered, lastMerge>>
    BY <1>5 DEF EndIssue, robVars, runVars, frontVars
  <2>2. InBuffer' = InBuffer /\ NextFused' = NextFused
    BY <1>2, <2>1 DEF InBuffer, CoreRetired, NextFused, IssuedLams
  <2> QED
    BY <2>1, <2>2 DEF SerialInv
<1>6. CASE Tick
  <2>1. /\ phase = "drain" /\ rob' = rob /\ UNCHANGED <<idq, delivered, lastMerge>>
    BY <1>6 DEF Tick, frontVars
  <2>2. InBuffer' = InBuffer /\ NextFused' = NextFused
    BY <1>2, <1>6, <2>1, BorderStep, BufferEffect DEF NextFused, IssuedLams, CycleReorderBuffer
  <2>3. NextFused = InBuffer
    <3>1. IssueGroup = <<>> /\ Len(<<>>) = 0
      BY <2>1, EmptySeq DEF IssueGroup
    <3>2. NextFused = InBuffer + Len(IssueGroup)
      BY <1>1 DEF SequenceInv
    <3> QED
      BY <1>1, <3>1, <3>2
  <2>4. prog.lams[l].mid \in Nat
    BY <1>1, LamTyped
  <2> QED
    BY <1>1, <2>2, <2>3, <2>4
<1>7. CASE ~IssueLam /\ ~IssueMerges /\ ~EndIssue /\ ~Tick
  <2>1. CASE CycleReorderBuffer \/ Deliver \/ Stop
    BY <2>1 DEF CycleReorderBuffer, BeginMoveReady, EnterLoop, Deliver, Stop
  <2>2. CASE Elsewhere
    <3>1. /\ UNCHANGED <<rob, retireQueue, log, idq, delivered, lastMerge>>
          /\ phase \in {"issue", "rob"}
      BY <2>2, ElsewhereFrame DEF robVars, runVars
    <3>2. InBuffer' = InBuffer /\ NextFused' = NextFused
      BY <1>2, <3>1 DEF InBuffer, CoreRetired, NextFused, IssuedLams
    <3> QED
      BY <3>1, <3>2 DEF SerialInv
  <2> QED
    BY <1>7, <2>1, <2>2 DEF Next, Elsewhere
<1> QED
  BY <1>3, <1>4, <1>5, <1>6, <1>7

LEMMA DrainStep ==
  ASSUME TypeOK, OrderInv, TypeOK', OrderInv', PlaceInv, SerialInv', DrainInv, [Next]_vars
  PROVE  DrainInv'
<1>1. /\ InBuffer \in Nat /\ stream \in DOMAIN Streams /\ StampInv /\ clock \in Nat /\ clock' \in Nat
      /\ Uops \subseteq Nat /\ None \notin Nat
      /\ fused \in [Uops -> [issued : OptNat, retired : OptNat, idx : OptNat]]
      /\ fused' \in [Uops -> [issued : OptNat, retired : OptNat, idx : OptNat]]
  <2>1. InBuffer \in Nat /\ StampInv
    BY BordersTyped DEF OrderInv
  <2>2. stream \in DOMAIN Streams /\ clock \in Nat /\ clock' \in Nat
    BY DEF TypeOK, StorageTypeOK
  <2>3. /\ fused \in [Uops -> [issued : OptNat, retired : OptNat, idx : OptNat]]
        /\ fused' \in [Uops -> [issued : OptNat, retired : OptNat, idx : OptNat]]
    BY DEF TypeOK, StorageTypeOK
  <2>4. Uops \subseteq Nat /\ None \notin Nat
    BY ConstantsTyped DEF None
  <2> QED
    BY <2>1, <2>2, <2>3, <2>4
<1>2. prog' = prog /\ Lams' = Lams /\ clock <= clock'
  BY <1>1, StorageWriters DEF Lams, Tick
<1>3. \A l \in Lams : prog.lams[l].mid + 1 \in Uops
  <2> SUFFICES ASSUME NEW l \in Lams
               PROVE  prog.lams[l].mid + 1 \in Uops
    OBVIOUS
  <2> QED
    BY <1>1, LamTyped, ConstantsTyped DEF Uops
<1>4. \A f \in Uops : Issued(f) => fused'[f].issued = fused[f].issued /\ Issued(f)'
  BY <1>1, FusedStampsKept DEF PlaceInv, Issued
<1>5. \A f \in Uops : Retired(f) => fused'[f].retired = fused[f].retired /\ Retired(f)'
  BY <1>1, FusedStampsKept DEF PlaceInv, Retired
<1>6. \A f \in Uops : ~Issued(f) /\ Issued(f)' =>
        /\ IssueMerges \/ EndIssue
        /\ InBuffer < f /\ f <= NextFused' /\ fused'[f].issued = clock
  <2> SUFFICES ASSUME NEW f \in Uops, ~Issued(f), Issued(f)'
               PROVE  /\ IssueMerges \/ EndIssue
                      /\ InBuffer < f /\ f <= NextFused' /\ fused'[f].issued = clock
    OBVIOUS
  <2>1. fused'[f].issued # fused[f].issued
    BY DEF Issued
  <2>2. IssueMerges \/ EndIssue
    BY <2>1, FusedWriters, RetireKeepsIssue
  <2>3. InBuffer < f /\ f <= CoreIssued' /\ fused'[f].issued = clock
    <3>1. fused'[f] = IF InBuffer < f /\ f <= CoreIssued' THEN [fused[f] EXCEPT !.issued = clock]
                      ELSE fused[f]
      BY <2>2, GroupStamp
    <3> QED
      BY <1>1, <2>1, <3>1
  <2>4. CoreIssued' = NextFused'
    <3>1. phase' = "rob"
      BY <2>2 DEF IssueMerges, EndIssue
    <3>2. NextFused' = InBuffer' + Len(group') /\ CoreIssued' = InBuffer' + Len(group')
      BY <3>1 DEF OrderInv, SequenceInv, IssueGroup, CoreIssued, GroupStamped, InBuffer
    <3> QED
      BY <3>2
  <2> QED
    BY <2>2, <2>3, <2>4
<1>7. \A f \in Uops : Issued(f)' => (fused'[f].issued) \in Nat /\ fused'[f].issued <= clock
  <2> SUFFICES ASSUME NEW f \in Uops, Issued(f)'
               PROVE  (fused'[f].issued) \in Nat /\ fused'[f].issued <= clock
    OBVIOUS
  <2>1. fused'[f].issued \in OptNat /\ fused'[f].issued # None
    BY <1>1 DEF Issued
  <2>2. fused'[f].issued <= clock
    BY <1>1, <1>4, <1>6 DEF DrainInv
  <2> QED
    BY <2>1, <2>2 DEF OptNat
<1>8. ASSUME NEW l \in Lams, NEW f \in Uops, NEW g \in Uops,
             prog.lams[l].serializing, f = prog.lams[l].mid + 1,
             Issued(f)', Issued(g)', fused'[g].issued < fused'[f].issued
      PROVE  Retired(g)' /\ fused'[g].retired < fused'[f].issued
  <2>2. /\ (fused'[g].issued) \in Nat /\ (fused'[f].issued) \in Nat
        /\ fused'[g].issued <= clock /\ fused'[f].issued <= clock
        /\ fused'[g].issued < fused'[f].issued
    BY <1>7, <1>8
  <2>3. Issued(g) /\ fused'[g].issued = fused[g].issued
    <3>1. fused'[g].issued # clock
      BY <1>1, <2>2
    <3> QED
      BY <1>4, <1>6, <1>8, <3>1
  <2>4. CASE Issued(f)
    <3>1. fused'[f].issued = fused[f].issued
      BY <1>4, <2>4
    <3>2. Retired(g) /\ fused[g].retired < fused[f].issued
      BY <1>8, <2>2, <2>3, <2>4, <3>1 DEF DrainInv
    <3> QED
      BY <1>5, <3>1, <3>2
  <2>5. CASE ~Issued(f)
    <3>1. /\ IssueMerges \/ EndIssue
          /\ InBuffer < f /\ f <= NextFused' /\ fused'[f].issued = clock
      BY <1>6, <1>8, <2>5
    <3>2. /\ phase = "issue" /\ phase' = "rob" /\ rob' = rob /\ log' = log
          /\ retireQueue' = retireQueue
      BY <3>1 DEF IssueMerges, EndIssue, robVars, runVars
    <3>3. InBuffer' = InBuffer
      BY <3>2 DEF InBuffer, CoreRetired
    <3>4. rob = <<>> /\ retireQueue = <<>>
      BY <1>1, <1>2, <1>8, <3>1, <3>2, <3>3 DEF SerialInv, StampInv
    <3>5. InBuffer = Len(log) /\ CoreRetired = Len(log) /\ Len(log) \in Nat
      BY <1>1, <3>4, BordersTyped, EmptySeq DEF InBuffer, CoreRetired
    <3>6. g <= InBuffer
      <4>1. CoreIssued = InBuffer
        BY <3>1, GroupStamp
      <4> QED
        BY <2>3, <4>1 DEF PlaceInv, IssuedInv
    <3>7. Retired(g) /\ fused[g].retired < clock
      BY <1>1, <3>2, <3>5, <3>6 DEF StampInv
    <3> QED
      BY <1>5, <3>1, <3>7
  <2> QED
    BY <2>4, <2>5
<1>9. \A f \in Uops : Issued(f)' => fused'[f].issued <= clock'
  BY <1>1, <1>2, <1>7
<1> QED
  BY <1>2, <1>3, <1>8, <1>9 DEF DrainInv

(* The issue group and the stamps keep what serializes an instruction.     *)
THEOREM SerialCorrect == Spec => [](SerialInv /\ DrainInv)
<1>1. Init => SerialInv /\ DrainInv
  <2> SUFFICES ASSUME Init PROVE SerialInv /\ DrainInv
    OBVIOUS
  <2>1. rob = <<>> /\ \A f \in Uops : ~Issued(f)
    BY DEF Init, RobInit, StorageInit, Issued
  <2>2. \A l \in Lams : prog.lams[l].mid + 1 \in Uops
    <3> SUFFICES ASSUME NEW l \in Lams
                 PROVE  prog.lams[l].mid + 1 \in Uops
      OBVIOUS
    <3>1. stream \in DOMAIN Streams
      BY DEF Init, StorageInit
    <3> QED
      BY <3>1, LamTyped, ConstantsTyped DEF Uops
  <2> QED
    BY <2>1, <2>2 DEF SerialInv, DrainInv
<1>2. /\ TypeOK /\ OrderInv /\ TypeOK' /\ OrderInv' /\ PlaceInv /\ SerialInv /\ DrainInv
      /\ [Next]_vars
      => SerialInv' /\ DrainInv'
  BY SerialStep, DrainStep
<1> QED
  BY <1>1, <1>2, TypeCorrect, OrderCorrect, PlaceCorrect, PTL DEF Spec

(* A serializing instruction is issued only after everything issued in     *)
(* earlier cycles has retired: issue_uops waits for an empty reorder       *)
(* buffer, while the group it is collecting has not entered it yet.        *)
THEOREM Serializing == Spec => []SerializingDrains
<1>1. TypeOK /\ DrainInv => SerializingDrains
  <2> SUFFICES ASSUME TypeOK, DrainInv
               PROVE  SerializingDrains
    OBVIOUS
  <2>1. Stream \subseteq Uops
    BY StampsTyped, StreamTyped
  <2> QED
    BY <2>1 DEF SerializingDrains, DrainInv
<1> QED
  BY <1>1, SerialCorrect, TypeCorrect, PTL

-----------------------------------------------------------------------------
(* Fences and execution units: no access is executed on the wrong side of  *)
(* a fence, no unit is given two uops at once, and accesses dispatched     *)
(* together are ones that may be.                                          *)

(* What is left of a list when its first n elements are taken off.         *)
LEMMA DropProperties ==
  ASSUME NEW S, NEW s \in Seq(S), NEW n \in 0..Len(s)
  PROVE  LET t == SubSeq(s, n + 1, Len(s))
         IN  /\ t \in Seq(S) /\ Len(t) = Len(s) - n
             /\ DOMAIN t = 1..(Len(s) - n) /\ DOMAIN s = 1..Len(s) /\ Len(s) \in Nat
             /\ \A i \in DOMAIN t : i + n \in DOMAIN s /\ t[i] = s[i + n]
<1> DEFINE t == SubSeq(s, n + 1, Len(s))
<1>1. Len(s) \in Nat /\ DOMAIN s = 1..Len(s)
  BY LenProperties
<1>2. /\ t \in Seq(S) /\ Len(t) = Len(s) - n
      /\ \A i \in 1..(Len(s) - n) : t[i] = s[n + i]
  BY SplitProperties
<1> HIDE DEF t
<1>3. DOMAIN t = 1..(Len(s) - n)
  BY <1>2, LenProperties
<1>4. \A i \in 1..(Len(s) - n) : i + n \in 1..Len(s) /\ n + i = i + n
  BY <1>1
<1> QED
  BY <1>1, <1>2, <1>3, <1>4 DEF t

LEMMA Appended ==
  ASSUME NEW S, NEW s \in Seq(S), NEW e \in S
  PROVE  /\ DOMAIN Append(s, e) = 1..(Len(s) + 1) /\ DOMAIN s = 1..Len(s) /\ Len(s) \in Nat
         /\ \A i \in DOMAIN s : Append(s, e)[i] = s[i]
         /\ Append(s, e)[Len(s) + 1] = e
<1>1. Len(s) \in Nat /\ DOMAIN s = 1..Len(s)
  BY LenProperties
<1> QED
  BY <1>1, AppendProperties

-----------------------------------------------------------------------------
(* Fences.                                                                 *)

(* add_new_uops goes through the uops in program order.                    *)
AgeInv == \A i \in DOMAIN AddWork : \A v \in Uops : Added(v) => v < AddWork[i]

(* The uop of an instruction that PushFences puts into a list of fences.   *)
FenceUop(k, f) == NeedsPort(f) /\ prog.uops[f].first /\ k \in prog.uops[f].fences

Past(u) == uop[u].exec # None /\ uop[u].exec <= clock

(* The list check_uop_ready looks at before it lets a uop become ready.    *)
ChecksFences(k, u) ==
  IF prog.uops[u].fences = {} THEN k \in Accesses(u)
  ELSE prog.uops[u].first /\ FenceKind(u) = k

(* A list of fences holds the added fences of its kind in program order; a *)
(* fence leaves it only after it has executed.                             *)
FenceListInv == \A k \in FenceKinds :
  /\ \A i, j \in DOMAIN fence[k].pending : i < j => fence[k].pending[i] < fence[k].pending[j]
  /\ \A i \in DOMAIN fence[k].pending :
       FenceUop(k, fence[k].pending[i]) /\ Added(fence[k].pending[i])
  /\ \A f \in Uops : FenceUop(k, f) /\ Added(f) => Contains(fence[k].pending, f) \/ Past(f)

(* What a fence holds back became ready after the fence had executed.      *)
BehindInv == \A k \in FenceKinds : \A f, u \in Uops :
  FenceUop(k, f) /\ f < u /\ uop[u].ready # None /\ ChecksFences(k, u) =>
    uop[f].exec # None /\ uop[f].exec < uop[u].ready

(* The accesses before the first fence that have not executed are among    *)
(* those it waits for: only a fence that is taken off the list forgets any.*)
FirstFence(k, f) == FenceUop(k, f) /\ \A g \in 1..(f - 1) : prog.uops[g].fences = {}

SinceInv == \A k \in FenceKinds : \A f \in Uops : FirstFence(k, f) /\ ~Past(f) =>
  \A u \in 1..(f - 1) :
    k \in Accesses(u) /\ uop[u].ready # None => u \in fence[k].since \/ Past(u)

FenceInv == AgeInv /\ FenceListInv /\ BehindInv /\ SinceInv

LEMMA FencesTyped ==
  ASSUME TypeOK, NEW k \in FenceKinds
  PROVE  /\ fence[k].pending \in Seq(Uops) /\ fence[k].since \in SUBSET Uops
         /\ DOMAIN fence[k].pending = 1..Len(fence[k].pending) /\ Len(fence[k].pending) \in Nat
         /\ \A i \in DOMAIN fence[k].pending : fence[k].pending[i] \in Uops
         /\ fence[k] = [pending |-> fence[k].pending, since |-> fence[k].since]
<1>1. fence \in [FenceKinds -> [pending : Seq(Uops), since : SUBSET Uops]]
  BY DEF TypeOK, SchedulerTypeOK
<1>2. fence[k] \in [pending : Seq(Uops), since : SUBSET Uops]
  BY <1>1
<1>3. fence[k].pending \in Seq(Uops)
  BY <1>2
<1>4. /\ DOMAIN fence[k].pending = 1..Len(fence[k].pending) /\ Len(fence[k].pending) \in Nat
      /\ \A i \in DOMAIN fence[k].pending : fence[k].pending[i] \in Uops
  BY <1>3, LenProperties, ElementOfSeq
<1> QED
  BY <1>2, <1>3, <1>4

LEMMA Numbered ==
  ASSUME stream \in DOMAIN Streams, NEW u \in Uops, NEW v \in Uops, FusedOf(v) < FusedOf(u)
  PROVE  v < u
<1>1. WellFormed(prog)
  BY ProgramsAssumption DEF Streams, prog
<1>2. u < v => FusedOf(u) <= FusedOf(v)
  BY <1>1 DEF WellFormed, NumberedInOrder, FusedOf
<1>3. FusedOf(u) \in Nat /\ FusedOf(v) \in Nat /\ u \in Nat /\ v \in Nat
  BY UopTyped, ConstantsTyped DEF FusedOf
<1> QED
  BY <1>2, <1>3

(* Outside add_new_uops everything older than an added uop is added.       *)
LEMMA OlderAdded ==
  ASSUME TypeOK, PlaceInv, phase # "add", NEW u \in Uops, NEW f \in Uops,
         Added(u), f < u, NeedsPort(f)
  PROVE  Added(f)
<1>1. stream \in DOMAIN Streams
  BY StampsTyped
<1>2. \A v : ~Contains(AddWork, v)
  BY EmptySeq, LenProperties DEF AddWork, WorkIn, Contains
<1>3. NeedsPort(u) /\ FusedOf(u) <= Visited /\ Visited \in Nat
  BY DEF PlaceInv, StageInv, AddInv
<1>4. FusedOf(u) \in Nat /\ FusedOf(f) \in Nat /\ u \in Nat /\ f \in Nat
  BY <1>1, UopTyped, ConstantsTyped DEF FusedOf
<1>5. ~(FusedOf(u) < FusedOf(f))
  BY <1>1, <1>4, Numbered
<1>6. FusedOf(f) <= Visited
  BY <1>3, <1>4, <1>5
<1> QED
  BY <1>2, <1>6 DEF PlaceInv, AddInv

LEMMA AgeStep ==
  ASSUME TypeOK, TypeOK', OrderInv, PlaceInv, PlaceInv', AgeInv, [Next]_vars
  PROVE  AgeInv'
<1>1. stream \in DOMAIN Streams /\ prog' = prog
  BY StampsTyped, StorageWriters
<1>2. CASE AddNewUop
  <2>1. /\ work \in Seq(Uops) /\ work # <<>> /\ work' = Tail(work)
        /\ phase = "add" /\ phase' = "add" /\ Head(work) \in Uops
        /\ \A v \in Uops \ {Head(work)} : uop'[v] = uop[v]
    BY <1>2, AddEffect
  <2>2. AddWork = work /\ AddWork' = Tail(work)
    BY <2>1 DEF AddWork, WorkIn
  <2>3. /\ \A i \in DOMAIN Tail(work) : i + 1 \in DOMAIN work /\ Tail(work)[i] = work[i + 1]
        /\ DOMAIN Tail(work) \subseteq Nat /\ \A i \in DOMAIN Tail(work) : 1 < i + 1
        /\ 1 \in DOMAIN work /\ work[1] = Head(work)
    BY <2>1, TailContains, HeadContained
  <2> SUFFICES ASSUME NEW i \in DOMAIN Tail(work), NEW v \in Uops, Added(v)'
               PROVE  v < Tail(work)[i]
    BY <2>2 DEF AgeInv
  <2>4. CASE v = Head(work)
    BY <2>2, <2>3, <2>4 DEF PlaceInv, AddInv
  <2>5. CASE v # Head(work)
    <3>1. Added(v)
      BY <2>1, <2>5 DEF Added
    <3> QED
      BY <2>2, <2>3, <3>1 DEF AgeInv
  <2> QED
    BY <2>4, <2>5
<1>3. CASE VisitFused
  <2>1. /\ phase = "add" /\ phase' = "add" /\ work = <<>> /\ group # <<>> /\ uop' = uop
        /\ group' = Tail(group)
    BY <1>3 DEF VisitFused, storageVars
  <2>2. /\ InBuffer' = InBuffer /\ InBuffer \in Nat /\ group \in Seq(Uops)
    BY <2>1, BorderStep, StorageWriters DEF CycleReorderBuffer
  <2>3. /\ Visited = InBuffer - Len(group) /\ Len(group) \in Nat \ {0}
        /\ Visited' = InBuffer' - Len(group') /\ Len(group') = Len(group) - 1
    BY <2>1, <2>2, EmptySeq, HeadTailProperties DEF Visited
  <2>4. Visited' = Visited + 1 /\ Visited \in Nat
    BY <2>2, <2>3 DEF PlaceInv, AddInv
  <2> SUFFICES ASSUME NEW i \in DOMAIN AddWork', NEW v \in Uops, Added(v)'
               PROVE  v < AddWork'[i]
    BY DEF AgeInv
  <2>5. Added(v) /\ FusedOf(v) <= Visited /\ FusedOf(v) \in Nat
    <3>1. Added(v)
      BY <2>1 DEF Added
    <3> QED
      BY <1>1, <3>1, UopTyped, ConstantsTyped DEF PlaceInv, StageInv, AddInv, FusedOf
  <2>6. AddWork'[i] \in Uops /\ FusedOf(AddWork'[i]) = Visited'
    <3>1. AddWork' \in Seq(Uops)
      BY <2>1 DEF AddWork, WorkIn, TypeOK, SchedulerTypeOK, LoopTypeOK
    <3>2. AddWork'[i] \in Uops
      BY <3>1, ElementOfSeq, LenProperties
    <3> QED
      BY <1>1, <3>2 DEF PlaceInv, AddInv, FusedOf
  <2> QED
    BY <1>1, <2>4, <2>5, <2>6, Numbered
<1>4. CASE SkipUop
  <2>1. /\ work \in Seq(Uops) /\ work # <<>> /\ work' = Tail(work) /\ uop' = uop
        /\ phase = "add" /\ phase' = "add"
    BY <1>4, StampsTyped DEF SkipUop, Advance, storageVars
  <2>2. AddWork = work /\ AddWork' = Tail(work)
    BY <2>1 DEF AddWork, WorkIn
  <2>3. \A i \in DOMAIN Tail(work) : i + 1 \in DOMAIN work /\ Tail(work)[i] = work[i + 1]
    BY <2>1, TailContains
  <2> QED
    BY <2>1, <2>2, <2>3 DEF AgeInv, Added
<1>5. CASE ~AddNewUop /\ ~VisitFused /\ ~SkipUop
  <2>1. AddWork' = AddWork /\ KeepsPort
    BY <1>5, WorkWriters, StampWriters
  <2> QED
    BY <2>1 DEF AgeInv, Added, KeepsPort
<1> QED
  BY <1>2, <1>3, <1>4, <1>5

(* What the three writers of the lists of fences do to one of them.        *)
LEMMA FenceEffect ==
  ASSUME TypeOK, [Next]_vars, NEW k \in FenceKinds
  PROVE  \/ fence'[k] = fence[k] /\ (AddNewUop => ~FenceUop(k, Head(work)))
         \/ /\ AddNewUop /\ Head(work) \in Uops /\ FenceUop(k, Head(work))
            /\ fence'[k].pending = Append(fence[k].pending, Head(work))
            /\ fence'[k].since = fence[k].since
         \/ /\ MakeReady /\ k \in Accesses(Head(work))
            /\ fence'[k].pending = fence[k].pending
            /\ fence'[k].since = fence[k].since \cup {Head(work)}
         \/ /\ EndSchedulerCycle
            /\ \E n \in 0..Len(fence[k].pending) :
                 /\ PoppedFences(k, n)
                 /\ fence'[k].pending =
                      SubSeq(fence[k].pending, n + 1, Len(fence[k].pending))
                 /\ fence'[k].since = IF n > 0 THEN {} ELSE fence[k].since
<1>1. fence \in [FenceKinds -> [pending : Seq(Uops), since : SUBSET Uops]]
  BY DEF TypeOK, SchedulerTypeOK
<1>2. CASE AddNewUop
  <2>1. Head(work) \in Uops /\ NeedsPort(Head(work))
    BY <1>2, AddEffect
  <2>2. fence'[k] = IF prog.uops[Head(work)].first /\ k \in prog.uops[Head(work)].fences
                    THEN [fence[k] EXCEPT !.pending = Append(@, Head(work))] ELSE fence[k]
    BY <1>2 DEF AddNewUop, PushFences, Current
  <2>3. fence[k] \in [pending : Seq(Uops), since : SUBSET Uops]
    BY <1>1
  <2>4. CASE FenceUop(k, Head(work))
    <3>1. fence'[k] = [fence[k] EXCEPT !.pending = Append(@, Head(work))]
      BY <2>2, <2>4 DEF FenceUop
    <3>2. /\ fence'[k].pending = Append(fence[k].pending, Head(work))
          /\ fence'[k].since = fence[k].since
      BY <2>3, <3>1
    <3> QED
      BY <1>2, <2>1, <2>4, <3>2
  <2>5. CASE ~FenceUop(k, Head(work))
    BY <2>1, <2>2, <2>5 DEF FenceUop
  <2> QED
    BY <2>4, <2>5
<1>3. CASE MakeReady
  <2>1. fence'[k] = IF k \in Accesses(Head(work))
                    THEN [fence[k] EXCEPT !.since = @ \cup {Head(work)}] ELSE fence[k]
    BY <1>3 DEF MakeReady, Current
  <2>2. fence[k] \in [pending : Seq(Uops), since : SUBSET Uops]
    BY <1>1
  <2>3. CASE k \in Accesses(Head(work))
    <3>1. fence'[k] = [fence[k] EXCEPT !.since = @ \cup {Head(work)}]
      BY <2>1, <2>3
    <3> QED
      BY <1>3, <2>2, <2>3, <3>1
  <2>4. ~AddNewUop
    BY <1>3 DEF MakeReady, AddNewUop
  <2> QED
    BY <2>1, <2>3, <2>4
<1>4. CASE EndSchedulerCycle
  <2>1. PICK n \in [FenceKinds -> 0..NumUops] :
          /\ \A l \in FenceKinds : n[l] <= Len(fence[l].pending) /\ PoppedFences(l, n[l])
          /\ fence' = [l \in FenceKinds |->
               [pending |-> SubSeq(fence[l].pending, n[l] + 1, Len(fence[l].pending)),
                since   |-> IF n[l] > 0 THEN {} ELSE fence[l].since]]
    BY <1>4 DEF EndSchedulerCycle, ProcessPendingFences
  <2>2. n[k] \in 0..Len(fence[k].pending)
    BY <2>1, FencesTyped, ConstantsTyped
  <2>3. fence'[k] = [pending |-> SubSeq(fence[k].pending, n[k] + 1, Len(fence[k].pending)),
                     since   |-> IF n[k] > 0 THEN {} ELSE fence[k].since]
    BY <2>1
  <2>4. /\ fence'[k].pending = SubSeq(fence[k].pending, n[k] + 1, Len(fence[k].pending))
        /\ fence'[k].since = IF n[k] > 0 THEN {} ELSE fence[k].since
    <3>1. \A p, s : fence'[k] = [pending |-> p, since |-> s] =>
                      fence'[k].pending = p /\ fence'[k].since = s
      OBVIOUS
    <3> QED
      BY <2>3, <3>1
  <2> QED
    BY <1>4, <2>1, <2>2, <2>4
<1>5. CASE ~AddNewUop /\ ~MakeReady /\ ~EndSchedulerCycle
  BY <1>5, QueueWriters
<1> QED
  BY <1>2, <1>3, <1>4, <1>5

(* What one step leaves alone.                                             *)
LEMMA FenceFrame ==
  ASSUME TypeOK, TypeOK', OrderInv, PlaceInv, [Next]_vars
  PROVE  /\ \A k, f : FenceUop(k, f)' <=> FenceUop(k, f)
         /\ \A k, u : k \in Accesses(u)' <=> k \in Accesses(u)
         /\ \A k, u : ChecksFences(k, u)' <=> ChecksFences(k, u)
         /\ \A k, f : FirstFence(k, f)' <=> FirstFence(k, f)
         /\ \A u \in Uops : Added(u) => Added(u)'
         /\ \A u \in Uops : Added(u)' => Added(u) \/ (AddNewUop /\ u = Head(work))
         /\ \A u \in Uops : Past(u) => Past(u)'
         /\ \A u \in Uops : ~Outstanding(u) => Past(u)
<1>1. /\ prog' = prog /\ (\A u : NeedsPort(u)' <=> NeedsPort(u))
      /\ clock \in Nat /\ clock' \in Nat /\ clock <= clock'
      /\ \A u \in Uops : uop[u].exec \in Int
  <2>1. prog' = prog /\ (\A u : NeedsPort(u)' <=> NeedsPort(u)) /\ (clock' = clock \/ Tick)
    BY StorageWriters
  <2>2. clock \in Nat /\ clock' \in Nat /\ \A u \in Uops : uop[u].exec \in Int
    BY StampsTyped DEF TypeOK, StorageTypeOK
  <2> QED
    BY <2>1, <2>2 DEF Tick
<1>2. /\ \A k, f : FenceUop(k, f)' <=> FenceUop(k, f)
      /\ \A k, u : k \in Accesses(u)' <=> k \in Accesses(u)
  BY <1>1 DEF FenceUop, Accesses
<1>3. \A k, u : ChecksFences(k, u)' <=> ChecksFences(k, u)
  BY <1>1, <1>2 DEF ChecksFences, FenceKind
<1>4. \A k, f : FirstFence(k, f)' <=> FirstFence(k, f)
  BY <1>1, <1>2 DEF FirstFence
<1>5. \A u \in Uops : Added(u) => Added(u)'
  BY UopStampsKept DEF Added
<1>6. \A u \in Uops : Added(u)' => Added(u) \/ (AddNewUop /\ u = Head(work))
  <2>1. CASE AddNewUop
    BY <2>1, AddEffect DEF Added
  <2>2. CASE ~AddNewUop
    BY <2>2, StampWriters DEF Added, KeepsPort
  <2> QED
    BY <2>1, <2>2
<1>7. \A u \in Uops : Past(u) => Past(u)'
  <2> SUFFICES ASSUME NEW u \in Uops, Past(u)
               PROVE  Past(u)'
    OBVIOUS
  <2>1. uop'[u].exec = uop[u].exec /\ uop[u].exec # None /\ uop[u].exec <= clock
    BY UopStampsKept DEF Past
  <2> QED
    BY <1>1, <2>1 DEF Past
<1>8. \A u \in Uops : ~Outstanding(u) => Past(u)
  BY <1>1 DEF Past, Outstanding
<1> QED
  BY <1>2, <1>3, <1>4, <1>5, <1>6, <1>7, <1>8

LEMMA FenceListStep ==
  ASSUME TypeOK, TypeOK', OrderInv, PlaceInv, FenceInv, [Next]_vars
  PROVE  FenceListInv'
<1> SUFFICES ASSUME NEW k \in FenceKinds
             PROVE  LET new == fence'[k].pending
                    IN  /\ \A i, j \in DOMAIN new : i < j => new[i] < new[j]
                        /\ \A i \in DOMAIN new : FenceUop(k, new[i]) /\ uop'[new[i]].port # None
                        /\ \A f \in Uops : FenceUop(k, f) /\ Added(f)' =>
                             Contains(new, f) \/ Past(f)'
  <2>1. prog' = prog /\ \A u : NeedsPort(u)' <=> NeedsPort(u)
    BY StorageWriters
  <2> QED
    BY <2>1 DEF FenceListInv, Contains, Added, FenceUop
<1> DEFINE old == fence[k].pending
           new == fence'[k].pending
<1>1. /\ old \in Seq(Uops) /\ DOMAIN old = 1..Len(old) /\ Len(old) \in Nat
      /\ \A i \in DOMAIN old : old[i] \in Uops
  BY FencesTyped
<1>2. /\ \A i, j \in DOMAIN old : i < j => old[i] < old[j]
      /\ \A i \in DOMAIN old : FenceUop(k, old[i]) /\ Added(old[i])
      /\ \A f \in Uops : FenceUop(k, f) /\ Added(f) => Contains(old, f) \/ Past(f)
  BY DEF FenceInv, FenceListInv
<1>3. /\ \A u \in Uops : Added(u) => Added(u)'
      /\ \A u \in Uops : Added(u)' => Added(u) \/ (AddNewUop /\ u = Head(work))
      /\ \A u \in Uops : Past(u) => Past(u)'
      /\ \A u \in Uops : ~Outstanding(u) => Past(u)
      /\ \A u \in Uops : Added(u) => uop'[u].port # None
  BY FenceFrame DEF Added
<1> HIDE DEF old, new
<1>4. CASE new = old /\ (AddNewUop => ~FenceUop(k, Head(work)))
  BY <1>1, <1>2, <1>3, <1>4 DEF new
<1>5. CASE AddNewUop /\ Head(work) \in Uops /\ FenceUop(k, Head(work)) /\ new = Append(old, Head(work))
  <2> DEFINE h == Head(work)
  <2>1. /\ DOMAIN new = 1..(Len(old) + 1)
        /\ \A i \in DOMAIN old : new[i] = old[i]
        /\ new[Len(old) + 1] = h
    BY <1>1, <1>5, Appended
  <2>2. \A v \in Uops : Added(v) => v < h
    <3>1. AddWork = work /\ work \in Seq(Uops) /\ work # <<>>
      BY <1>5, AddEffect DEF AddWork, WorkIn
    <3> QED
      BY <3>1, HeadContained DEF FenceInv, AgeInv
  <2>3. uop'[h].port # None
    <3>1. uop'[Head(work)].port \in Ports
      BY <1>5, AddEffect
    <3> QED
      BY <3>1, ConstantsTyped DEF None
  <2>4. \A i \in DOMAIN old : old[i] < h
    BY <1>1, <1>2, <2>2
  <2> HIDE DEF h
  <2>5. \A i \in DOMAIN new : i \in DOMAIN old \/ i = Len(old) + 1
    BY <1>1, <2>1
  <2>6. \A i, j \in DOMAIN new : i < j => new[i] < new[j]
    <3> SUFFICES ASSUME NEW i \in DOMAIN new, NEW j \in DOMAIN new, i < j
                 PROVE  new[i] < new[j]
      OBVIOUS
    <3>1. i \in DOMAIN old
      BY <1>1, <2>1
    <3> QED
      BY <1>2, <2>1, <2>4, <2>5, <3>1
  <2>7. \A i \in DOMAIN new : FenceUop(k, new[i]) /\ uop'[new[i]].port # None
    BY <1>1, <1>2, <1>3, <1>5, <2>1, <2>3, <2>5 DEF h
  <2>8. \A f \in Uops : FenceUop(k, f) /\ Added(f)' => Contains(new, f) \/ Past(f)'
    <3> SUFFICES ASSUME NEW f \in Uops, FenceUop(k, f), Added(f)', ~Past(f)'
                 PROVE  Contains(new, f)
      OBVIOUS
    <3>1. CASE f = h
      <4>1. Len(old) + 1 \in DOMAIN new
        BY <1>1, <2>1
      <4> QED
        BY <2>1, <3>1, <4>1 DEF Contains
    <3>2. CASE f # h
      <4>1. Contains(old, f)
        BY <1>2, <1>3, <3>2 DEF h
      <4>2. DOMAIN old \subseteq DOMAIN new
        BY <1>1, <2>1
      <4> QED
        BY <2>1, <4>1, <4>2 DEF Contains
    <3> QED
      BY <3>1, <3>2
  <2> QED
    BY <2>6, <2>7, <2>8 DEF new
<1>6. CASE ~AddNewUop /\ \E n \in 0..Len(old) : PoppedFences(k, n) /\ new = SubSeq(old, n + 1, Len(old))
  <2>1. PICK n \in 0..Len(old) : PoppedFences(k, n) /\ new = SubSeq(old, n + 1, Len(old))
    BY <1>6
  <2>2. /\ DOMAIN new = 1..(Len(old) - n)
        /\ \A i \in DOMAIN new : i + n \in DOMAIN old /\ new[i] = old[i + n]
    BY <1>1, <2>1, DropProperties
  <2>3. \A i \in 1..n : Past(old[i])
    <3>1. \A i \in 1..n : i \in DOMAIN old
      BY <1>1
    <3> QED
      BY <1>1, <1>3, <2>1, <3>1 DEF PoppedFences, old
  <2>4. \A i, j \in DOMAIN new : i < j => new[i] < new[j]
    <3>1. \A i, j \in DOMAIN new : i < j => i + n < j + n
      BY <1>1, <2>2
    <3> QED
      BY <1>2, <2>2, <3>1
  <2>5. \A f \in Uops : Contains(old, f) => Contains(new, f) \/ Past(f)
    <3> SUFFICES ASSUME NEW i \in DOMAIN old, ~Past(old[i])
                 PROVE  Contains(new, old[i])
      BY DEF Contains
    <3>1. i \in 1..Len(old) /\ i \notin 1..n
      BY <1>1, <2>3
    <3>2. i - n \in 1..(Len(old) - n) /\ (i - n) + n = i
      BY <1>1, <3>1
    <3> QED
      BY <2>2, <3>2 DEF Contains
  <2>6. \A i \in DOMAIN new : FenceUop(k, new[i]) /\ uop'[new[i]].port # None
    BY <1>1, <1>2, <1>3, <2>2
  <2>7. \A f \in Uops : FenceUop(k, f) /\ Added(f)' => Contains(new, f) \/ Past(f)'
    BY <1>2, <1>3, <1>6, <2>5
  <2> QED
    BY <2>4, <2>6, <2>7 DEF new
<1> QED
  <2>1. MakeReady \/ EndSchedulerCycle => ~AddNewUop
    BY DEF MakeReady, EndSchedulerCycle, AddNewUop
  <2>2. \/ new = old /\ (AddNewUop => ~FenceUop(k, Head(work)))
        \/ AddNewUop /\ Head(work) \in Uops /\ FenceUop(k, Head(work)) /\ new = Append(old, Head(work))
        \/ ~AddNewUop /\ \E n \in 0..Len(old) : PoppedFences(k, n) /\ new = SubSeq(old, n + 1, Len(old))
    BY <2>1, FenceEffect DEF old, new
  <2> QED
    BY <1>4, <1>5, <1>6, <2>2

(* A fence in front of a uop that check_uop_ready lets pass has executed.  *)
LEMMA FencesPassed ==
  ASSUME TypeOK, TypeOK', OrderInv, PlaceInv, FenceInv, [Next]_vars, MakeReady,
         NEW k \in FenceKinds, NEW f \in Uops, FenceUop(k, f), f < Head(work),
         ChecksFences(k, Head(work))
  PROVE  Past(f)
<1> DEFINE u == Head(work)
           list == fence[k].pending
<1>1. /\ phase = "nonReady" /\ work # <<>> /\ u \in Uops /\ Checks(u) /\ Added(u)
  BY ReadyEffect, HeadToWait DEF PlaceInv
<1>2. Added(f)
  BY <1>1, OlderAdded DEF FenceUop
<1>3. /\ list \in Seq(Uops) /\ DOMAIN list = 1..Len(list) /\ Len(list) \in Nat
      /\ \A i \in DOMAIN list : list[i] \in Uops
  BY FencesTyped
<1>4. /\ \A i, j \in DOMAIN list : i < j => list[i] < list[j]
      /\ Contains(list, f) \/ Past(f)
  BY <1>2 DEF FenceInv, FenceListInv
<1>5. f \in Nat /\ u \in Nat
  BY <1>1, ConstantsTyped
<1>6. list # <<>> => Head(list) = list[1]
  BY <1>3
<1>7. FencedOff(k, u) <=> list # <<>> /\ Head(list) < u
  BY DEF FencedOff
<1>8. FenceMayStart(k, u) => list # <<>> /\ Head(list) = u
  BY DEF FenceMayStart
<1>9. FencedOff(k, u) => ~FencesAllow(u) \/ prog.uops[u].fences # {}
  BY DEF FencesAllow, ChecksFences
<1> HIDE DEF u, list
<1>10. CASE Contains(list, f)
  <2>1. PICK i \in DOMAIN list : list[i] = f
    BY <1>10 DEF Contains
  <2>2. list # <<>> /\ 1 \in DOMAIN list /\ list[1] \in Nat /\ (i = 1 \/ 1 < i)
    <3>1. i \in 1..Len(list)
      BY <1>3, <2>1
    <3>2. 1 \in 1..Len(list)
      BY <1>3, <3>1
    <3>3. list # <<>>
      BY <1>3, <3>2, EmptySeq
    <3>4. 1 \in DOMAIN list /\ list[1] \in Uops
      BY <1>3, <3>2
    <3>5. list[1] \in Nat
      BY <3>4, ConstantsTyped
    <3>6. i = 1 \/ 1 < i
      BY <1>3, <3>1
    <3> QED
      BY <3>3, <3>4, <3>5, <3>6
  <2>3. Head(list) <= f /\ Head(list) \in Nat
    BY <1>4, <1>5, <1>6, <2>1, <2>2
  <2>4. Head(list) < u /\ Head(list) # u
    BY <1>5, <2>3 DEF u
  <2>5. FencesAllow(u) /\ ChecksFences(k, u)
    BY <1>1 DEF Checks, u
  <2>6. CASE prog.uops[u].fences = {}
    BY <1>7, <2>2, <2>4, <2>5, <2>6 DEF ChecksFences, FencesAllow
  <2>7. CASE prog.uops[u].fences # {}
    BY <1>8, <2>4, <2>5, <2>7 DEF ChecksFences, FencesAllow
  <2> QED
    BY <2>6, <2>7
<1> QED
  BY <1>4, <1>10

LEMMA BehindStep ==
  ASSUME TypeOK, TypeOK', OrderInv, PlaceInv, FenceInv, [Next]_vars
  PROVE  BehindInv'
<1> SUFFICES ASSUME NEW k \in FenceKinds, NEW f \in Uops, NEW u \in Uops,
                    FenceUop(k, f), f < u, uop'[u].ready # None, ChecksFences(k, u)
             PROVE  uop'[f].exec # None /\ uop'[f].exec < uop'[u].ready
  BY FenceFrame DEF BehindInv
<1>1. CASE uop[u].ready # None
  <2>1. uop[f].exec # None /\ uop[f].exec < uop[u].ready
    BY <1>1 DEF FenceInv, BehindInv
  <2> QED
    BY <1>1, <2>1, UopStampsKept
<1>2. CASE uop[u].ready = None
  <2>1. MakeReady
    BY <1>2, StampWriters DEF KeepsReady
  <2>2. u = Head(work) /\ uop'[u].ready \in Nat /\ uop'[u].ready > clock
    BY <1>2, <2>1, ReadyEffect
  <2>3. Past(f)
    BY <2>1, <2>2, FencesPassed
  <2>4. uop'[f].exec = uop[f].exec /\ uop[f].exec \in Int /\ clock \in Nat
    BY <2>3, UopStampsKept, StampsTyped DEF Past
  <2> QED
    BY <2>2, <2>3, <2>4 DEF Past
<1> QED
  BY <1>1, <1>2

LEMMA SinceStep ==
  ASSUME TypeOK, TypeOK', OrderInv, PlaceInv, FenceInv, [Next]_vars
  PROVE  SinceInv'
<1> SUFFICES ASSUME NEW k \in FenceKinds, NEW f \in Uops, FirstFence(k, f), ~Past(f)',
                    NEW u \in 1..(f - 1), k \in Accesses(u), uop'[u].ready # None
             PROVE  u \in fence'[k].since \/ Past(u)'
  BY FenceFrame DEF SinceInv
<1>1. f \in Nat /\ u \in Uops /\ u < f
  BY ConstantsTyped, NumUopsAssumption DEF Uops
<1>2. ~Past(f) /\ (Past(u) => Past(u)')
  BY <1>1, FenceFrame
<1>3. CASE uop[u].ready = None
  <2>1. MakeReady
    BY <1>1, <1>3, StampWriters DEF KeepsReady
  <2>2. u = Head(work)
    BY <1>1, <1>3, <2>1, ReadyEffect
  <2>3. ~AddNewUop /\ ~EndSchedulerCycle
    BY <2>1 DEF MakeReady, AddNewUop, EndSchedulerCycle
  <2>4. fence'[k] = IF k \in Accesses(Head(work))
                    THEN [fence[k] EXCEPT !.since = @ \cup {Head(work)}] ELSE fence[k]
    BY <2>1, FencesTyped DEF MakeReady, Current
  <2>5. fence'[k] = [fence[k] EXCEPT !.since = @ \cup {u}]
    BY <2>2, <2>4
  <2>6. fence[k] \in [pending : Seq(Uops), since : SUBSET Uops]
    BY DEF TypeOK, SchedulerTypeOK
  <2>7. fence'[k].since = fence[k].since \cup {u}
    BY <2>5, <2>6
  <2> QED
    BY <2>7
<1>4. CASE uop[u].ready # None
  <2>1. u \in fence[k].since \/ Past(u)
    BY <1>2, <1>4 DEF FenceInv, SinceInv
  <2>2. CASE fence'[k].since = fence[k].since \/ fence[k].since \subseteq fence'[k].since
    BY <1>2, <2>1, <2>2
  <2>3. CASE /\ EndSchedulerCycle
             /\ \E n \in 0..Len(fence[k].pending) :
                  /\ PoppedFences(k, n)
                  /\ fence'[k].since = IF n > 0 THEN {} ELSE fence[k].since
    <3> DEFINE list == fence[k].pending
    <3>1. PICK n \in 0..Len(list) :
            PoppedFences(k, n) /\ fence'[k].since = IF n > 0 THEN {} ELSE fence[k].since
      BY <2>3
    <3>2. CASE n > 0
      <4>1. /\ list \in Seq(Uops) /\ DOMAIN list = 1..Len(list) /\ Len(list) \in Nat
            /\ \A i \in DOMAIN list : list[i] \in Uops
        BY FencesTyped
      <4>2. 1 \in DOMAIN list /\ 1 \in 1..n
        BY <3>1, <3>2, <4>1
      <4> DEFINE g == list[1]
      <4>3. g \in Uops /\ FenceUop(k, g) /\ Added(g) /\ Past(g)
        BY <3>1, <4>1, <4>2, FenceFrame DEF FenceInv, FenceListInv, PoppedFences
      <4>4. g \in Nat /\ ~(g < f) /\ g # f
        <5>1. g \in Nat /\ g >= 1
          BY <4>3, NumUopsAssumption DEF Uops
        <5>2. g < f => prog.uops[g].fences = {}
          BY <1>1, <5>1 DEF FirstFence
        <5> QED
          BY <1>2, <4>3, <5>1, <5>2 DEF FenceUop
      <4>5. Added(f)
        <5>1. phase # "add"
          BY <2>3 DEF EndSchedulerCycle
        <5> QED
          BY <1>1, <4>3, <4>4, <5>1, OlderAdded DEF FirstFence, FenceUop
      <4>6. PICK i \in DOMAIN list : list[i] = f
        BY <1>2, <4>5 DEF FenceInv, FenceListInv, FirstFence, Contains
      <4>7. i = 1 \/ 1 < i
        BY <4>1, <4>6
      <4>8. i = 1 \/ g < f
        BY <4>2, <4>6, <4>7 DEF FenceInv, FenceListInv
      <4> QED
        BY <4>4, <4>6, <4>8
    <3>3. CASE ~(n > 0)
      BY <2>2, <3>1, <3>3
    <3> QED
      BY <3>2, <3>3
  <2> QED
    BY <2>2, <2>3, FenceEffect
<1> QED
  BY <1>3, <1>4

(* The lists of fences, and what the scheduler has let pass them.          *)
THEOREM FenceCorrect == Spec => []FenceInv
<1>1. Init => FenceInv
  <2> SUFFICES ASSUME Init PROVE FenceInv
    OBVIOUS
  <2>1. /\ \A u \in Uops : uop[u].port = None /\ uop[u].ready = None
        /\ AddWork = <<>> /\ \A k \in FenceKinds : fence[k].pending = <<>>
    BY DEF Init, StorageInit, SchedulerInit, AddWork, WorkIn
  <2>2. DOMAIN <<>> = {}
    BY EmptySeq, LenProperties
  <2>3. FenceListInv
    BY <2>1, <2>2 DEF FenceListInv, Added
  <2>4. BehindInv
    BY <2>1 DEF BehindInv
  <2>5. SinceInv
    <3>1. \A f \in Uops : \A u \in 1..(f - 1) : u \in Uops
      BY NumUopsAssumption DEF Uops
    <3> QED
      BY <2>1, <3>1 DEF SinceInv
  <2> QED
    BY <2>1, <2>2, <2>3, <2>4, <2>5 DEF FenceInv, AgeInv
<1>2. /\ TypeOK /\ TypeOK' /\ OrderInv /\ PlaceInv /\ PlaceInv' /\ FenceInv /\ [Next]_vars
      => FenceInv'
  BY AgeStep, FenceListStep, BehindStep, SinceStep DEF FenceInv
<1> QED
  BY <1>1, <1>2, TypeCorrect, OrderCorrect, PlaceCorrect, PTL DEF Spec

(* No access is executed on the wrong side of a fence in front of it, and  *)
(* fences of one kind execute in program order: check_uop_ready lets a uop *)
(* become ready only when no older fence is left in the list of its kind,  *)
(* and process_pending_fences takes off the executed ones only.            *)
THEOREM Fences == Spec => []FencesRespected
<1>1. TypeOK /\ PlaceInv /\ LifeInv /\ FenceInv => FencesRespected
  <2> SUFFICES ASSUME TypeOK, PlaceInv, LifeInv, FenceInv
               PROVE  FencesRespected
    OBVIOUS
  <2>1. ASSUME NEW k \in FenceKinds, NEW f \in Uops, NEW u \in Uops, FenceUop(k, f), f < u,
               ChecksFences(k, u), uop[u].disp # None
        PROVE  uop[f].exec # None /\ uop[f].exec < uop[u].disp
    <3>1. uop[u].ready # None /\ uop[u].ready <= uop[u].disp
      BY <2>1 DEF PlaceInv, StageInv, LifeInv
    <3>2. uop[f].exec # None /\ uop[f].exec < uop[u].ready
      BY <2>1, <3>1 DEF FenceInv, BehindInv
    <3>3. uop[f].exec \in Int /\ uop[u].ready \in Int /\ uop[u].disp \in Int
      BY StampsTyped
    <3> QED
      BY <3>1, <3>2, <3>3
  <2>2. FencesHoldYounger
    <3> SUFFICES ASSUME NEW f \in Uops, NEW u \in Uops, prog.uops[f].first, NeedsPort(f), f < u,
                        prog.uops[u].fences = {}, uop[u].disp # None,
                        NEW k \in Accesses(u) \cap prog.uops[f].fences
                 PROVE  uop[f].exec # None /\ uop[f].exec < uop[u].disp
      BY DEF FencesHoldYounger
    <3>1. k \in FenceKinds /\ FenceUop(k, f) /\ ChecksFences(k, u)
      BY DEF FenceUop, ChecksFences, Accesses
    <3> QED
      BY <2>1, <3>1
  <2>3. FencesInOrder
    <3> SUFFICES ASSUME NEW f \in Uops, NEW g \in Uops, f < g, NeedsPort(f), NeedsPort(g),
                        prog.uops[f].first, prog.uops[g].first, prog.uops[g].fences # {},
                        FenceKind(g) \in prog.uops[f].fences, uop[g].disp # None
                 PROVE  uop[f].exec # None /\ uop[f].exec < uop[g].disp
      BY DEF FencesInOrder
    <3>1. FenceKind(g) \in FenceKinds /\ FenceUop(FenceKind(g), f) /\ ChecksFences(FenceKind(g), g)
      BY DEF FenceUop, ChecksFences, FenceKind, FenceKinds
    <3> QED
      BY <2>1, <3>1
  <2> QED
    BY <2>2, <2>3 DEF FencesRespected
<1> QED
  BY <1>1, TypeCorrect, PlaceCorrect, LifeCorrect, FenceCorrect, PTL

(* The oldest fence becomes ready only after every older access that had   *)
(* become ready before it has executed: the accesses are kept in the set   *)
(* the fence waits for until a fence leaves the list, and none is older.   *)
THEOREM FenceWaits == Spec => FenceWaitsForAccesses
<1>1. /\ TypeOK /\ TypeOK' /\ OrderInv /\ PlaceInv /\ FenceInv /\ [Next]_vars
      => \A f \in Uops :
           /\ prog.uops[f].first /\ prog.uops[f].fences # {}
           /\ \A g \in 1..(f - 1) : prog.uops[g].fences = {}
           /\ uop[f].ready = None /\ uop'[f].ready # None
           => \A u \in 1..(f - 1) :
                FenceKind(f) \in Accesses(u) /\ uop[u].ready # None =>
                  uop[u].exec # None /\ uop[u].exec <= clock
  <2> SUFFICES ASSUME TypeOK, TypeOK', OrderInv, PlaceInv, FenceInv, [Next]_vars, NEW f \in Uops,
                      prog.uops[f].first, prog.uops[f].fences # {},
                      \A g \in 1..(f - 1) : prog.uops[g].fences = {},
                      uop[f].ready = None, uop'[f].ready # None,
                      NEW u \in 1..(f - 1), FenceKind(f) \in Accesses(u), uop[u].ready # None
               PROVE  Past(u)
    BY DEF Past
  <2> DEFINE k == FenceKind(f)
  <2>1. MakeReady
    BY StampWriters DEF KeepsReady
  <2>2. f = Head(work) /\ Checks(f) /\ phase = "nonReady" /\ work # <<>>
    BY <2>1, ReadyEffect
  <2>3. NeedsPort(f) /\ uop[f].exec = None
    BY <2>2, HeadToWait DEF PlaceInv
  <2>4. k \in FenceKinds /\ k \in prog.uops[f].fences
    <3>1. prog.uops[f].fences \subseteq FenceKinds
      BY StampsTyped, UopTyped DEF UopProperties
    <3> QED
      BY <3>1 DEF FenceKind, FenceKinds
  <2>5. FirstFence(k, f) /\ ~Past(f)
    BY <2>3, <2>4 DEF FirstFence, FenceUop, Past
  <2>6. FenceMayStart(k, f)
    BY <2>2 DEF Checks, FencesAllow
  <2>7. u \in Uops
    BY NumUopsAssumption DEF Uops
  <2> HIDE DEF k
  <2>8. u \in fence[k].since \/ Past(u)
    BY <2>4, <2>5 DEF FenceInv, SinceInv, k
  <2>9. u \in fence[k].since => ~Outstanding(u)
    BY <2>6 DEF FenceMayStart
  <2> QED
    BY <2>7, <2>8, <2>9, FenceFrame
<1> QED
  BY <1>1, TypeCorrect, OrderCorrect, PlaceCorrect, FenceCorrect, PTL
     DEF Spec, FenceWaitsForAccesses

-----------------------------------------------------------------------------
(* Execution units.                                                        *)

(* A uop dispatched in this cycle has used up its port.                    *)
PortsInv ==
  /\ \A i, j \in DOMAIN PortWork : PortWork[i] = PortWork[j] => i = j
  /\ \A u \in Uops : uop[u].disp = clock => ~Contains(PortWork, uop[u].port)
  /\ OneUopPerPort

(* The counters of the blocked resources go down at the end of the         *)
(* scheduler's cycle, before the clock goes up.                            *)
Ahead == IF phase \in {"fill", "drain", "done"} THEN 1 ELSE 0

(* The divider stays blocked for as long as a uop uses it.                 *)
DivInv ==
  /\ \A u \in Uops : uop[u].disp # None /\ prog.uops[u].div > 0 =>
       uop[u].disp + prog.uops[u].div <= clock + blocked.div + Ahead
  /\ DividerExclusive

(* Port 4 rests for a cycle after a slow 256-bit store.                    *)
Rests(u) ==
  Slow256BitMemAcc /\ uop[u].port = 4 /\ prog.uops[u].m256 /\ uop[u].disp # None

RestInv ==
  /\ \A u \in Uops : Rests(u) => uop[u].disp + 2 <= clock + blocked.port[4] + Ahead
  /\ \A u, v \in Uops : Rests(u) /\ uop[v].port = 4 /\ uop[u].disp < uop[v].disp =>
       uop[v].disp > uop[u].disp + 1

(* The uop a port has dispatched in this cycle, or will if it may.         *)
Chosen(p) == {u \in Uops :
  IF Contains(PortWork, p)
  THEN /\ p \notin held /\ u \in readyQueue[p]
       /\ \A v \in readyQueue[p] : prog.uops[u].queueIdx <= prog.uops[v].queueIdx
  ELSE uop[u].disp = clock /\ uop[u].port = p}

Line(u)  == prog.uops[prog.uops[u].entry].disp
Keyed(u) == prog.uops[u].entry # None /\ Line(u) # None

(* Two stores the same cycle must not see, and two such loads.             *)
Apart(u, v) == Keyed(u) /\ Keyed(v) /\ (Line(u) - Line(v) >= 64 \/ Line(v) - Line(u) >= 64)
Wide(u)     == Slow256BitMemAcc /\ prog.uops[u].kind = "load" /\ prog.uops[u].m256

PairInv ==
  /\ phase = "dispatch" =>
       /\ \A u \in Chosen(4), v \in Chosen(9) : ~Apart(u, v)
       /\ \A u \in Chosen(2), v \in Chosen(3) : ~(Wide(u) /\ Wide(v))
  /\ \A u, v \in Uops : uop[u].disp # None /\ uop[u].disp = uop[v].disp =>
       /\ uop[u].port = 4 /\ uop[v].port = 9 => ~Apart(u, v)
       /\ uop[u].port = 2 /\ uop[v].port = 3 => ~(Wide(u) /\ Wide(v))

UnitInv == PortsInv /\ DivInv /\ RestInv /\ PairInv

LEMMA BlockedTyped ==
  ASSUME TypeOK
  PROVE  /\ blocked.div \in Nat /\ blocked.port \in [Ports -> Nat]
         /\ \A p \in Ports : blocked.port[p] \in Nat
         /\ clock \in Nat /\ Ahead \in 0..1
         /\ held \in SUBSET Ports /\ PortWork \in Seq(Ports)
         /\ blocked \in [div : Nat, port : [Ports -> Nat], instr : [InstrStrs -> Nat]]
<1>1. blocked \in [div : Nat, port : [Ports -> Nat], instr : [InstrStrs -> Nat]]
  BY DEF TypeOK, SchedulerTypeOK
<1>2. blocked.div \in Nat /\ blocked.port \in [Ports -> Nat]
  BY <1>1
<1>3. \A p \in Ports : blocked.port[p] \in Nat
  BY <1>2
<1>4. clock \in Nat /\ held \in SUBSET Ports /\ (phase = "dispatch" => work \in Seq(Ports))
  BY DEF TypeOK, StorageTypeOK, SchedulerTypeOK, LoopTypeOK
<1>5. PortWork \in Seq(Ports)
  BY <1>4, EmptySeq DEF PortWork, WorkIn
<1>6. Ahead \in 0..1
  BY DEF Ahead
<1> QED
  BY <1>1, <1>2, <1>3, <1>4, <1>5, <1>6

(* A uop that uses the divider was added to port 0.                        *)
LEMMA DivPort ==
  ASSUME TypeOK, PlaceInv, DividerOnPort0, NEW u \in Uops, Added(u), prog.uops[u].div > 0
  PROVE  uop[u].port = 0
<1>1. stream \in DOMAIN Programs /\ prog = Programs[stream]
  BY StampsTyped DEF prog, Streams
<1>2. prog.uops[u].ports \subseteq {0}
  BY <1>1 DEF DividerOnPort0
<1> QED
  BY <1>2 DEF PlaceInv, StageInv

(* What dispatch_uops does for one port.                                   *)
LEMMA DispatchUnit ==
  ASSUME TypeOK, PlaceInv, DividerOnPort0, DispatchUop
  PROVE  LET p == Head(work)
         IN  /\ PortWork = work /\ PortWork' = Tail(work) /\ PortWork # <<>>
             /\ p \in Ports /\ p \notin held /\ blocked.port[p] = 0 /\ held' = held
             /\ \E u \in Uops :
                  /\ uop[u].disp = None /\ uop[u].port = p
                  /\ uop'[u].disp = clock /\ uop'[u].port = p
                  /\ \A v \in Uops \ {u} : uop'[v] = uop[v]
                  /\ p # 0 => readyQueue[p] # {} /\ u = Oldest(readyQueue[p])
                  /\ \A r \in Ports \ {0, p} : readyQueue'[r] = readyQueue[r]
                  /\ prog.uops[u].div > 0 => blocked.div = 0
                  /\ blocked'.div = blocked.div + prog.uops[u].div
                  /\ blocked'.port = IF Slow256BitMemAcc /\ p = 4 /\ prog.uops[u].m256
                                     THEN [blocked.port EXCEPT ![4] = 2] ELSE blocked.port
<1> DEFINE p == Head(work)
           q == SourceQueue(p)
           u == Oldest(readyQueue[q])
<1>1. /\ work \in Seq(Ports) /\ work # <<>> /\ work' = Tail(work)
      /\ phase = "dispatch" /\ phase' = "dispatch" /\ clock' = clock /\ KeepsPort
  BY DispatchEffect
<1>2. /\ p \in Ports /\ PortWork = work /\ PortWork' = Tail(work)
  BY <1>1, HeadTailProperties DEF PortWork, WorkIn
<1>3. p \notin held /\ blocked.port[p] = 0 /\ held' = held
  BY DEF DispatchUop, CanDispatch, Current
<1>4. /\ q \in Queues /\ u \in readyQueue[q] /\ u \in Uops
      /\ uop'[u].disp = clock /\ \A v \in Uops \ {u} : uop'[v] = uop[v]
      /\ \A r \in Queues : r # q => readyQueue'[r] = readyQueue[r]
  BY DispatchEffect
<1>5. /\ q = DivQueue => p = 0 /\ blocked.div = 0
      /\ q # DivQueue => q = p
  <2>1. p # DivQueue
    BY <1>2, ConstantsTyped DEF DivQueue
  <2> HIDE DEF p
  <2> QED
    BY <2>1 DEF SourceQueue, UseDivQueue
<1>6. Added(u) /\ q = QueueOf(u) /\ uop[u].disp = None
  BY <1>1, <1>4, QueuedStage DEF PlaceInv
<1>7. uop[u].port = p /\ (prog.uops[u].div > 0 => blocked.div = 0)
  <2>1. CASE prog.uops[u].div > 0
    <3>1. q = DivQueue
      BY <1>6, <2>1 DEF QueueOf
    <3> QED
      BY <1>4, <1>5, <1>6, <2>1, <3>1, DivPort
  <2>2. CASE ~(prog.uops[u].div > 0)
    <3>1. q = uop[u].port
      BY <1>6, <2>2 DEF QueueOf
    <3>2. q # DivQueue
      BY <1>4, <1>6, <3>1, StampsTyped, ConstantsTyped DEF DivQueue, Added, None
    <3> QED
      BY <1>5, <2>2, <3>1, <3>2
  <2> QED
    BY <2>1, <2>2
<1>8. uop'[u].port = p
  BY <1>1, <1>4, <1>7 DEF KeepsPort
<1>9. p # 0 => readyQueue[p] # {} /\ u = Oldest(readyQueue[p])
  BY <1>4, <1>5
<1>10. \A r \in Ports \ {0, p} : readyQueue'[r] = readyQueue[r]
  <2>1. \A r \in Ports : r \in Queues /\ r # DivQueue
    BY ConstantsTyped DEF DivQueue
  <2> QED
    BY <1>4, <1>5, <2>1
<1>11. /\ blocked'.div = blocked.div + prog.uops[u].div
       /\ blocked'.port = IF Slow256BitMemAcc /\ p = 4 /\ prog.uops[u].m256
                          THEN [blocked.port EXCEPT ![4] = 2] ELSE blocked.port
  <2> DEFINE port == IF Slow256BitMemAcc /\ p = 4 /\ prog.uops[u].m256
                     THEN [blocked.port EXCEPT ![4] = 2] ELSE blocked.port
  <2>1. blocked' = [blocked EXCEPT !.div = blocked.div + prog.uops[u].div, !.port = port]
    BY DEF DispatchUop, Current
  <2> HIDE DEF p, q, u, port
  <2>2. blocked'.div = blocked.div + prog.uops[u].div /\ blocked'.port = port
    BY <2>1, BlockedTyped
  <2> QED
    BY <2>2 DEF port
<1> HIDE DEF p, q, u
<1>12. work # <<>>
  BY <1>1
<1>13. \E x \in Uops :
         /\ uop[x].disp = None /\ uop[x].port = p
         /\ uop'[x].disp = clock /\ uop'[x].port = p
         /\ \A v \in Uops \ {x} : uop'[v] = uop[v]
         /\ p # 0 => readyQueue[p] # {} /\ x = Oldest(readyQueue[p])
         /\ \A r \in Ports \ {0, p} : readyQueue'[r] = readyQueue[r]
         /\ prog.uops[x].div > 0 => blocked.div = 0
         /\ blocked'.div = blocked.div + prog.uops[x].div
         /\ blocked'.port = IF Slow256BitMemAcc /\ p = 4 /\ prog.uops[x].m256
                            THEN [blocked.port EXCEPT ![4] = 2] ELSE blocked.port
  BY <1>4, <1>6, <1>7, <1>8, <1>9, <1>10, <1>11
<1> QED
  BY <1>2, <1>3, <1>12, <1>13 DEF p

(* While nothing is dispatched the stamps of the dispatched uops stay, and *)
(* a counter of a blocked resource never goes down faster than the clock.  *)
LEMMA UnitFrame ==
  ASSUME TypeOK, TypeOK', OrderInv, PlaceInv, [Next]_vars, ~DispatchUop
  PROVE  /\ \A u \in Uops : /\ uop'[u].disp = uop[u].disp
                            /\ uop[u].disp # None => uop'[u].port = uop[u].port
                            /\ uop'[u].disp # None => uop'[u].port = uop[u].port
         /\ clock + blocked.div + Ahead <= clock' + blocked'.div + Ahead'
         /\ \A p \in Ports :
              clock + blocked.port[p] + Ahead <= clock' + blocked'.port[p] + Ahead'
<1>1. \A u \in Uops : /\ uop'[u].disp = uop[u].disp
                      /\ uop[u].disp # None => uop'[u].port = uop[u].port
  <2>1. \A u \in Uops : uop[u].disp # None => uop[u].port # None
    BY DEF PlaceInv, StageInv, Added
  <2>2. KeepsDisp
    BY StampWriters
  <2> QED
    BY <2>1, <2>2, UopStampsKept DEF KeepsDisp
<1>2. /\ blocked.div \in Nat /\ (blocked'.div) \in Nat /\ clock \in Nat /\ clock' \in Nat
      /\ Ahead \in 0..1 /\ Ahead' \in 0..1
      /\ \A p \in Ports : blocked.port[p] \in Nat
  <2>1. blocked' \in [div : Nat, port : [Ports -> Nat], instr : [InstrStrs -> Nat]]
    BY DEF TypeOK, SchedulerTypeOK
  <2>2. clock' \in Nat
    BY DEF TypeOK, StorageTypeOK
  <2>3. (blocked'.div) \in Nat
    BY <2>1
  <2>4. Ahead' \in 0..1
    BY DEF Ahead
  <2> QED
    BY <2>2, <2>3, <2>4, BlockedTyped
<1>3. CASE EndSchedulerCycle
  <2>1. Ahead = 0 /\ Ahead' = 1 /\ clock' = clock
    BY <1>3 DEF EndSchedulerCycle, Ahead, storageVars
  <2>2. /\ blocked'.div = Less1(blocked.div)
        /\ \A p \in Ports : blocked'.port[p] = Less1(blocked.port[p])
    BY <1>3 DEF EndSchedulerCycle, UpdateBlockedResources
  <2>3. \A n \in Nat : Less1(n) \in Nat /\ n <= Less1(n) + 1
    BY DEF Less1
  <2> QED
    BY <1>1, <1>2, <2>1, <2>2, <2>3
<1>4. CASE Tick
  <2>1. Ahead = 1 /\ clock' = clock + 1 /\ blocked' = blocked
    BY <1>4 DEF Tick, Ahead, schedulerVars
  <2> QED
    BY <1>1, <1>2, <2>1
<1>5. CASE ~EndSchedulerCycle /\ ~Tick
  <2>1. clock' = clock
    BY <1>5, StorageWriters
  <2>2. blocked'.div = blocked.div /\ blocked'.port = blocked.port
    <3>1. CASE MakeReady
      <4> DEFINE props == prog.uops[Current]
      <4>1. blocked' = IF props.first /\ props.tp # None
                       THEN [blocked EXCEPT !.instr[props.instr] = props.tp] ELSE blocked
        BY <3>1 DEF MakeReady
      <4> HIDE DEF props
      <4>2. CASE props.first /\ props.tp # None
        <5>1. blocked' = [blocked EXCEPT !.instr[props.instr] = props.tp]
          BY <4>1, <4>2
        <5> QED
          BY <5>1, BlockedTyped
      <4> QED
        BY <4>1, <4>2
    <3>2. CASE ~MakeReady
      BY <1>5, <3>2, QueueWriters
    <3> QED
      BY <3>1, <3>2
  <2>3. Ahead' = Ahead
    <3>1. CASE Quiet
      BY <3>1
         DEF Quiet, IssueLam, IssueMerges, EndIssue, Deliver, Stall, NoFill, Stop, Done, vars,
             loopVars, Ahead
    <3>2. CASE CycleReorderBuffer
      BY <3>2, BufferEffect DEF Ahead
    <3>3. CASE SchedulerNext
      BY <1>5, <3>3
         DEF SchedulerNext, MoveReadyUop, EndMoveReady, VisitFused, SkipUop, AddNewUop,
             BeginDispatch, DispatchUop, IdlePort, EndDispatch, FinishPendingUop, KeepPendingUop,
             EndPending, WakeDependent, BeginNonReady, MakeReady, StayNonReady, EndNonReady,
             EnterLoop, Ahead
    <3> QED
      BY <1>5, <3>1, <3>2, <3>3, Steps
  <2> QED
    BY <1>1, <1>2, <2>1, <2>2, <2>3
<1> QED
  BY <1>1, <1>3, <1>4, <1>5

LEMMA PortsStep ==
  ASSUME TypeOK, TypeOK', OrderInv, PlaceInv, UnitInv, DividerOnPort0, [Next]_vars
  PROVE  PortsInv'
<1>1. \A u \in Uops : uop[u].disp \in Int /\ clock # None /\ clock \in Nat
  BY StampsTyped
<1>2. CASE DispatchUop
  <2> DEFINE p == Head(work)
  <2>1. /\ PortWork = work /\ PortWork' = Tail(work) /\ work # <<>> /\ p \in Ports
        /\ work \in Seq(Ports) /\ clock' = clock
    BY <1>2, DispatchUnit, DispatchEffect
  <2>2. PICK u \in Uops : /\ uop[u].disp = None /\ uop'[u].disp = clock /\ uop'[u].port = p
                          /\ \A v \in Uops \ {u} : uop'[v] = uop[v]
    BY <1>2, DispatchUnit
  <2>3. /\ \A v : Contains(work, v) <=> v = p \/ Contains(Tail(work), v)
        /\ \A i \in DOMAIN Tail(work) : i + 1 \in DOMAIN work /\ Tail(work)[i] = work[i + 1]
        /\ DOMAIN work = 1..Len(work) /\ DOMAIN Tail(work) = 1..(Len(work) - 1)
        /\ Len(work) \in Nat
        /\ 1 \in DOMAIN work /\ work[1] = p
    BY <2>1, TailContains, HeadContained
  <2> HIDE DEF p
  <2>4. \A i, j \in DOMAIN Tail(work) : Tail(work)[i] = Tail(work)[j] => i = j
    <3> SUFFICES ASSUME NEW i \in DOMAIN Tail(work), NEW j \in DOMAIN Tail(work),
                        Tail(work)[i] = Tail(work)[j]
                 PROVE  i = j
      OBVIOUS
    <3>1. i + 1 = j + 1
      BY <2>1, <2>3 DEF UnitInv, PortsInv
    <3> QED
      BY <2>3, <3>1
  <2>5. ~Contains(Tail(work), p)
    <3> SUFFICES ASSUME NEW i \in DOMAIN Tail(work), Tail(work)[i] = p
                 PROVE  FALSE
      BY DEF Contains
    <3>1. i + 1 = 1
      BY <2>1, <2>3 DEF UnitInv, PortsInv
    <3> QED
      BY <2>3, <3>1
  <2>6. \A v \in Uops : uop[v].disp = clock => uop[v].port # p /\ ~Contains(Tail(work), uop[v].port)
    BY <2>1, <2>3 DEF UnitInv, PortsInv
  <2>7. \A v \in Uops : uop'[v].disp = clock => ~Contains(Tail(work), uop'[v].port)
    BY <2>2, <2>5, <2>6
  <2>8. ASSUME NEW x \in Uops, NEW y \in Uops, x # y, uop'[x].disp # None,
               uop'[x].disp = uop'[y].disp
        PROVE  uop'[x].port # uop'[y].port
    <3>1. CASE x = u
      BY <2>2, <2>6, <2>8, <3>1
    <3>2. CASE y = u
      BY <2>2, <2>6, <2>8, <3>2
    <3>3. CASE x # u /\ y # u
      BY <2>2, <2>8, <3>3 DEF UnitInv, PortsInv, OneUopPerPort
    <3> QED
      BY <3>1, <3>2, <3>3
  <2> QED
    BY <2>1, <2>4, <2>7, <2>8 DEF PortsInv, OneUopPerPort
<1>3. CASE ~DispatchUop
  <2>1. \A u \in Uops : /\ uop'[u].disp = uop[u].disp
                        /\ uop'[u].disp # None => uop'[u].port = uop[u].port
    BY <1>3, UnitFrame
  <2>2. OneUopPerPort'
    BY <2>1 DEF UnitInv, PortsInv, OneUopPerPort
  <2>3. CASE BeginDispatch
    <3>1. phase = "add" /\ phase' = "dispatch" /\ PortWork' = AllPorts /\ clock' = clock
      BY <2>3 DEF BeginDispatch, EnterLoop, PortWork, WorkIn, storageVars
    <3>2. \A u \in Uops : uop[u].disp # clock
      BY <1>1, <3>1 DEF PlaceInv, RsInv, Early
    <3> QED
      BY <2>1, <2>2, <3>1, <3>2, PortsAssumption DEF PortsInv
  <2>4. CASE IdlePort
    <3>1. PortWork = work /\ PortWork' = Tail(work) /\ work # <<>> /\ clock' = clock
      BY <2>4 DEF IdlePort, Advance, PortWork, WorkIn, storageVars
    <3>2. work \in Seq(Ports)
      BY <3>1, BlockedTyped
    <3>3. /\ \A v : Contains(Tail(work), v) => Contains(work, v)
          /\ \A i \in DOMAIN Tail(work) : i + 1 \in DOMAIN work /\ Tail(work)[i] = work[i + 1]
          /\ DOMAIN Tail(work) = 1..(Len(work) - 1) /\ Len(work) \in Nat
      BY <3>1, <3>2, TailContains
    <3>4. \A i, j \in DOMAIN Tail(work) : Tail(work)[i] = Tail(work)[j] => i = j
      <4> SUFFICES ASSUME NEW i \in DOMAIN Tail(work), NEW j \in DOMAIN Tail(work),
                          Tail(work)[i] = Tail(work)[j]
                   PROVE  i = j
        OBVIOUS
      <4>1. i + 1 = j + 1
        BY <3>1, <3>3 DEF UnitInv, PortsInv
      <4> QED
        BY <3>3, <4>1
    <3>5. \A v \in Uops : uop'[v].disp = clock => ~Contains(Tail(work), uop'[v].port)
      BY <1>1, <2>1, <3>1, <3>3 DEF UnitInv, PortsInv
    <3> QED
      BY <2>2, <3>1, <3>4, <3>5 DEF PortsInv
  <2>5. CASE ~BeginDispatch /\ ~IdlePort
    <3>1. PortWork' = PortWork
      BY <1>3, <2>5, WorkWriters
    <3>2. CASE Tick
      <4>1. PortWork' = <<>>
        BY <3>2 DEF Tick, PortWork, WorkIn
      <4>2. DOMAIN <<>> = {}
        BY EmptySeq, LenProperties
      <4> QED
        BY <2>2, <4>1, <4>2 DEF PortsInv, Contains
    <3>3. CASE ~Tick
      <4>1. clock' = clock
        BY <3>3, StorageWriters
      <4>2. \A v \in Uops : uop'[v].disp = clock => ~Contains(PortWork, uop'[v].port)
        BY <1>1, <2>1 DEF UnitInv, PortsInv
      <4> QED
        BY <2>2, <3>1, <4>1, <4>2 DEF UnitInv, PortsInv
    <3> QED
      BY <3>2, <3>3
  <2> QED
    BY <2>3, <2>4, <2>5
<1> QED
  BY <1>2, <1>3

LEMMA DivStep ==
  ASSUME TypeOK, TypeOK', OrderInv, PlaceInv, UnitInv, DividerOnPort0, [Next]_vars
  PROVE  DivInv'
<1>1. /\ prog' = prog /\ blocked.div \in Nat /\ clock \in Nat /\ clock # None
      /\ \A u \in Uops : uop[u].disp \in Int /\ prog.uops[u].div \in Nat
  BY StorageWriters, BlockedTyped, StampsTyped, UopTyped
<1>2. CASE DispatchUop
  <2>1. clock' = clock /\ Ahead = 0 /\ Ahead' = 0
    BY <1>2, DispatchEffect DEF Ahead
  <2>2. PICK u \in Uops : /\ uop[u].disp = None /\ uop'[u].disp = clock
                          /\ \A v \in Uops \ {u} : uop'[v] = uop[v]
                          /\ prog.uops[u].div > 0 => blocked.div = 0
                          /\ blocked'.div = blocked.div + prog.uops[u].div
    BY <1>2, DispatchUnit
  <2>3. ASSUME NEW v \in Uops, v # u, uop'[v].disp # None, prog.uops[v].div > 0
        PROVE  uop'[v].disp = uop[v].disp /\ uop[v].disp + prog.uops[v].div <= clock + blocked.div
    BY <1>1, <2>1, <2>2, <2>3 DEF UnitInv, DivInv
  <2>4. \A v \in Uops : uop'[v].disp # None /\ prog.uops[v].div > 0 =>
          uop'[v].disp + prog.uops[v].div <= clock + (blocked.div + prog.uops[u].div)
    BY <1>1, <2>2, <2>3
  <2>5. ASSUME NEW x \in Uops, NEW y \in Uops, x # y, uop'[x].disp # None, uop'[y].disp # None,
               prog.uops[x].div > 0, prog.uops[y].div > 0, uop'[x].disp <= uop'[y].disp
        PROVE  uop'[y].disp >= uop'[x].disp + prog.uops[x].div
    <3>1. CASE y = u
      <4>1. uop[x].disp + prog.uops[x].div <= clock + 0 /\ uop'[x].disp = uop[x].disp
        BY <2>2, <2>3, <2>5, <3>1
      <4> QED
        BY <1>1, <2>2, <3>1, <4>1
    <3>2. CASE x = u
      <4>1. uop[y].disp + prog.uops[y].div <= clock + 0 /\ uop'[y].disp = uop[y].disp
        BY <2>2, <2>3, <2>5, <3>2
      <4> QED
        BY <1>1, <2>2, <2>5, <3>2, <4>1
    <3>3. CASE x # u /\ y # u
      BY <2>2, <2>5, <3>3 DEF UnitInv, DivInv, DividerExclusive
    <3> QED
      BY <3>1, <3>2, <3>3
  <2>6. DividerExclusive'
    BY <1>1, <2>5 DEF DividerExclusive
  <2> QED
    BY <1>1, <2>1, <2>2, <2>4, <2>6 DEF DivInv
<1>3. CASE ~DispatchUop
  <2>1. /\ \A u \in Uops : uop'[u].disp = uop[u].disp
        /\ clock + blocked.div + Ahead <= clock' + blocked'.div + Ahead'
    BY <1>3, UnitFrame
  <2>2. clock + blocked.div + Ahead \in Int /\ clock' + blocked'.div + Ahead' \in Int
    <3>1. blocked' \in [div : Nat, port : [Ports -> Nat], instr : [InstrStrs -> Nat]]
      BY DEF TypeOK, SchedulerTypeOK
    <3>2. (blocked'.div) \in Nat /\ clock' \in Nat /\ Ahead' \in Int
      BY <3>1 DEF TypeOK, StorageTypeOK, Ahead
    <3> QED
      BY <1>1, <3>2, BlockedTyped
  <2>3. \A u \in Uops : uop'[u].disp # None /\ prog.uops[u].div > 0 =>
          uop'[u].disp + prog.uops[u].div <= clock' + blocked'.div + Ahead'
    <3> SUFFICES ASSUME NEW u \in Uops, uop'[u].disp # None, prog.uops[u].div > 0
                 PROVE  uop'[u].disp + prog.uops[u].div <= clock' + blocked'.div + Ahead'
      OBVIOUS
    <3>1. uop[u].disp + prog.uops[u].div <= clock + blocked.div + Ahead
      BY <2>1 DEF UnitInv, DivInv
    <3>2. uop[u].disp + prog.uops[u].div \in Int
      BY <1>1
    <3> QED
      BY <2>1, <2>2, <3>1, <3>2
  <2>4. DividerExclusive'
    BY <1>1, <2>1 DEF UnitInv, DivInv, DividerExclusive
  <2> QED
    BY <1>1, <2>3, <2>4 DEF DivInv
<1> QED
  BY <1>2, <1>3

LEMMA RestStep ==
  ASSUME TypeOK, TypeOK', OrderInv, PlaceInv, UnitInv, DividerOnPort0, [Next]_vars
  PROVE  RestInv'
<1>1. /\ prog' = prog /\ clock \in Nat /\ clock # None /\ Ahead \in Int
      /\ \A p \in Ports : blocked.port[p] \in Nat
      /\ \A u \in Uops : uop[u].disp \in Int
  BY StorageWriters, BlockedTyped, StampsTyped
<1>2. \A u \in Uops : uop[u].port = 4 => 4 \in Ports
  BY StampsTyped DEF None
<1>3. CASE DispatchUop
  <2> DEFINE p == Head(work)
  <2>1. clock' = clock /\ Ahead = 0 /\ Ahead' = 0 /\ p \in Ports /\ blocked.port[p] = 0
    BY <1>3, DispatchEffect, DispatchUnit DEF Ahead
  <2>2. PICK u \in Uops : /\ uop[u].disp = None /\ uop'[u].disp = clock /\ uop'[u].port = p
                          /\ \A v \in Uops \ {u} : uop'[v] = uop[v]
                          /\ blocked'.port = IF Slow256BitMemAcc /\ p = 4 /\ prog.uops[u].m256
                                             THEN [blocked.port EXCEPT ![4] = 2] ELSE blocked.port
    BY <1>3, DispatchUnit
  <2> HIDE DEF p
  <2>3. ASSUME NEW v \in Uops, v # u, Rests(v)'
        PROVE  uop'[v] = uop[v] /\ Rests(v) /\ uop[v].disp + 2 <= clock + blocked.port[4]
    <3>1. uop'[v] = uop[v] /\ Rests(v)
      BY <1>1, <2>2, <2>3 DEF Rests
    <3>2. uop[v].disp + 2 <= clock + blocked.port[4] + Ahead
      BY <3>1 DEF UnitInv, RestInv
    <3>3. blocked.port[4] \in Nat
      BY <1>1, <1>2, <3>1 DEF Rests
    <3> QED
      BY <1>1, <2>1, <3>1, <3>2, <3>3
  <2>4. 4 \in Ports => /\ blocked.port[4] <= blocked'.port[4]
                       /\ (blocked'.port[4]) \in Nat
                       /\ Slow256BitMemAcc /\ p = 4 /\ prog.uops[u].m256 => blocked'.port[4] = 2
    BY <1>1, <2>1, <2>2, BlockedTyped
  <2>5. ASSUME NEW v \in Uops, Rests(v)'
        PROVE  uop'[v].disp + 2 <= clock + blocked'.port[4] + Ahead'
    <3>1. CASE v = u
      <4>1. p = 4 /\ Slow256BitMemAcc /\ prog.uops[u].m256
        BY <1>1, <2>2, <2>5, <3>1 DEF Rests
      <4> QED
        BY <1>1, <2>1, <2>2, <2>4, <3>1, <4>1
    <3>2. CASE v # u
      <4>1. uop'[v] = uop[v] /\ uop[v].disp + 2 <= clock + blocked.port[4] /\ 4 \in Ports
        BY <1>2, <2>3, <2>5, <3>2 DEF Rests
      <4> QED
        BY <1>1, <2>1, <2>4, <4>1
    <3> QED
      BY <3>1, <3>2
  <2>6. ASSUME NEW x \in Uops, NEW y \in Uops, Rests(x)', uop'[y].port = 4,
               uop'[x].disp < uop'[y].disp
        PROVE  uop'[y].disp > uop'[x].disp + 1
    <3>1. CASE x = u
      <4>1. y # u /\ uop'[y] = uop[y]
        BY <1>1, <2>2, <2>6, <3>1
      <4>2. uop[y].disp <= clock
        BY <1>3, DispatchEffect DEF PlaceInv, RsInv
      <4> QED
        BY <1>1, <2>2, <2>6, <3>1, <4>1, <4>2
    <3>2. CASE x # u /\ y = u
      <4>1. p = 4
        BY <2>2, <2>6, <3>2
      <4>2. uop'[x] = uop[x] /\ uop[x].disp + 2 <= clock + 0
        BY <2>1, <2>3, <2>6, <3>2, <4>1
      <4> QED
        BY <1>1, <2>2, <3>2, <4>2
    <3>3. CASE x # u /\ y # u
      <4>1. uop'[x] = uop[x] /\ Rests(x) /\ uop'[y] = uop[y]
        BY <2>2, <2>3, <2>6, <3>3
      <4> QED
        BY <2>6, <4>1 DEF UnitInv, RestInv
    <3> QED
      BY <3>1, <3>2, <3>3
  <2> QED
    BY <2>1, <2>5, <2>6 DEF RestInv
<1>4. CASE ~DispatchUop
  <2>1. /\ \A u \in Uops : /\ uop'[u].disp = uop[u].disp
                           /\ uop'[u].disp # None => uop'[u].port = uop[u].port
        /\ \A p \in Ports :
             clock + blocked.port[p] + Ahead <= clock' + blocked'.port[p] + Ahead'
    BY <1>4, UnitFrame
  <2>2. \A p \in Ports : /\ clock + blocked.port[p] + Ahead \in Int
                         /\ clock' + blocked'.port[p] + Ahead' \in Int
    <3>1. blocked' \in [div : Nat, port : [Ports -> Nat], instr : [InstrStrs -> Nat]]
      BY DEF TypeOK, SchedulerTypeOK
    <3>2. \A p \in Ports : (blocked'.port[p]) \in Nat
      BY <3>1
    <3>3. clock' \in Nat /\ Ahead' \in Int
      BY DEF TypeOK, StorageTypeOK, Ahead
    <3> QED
      BY <1>1, <3>2, <3>3
  <2>3. \A u \in Uops : Rests(u)' => Rests(u)
    BY <1>1, <2>1 DEF Rests
  <2>4. ASSUME NEW u \in Uops, Rests(u)'
        PROVE  uop'[u].disp + 2 <= clock' + blocked'.port[4] + Ahead'
    <3>1. uop[u].disp + 2 <= clock + blocked.port[4] + Ahead /\ 4 \in Ports
      BY <1>2, <2>3, <2>4 DEF UnitInv, RestInv, Rests
    <3>2. uop[u].disp + 2 \in Int
      BY <1>1
    <3> QED
      BY <2>1, <2>2, <3>1, <3>2
  <2>5. ASSUME NEW x \in Uops, NEW y \in Uops, Rests(x)', uop'[y].port = 4,
               uop'[x].disp < uop'[y].disp
        PROVE  uop'[y].disp > uop'[x].disp + 1
    <3>1. uop'[y].disp # None
      <4>1. uop[x].disp \in OptNat /\ uop[x].disp # None
        BY <2>3, <2>5, StampsTyped DEF Rests, TypeOK, StorageTypeOK
      <4> QED
        BY <2>1, <2>5, <4>1 DEF OptNat, None
    <3> QED
      BY <2>1, <2>3, <2>5, <3>1 DEF UnitInv, RestInv
  <2> QED
    BY <2>4, <2>5 DEF RestInv
<1> QED
  BY <1>3, <1>4

(* The head of a queue is the only one with the smallest queue index.      *)
LEMMA OldestUnique ==
  ASSUME stream \in DOMAIN Streams, NEW S \in SUBSET Uops, NEW u \in S,
         \A v \in S : prog.uops[u].queueIdx <= prog.uops[v].queueIdx
  PROVE  u = Oldest(S)
<1>1. /\ Oldest(S) \in S /\ prog.uops[Oldest(S)].queueIdx <= prog.uops[u].queueIdx
      /\ prog.uops[u].queueIdx <= prog.uops[Oldest(S)].queueIdx
  BY OldestProperties
<1>2. \A v \in Uops : prog.uops[v].queueIdx \in Nat
  BY UopTyped
<1> DEFINE o == Oldest(S)
<1> HIDE DEF o
<1>3. prog.uops[u].queueIdx = prog.uops[o].queueIdx /\ o \in Uops
  BY <1>1, <1>2 DEF o
<1>4. WellFormed(prog)
  BY ProgramsAssumption DEF Streams, prog
<1>5. \A x, y \in Uops : x # y => prog.uops[x].queueIdx # prog.uops[y].queueIdx
  BY <1>4 DEF WellFormed
<1> QED
  BY <1>3, <1>5 DEF o

(* dispatch_uops is a loop over the ports.                                 *)
LEMMA DispatchLoop ==
  ASSUME [Next]_vars, phase' = "dispatch"
  PROVE  BeginDispatch \/ DispatchUop \/ IdlePort \/ UNCHANGED vars
<1>1. CASE Quiet
  BY <1>1 DEF Quiet, IssueLam, IssueMerges, EndIssue, Deliver, Stall, NoFill, Stop, Done, loopVars
<1>2. CASE Tick
  BY <1>2 DEF Tick
<1>3. CASE CycleReorderBuffer
  BY <1>3 DEF CycleReorderBuffer, BeginMoveReady, EnterLoop
<1>4. CASE SchedulerNext
  BY <1>4
     DEF SchedulerNext, MoveReadyUop, EndMoveReady, VisitFused, SkipUop, AddNewUop,
         EndDispatch, FinishPendingUop, KeepPendingUop, EndPending, WakeDependent, BeginNonReady,
         MakeReady, StayNonReady, EndNonReady, EndSchedulerCycle, EnterLoop
<1> QED
  BY <1>1, <1>2, <1>3, <1>4, Steps

(* A port that has had its turn has dispatched what it would have, if      *)
(* anything; the turn of another port changes nothing.                     *)
LEMMA ChosenKept ==
  ASSUME TypeOK, OrderInv, PlaceInv, UnitInv, DividerOnPort0, [Next]_vars,
         DispatchUop \/ IdlePort, NEW r \in Nat \ {0}
  PROVE  Chosen(r)' \subseteq Chosen(r)
<1>1. /\ prog' = prog /\ stream \in DOMAIN Streams /\ clock # None
      /\ readyQueue \in [Queues -> SUBSET Uops]
  BY StorageWriters, StampsTyped, ReadyTyped
<1> DEFINE p == Head(work)
<1>2. /\ PortWork = work /\ PortWork' = Tail(work) /\ work # <<>> /\ work \in Seq(Ports)
      /\ clock' = clock /\ held' = held
  <2>1. CASE DispatchUop
    BY <2>1, DispatchUnit, DispatchEffect
  <2>2. CASE IdlePort
    <3>1. phase = "dispatch"
      BY <2>2 DEF IdlePort
    <3> QED
      BY <2>2, <3>1, StampsTyped DEF IdlePort, Advance, PortWork, WorkIn, storageVars
  <2> QED
    BY <2>1, <2>2
<1>3. /\ \A v : Contains(work, v) <=> v = p \/ Contains(Tail(work), v)
      /\ \A v \in Uops : uop[v].disp = clock => uop[v].port # p
  <2>1. \A v : Contains(work, v) <=> v = p \/ Contains(Tail(work), v)
    BY <1>2, TailContains
  <2> QED
    BY <1>2, <2>1 DEF UnitInv, PortsInv
<1>4. ~Contains(Tail(work), p)
  <2>1. /\ \A i \in DOMAIN Tail(work) : i + 1 \in DOMAIN work /\ Tail(work)[i] = work[i + 1]
        /\ DOMAIN Tail(work) = 1..(Len(work) - 1)
        /\ 1 \in DOMAIN work /\ work[1] = p /\ Len(work) \in Nat
    BY <1>2, TailContains, HeadContained
  <2> HIDE DEF p
  <2> SUFFICES ASSUME NEW i \in DOMAIN Tail(work), Tail(work)[i] = p
               PROVE  FALSE
    BY DEF Contains
  <2>2. i + 1 = 1
    BY <1>2, <2>1 DEF UnitInv, PortsInv
  <2> QED
    BY <2>1, <2>2
<1>5. Contains(work, r) => r \in Ports
  <2>1. \A i \in DOMAIN work : work[i] \in Ports
    BY <1>2, LenProperties, ElementOfSeq
  <2> QED
    BY <2>1 DEF Contains
<1> SUFFICES ASSUME NEW w \in Uops, w \in Chosen(r)'
             PROVE  w \in Chosen(r)
  BY DEF Chosen
<1>6. CASE IdlePort
  <2>1. uop' = uop /\ readyQueue' = readyQueue
    BY <1>6 DEF IdlePort, storageVars, schedulerVars, queueVars
  <2>2. CASE r = p
    <3>1. uop[w].disp = clock /\ uop[w].port = p
      BY <1>2, <1>4, <2>1, <2>2 DEF Chosen
    <3> QED
      BY <1>3, <3>1
  <2>3. CASE r # p
    BY <1>1, <1>2, <1>3, <2>1, <2>3 DEF Chosen
  <2> QED
    BY <2>2, <2>3
<1>7. CASE DispatchUop
  <2>1. p \in Ports /\ p \notin held
    BY <1>7, DispatchUnit
  <2>2. PICK u \in Uops : /\ uop[u].disp = None /\ uop[u].port = p
                          /\ uop'[u].disp = clock /\ uop'[u].port = p
                          /\ \A v \in Uops \ {u} : uop'[v] = uop[v]
                          /\ p # 0 => readyQueue[p] # {} /\ u = Oldest(readyQueue[p])
                          /\ \A x \in Ports \ {0, p} : readyQueue'[x] = readyQueue[x]
    BY <1>7, DispatchUnit
  <2>3. CASE r = p
    <3>1. uop'[w].disp = clock /\ uop'[w].port = p
      BY <1>2, <1>4, <2>3 DEF Chosen
    <3>2. w = u
      BY <1>3, <2>2, <3>1
    <3>3. p \in Queues /\ readyQueue[p] \in SUBSET Uops
      BY <1>1, <2>1, ConstantsTyped
    <3>4. w \in readyQueue[p] /\ \A v \in readyQueue[p] : prog.uops[w].queueIdx <= prog.uops[v].queueIdx
      BY <1>1, <2>2, <2>3, <3>2, <3>3, OldestProperties
    <3> QED
      BY <1>2, <1>3, <2>1, <2>3, <3>4 DEF Chosen
  <2>4. CASE r # p
    <3>1. CASE Contains(work, r)
      <4>1. Contains(Tail(work), r) /\ readyQueue'[r] = readyQueue[r]
        BY <1>3, <1>5, <2>2, <2>4, <3>1
      <4> QED
        BY <1>1, <1>2, <3>1, <4>1 DEF Chosen
    <3>2. CASE ~Contains(work, r)
      <4>1. uop'[w].disp = clock /\ uop'[w].port = r
        BY <1>2, <1>3, <3>2 DEF Chosen
      <4>2. w # u
        BY <2>2, <2>4, <4>1
      <4> QED
        BY <1>2, <2>2, <3>2, <4>1, <4>2 DEF Chosen
    <3> QED
      BY <3>1, <3>2
  <2> QED
    BY <2>3, <2>4
<1> QED
  BY <1>6, <1>7

(* dispatch_uops holds the younger head of two that must not go together.  *)
LEMMA HeadsHeld ==
  ASSUME {4, 9} \subseteq Ports \/ {2, 3} \subseteq Ports
  PROVE  /\ /\ {4, 9} \subseteq Ports /\ readyQueue[4] # {} /\ readyQueue[9] # {}
            /\ Apart(Oldest(readyQueue[4]), Oldest(readyQueue[9]))
            => 4 \in HeldPorts \/ 9 \in HeldPorts
         /\ /\ {2, 3} \subseteq Ports /\ readyQueue[2] # {} /\ readyQueue[3] # {}
            /\ Wide(Oldest(readyQueue[2])) /\ Wide(Oldest(readyQueue[3]))
            => 2 \in HeldPorts \/ 3 \in HeldPorts
<1>1. ASSUME {4, 9} \subseteq Ports, readyQueue[4] # {}, readyQueue[9] # {},
             Apart(Oldest(readyQueue[4]), Oldest(readyQueue[9]))
      PROVE  4 \in HeldPorts \/ 9 \in HeldPorts
  BY <1>1 DEF HeldPorts, Apart, Keyed, Line
<1>2. ASSUME {2, 3} \subseteq Ports, readyQueue[2] # {}, readyQueue[3] # {},
             Wide(Oldest(readyQueue[2])), Wide(Oldest(readyQueue[3]))
      PROVE  2 \in HeldPorts \/ 3 \in HeldPorts
  BY <1>2 DEF HeldPorts, Wide
<1> QED
  BY <1>1, <1>2

LEMMA PairBegin ==
  ASSUME TypeOK, PlaceInv, [Next]_vars, BeginDispatch, NEW r \in Nat, NEW w \in Chosen(r)'
  PROVE  /\ r \in Ports /\ r \notin HeldPorts /\ readyQueue[r] # {}
         /\ w = Oldest(readyQueue[r])
<1>1. /\ phase = "add" /\ phase' = "dispatch" /\ PortWork' = AllPorts /\ clock' = clock
      /\ held' = HeldPorts /\ readyQueue' = readyQueue /\ uop' = uop /\ prog' = prog
  BY StorageWriters
     DEF BeginDispatch, EnterLoop, PortWork, WorkIn, storageVars, schedulerVars, queueVars
<1>2. \A u \in Uops : uop[u].disp # clock
  BY <1>1, StampsTyped DEF PlaceInv, RsInv, Early
<1>3. Contains(AllPorts, r)
  BY <1>1, <1>2 DEF Chosen
<1>4. r \in Ports
  BY <1>3 DEF Contains, Ports
<1>5. /\ r \notin HeldPorts /\ w \in readyQueue[r]
      /\ \A v \in readyQueue[r] : prog.uops[w].queueIdx <= prog.uops[v].queueIdx
  BY <1>1, <1>3 DEF Chosen
<1>6. readyQueue[r] \in SUBSET Uops
  BY <1>4, ReadyTyped, ConstantsTyped
<1> QED
  BY <1>4, <1>5, <1>6, StampsTyped, OldestUnique

LEMMA PairStep ==
  ASSUME TypeOK, TypeOK', OrderInv, PlaceInv, UnitInv, PortsInv', DividerOnPort0, [Next]_vars
  PROVE  PairInv'
<1>1. prog' = prog /\ clock # None /\ \A u \in Uops : uop[u].disp \in Int
  BY StorageWriters, StampsTyped
<1>2. /\ \A u, v : Apart(u, v)' <=> Apart(u, v)
      /\ \A u : Wide(u)' <=> Wide(u)
  BY <1>1 DEF Apart, Wide, Keyed, Line
<1>3. ASSUME phase' = "dispatch"
      PROVE  /\ \A u \in Chosen(4)', v \in Chosen(9)' : ~Apart(u, v)
             /\ \A u \in Chosen(2)', v \in Chosen(3)' : ~(Wide(u) /\ Wide(v))
  <2>1. CASE BeginDispatch
    <3>1. ASSUME NEW u \in Chosen(4)', NEW v \in Chosen(9)', Apart(u, v)
          PROVE  FALSE
      BY <2>1, <3>1, PairBegin, HeadsHeld
    <3>2. ASSUME NEW u \in Chosen(2)', NEW v \in Chosen(3)', Wide(u), Wide(v)
          PROVE  FALSE
      BY <2>1, <3>2, PairBegin, HeadsHeld
    <3> QED
      BY <3>1, <3>2
  <2>2. CASE DispatchUop \/ IdlePort
    <3>1. phase = "dispatch"
      BY <2>2 DEF DispatchUop, IdlePort
    <3>2. \A r \in Nat \ {0} : Chosen(r)' \subseteq Chosen(r)
      BY <2>2, ChosenKept
    <3>3. /\ Chosen(4)' \subseteq Chosen(4) /\ Chosen(9)' \subseteq Chosen(9)
          /\ Chosen(2)' \subseteq Chosen(2) /\ Chosen(3)' \subseteq Chosen(3)
      BY <3>2
    <3> QED
      BY <3>1, <3>3 DEF UnitInv, PairInv
  <2>3. CASE UNCHANGED vars
    <3>1. phase = "dispatch"
      BY <1>3, <2>3 DEF vars, loopVars
    <3>2. \A r : Chosen(r)' = Chosen(r)
      BY <1>1, <2>3
         DEF vars, storageVars, loopVars, schedulerVars, queueVars, Chosen, PortWork, WorkIn
    <3> QED
      BY <3>1, <3>2 DEF UnitInv, PairInv
  <2> QED
    BY <1>3, <2>1, <2>2, <2>3, DispatchLoop
<1>4. ASSUME NEW x \in Uops, NEW y \in Uops, uop'[x].disp # None, uop'[x].disp = uop'[y].disp
      PROVE  /\ uop'[x].port = 4 /\ uop'[y].port = 9 => ~Apart(x, y)
             /\ uop'[x].port = 2 /\ uop'[y].port = 3 => ~(Wide(x) /\ Wide(y))
  <2>1. CASE DispatchUop
    <3>1. phase' = "dispatch" /\ clock' = clock
      BY <2>1, DispatchEffect
    <3>2. PICK u \in Uops : uop'[u].disp = clock /\ \A v \in Uops \ {u} : uop'[v] = uop[v]
      BY <2>1, DispatchUnit
    <3>3. CASE x = u \/ y = u
      <4>1. uop'[x].disp = clock /\ uop'[y].disp = clock
        BY <1>4, <3>2, <3>3
      <4>2. \A r : /\ uop'[x].port = r => x \in Chosen(r)'
                   /\ uop'[y].port = r => y \in Chosen(r)'
        BY <3>1, <4>1 DEF PortsInv, Chosen
      <4> QED
        BY <1>3, <3>1, <4>2
    <3>4. CASE x # u /\ y # u
      BY <1>4, <3>2, <3>4 DEF UnitInv, PairInv
    <3> QED
      BY <3>3, <3>4
  <2>2. CASE ~DispatchUop
    <3>1. \A u \in Uops : /\ uop'[u].disp = uop[u].disp
                          /\ uop'[u].disp # None => uop'[u].port = uop[u].port
      BY <2>2, UnitFrame
    <3> QED
      BY <1>4, <3>1 DEF UnitInv, PairInv
  <2> QED
    BY <2>1, <2>2
<1> QED
  BY <1>2, <1>3, <1>4 DEF PairInv

(* The stamps of the dispatched uops and the state of the units agree.     *)
THEOREM UnitsCorrect ==
  ASSUME DividerOnPort0
  PROVE  Spec => []UnitInv
<1>1. Init => UnitInv
  <2> SUFFICES ASSUME Init PROVE UnitInv
    OBVIOUS
  <2>1. /\ \A u \in Uops : uop[u].disp = None
        /\ PortWork = <<>> /\ phase = "issue" /\ clock = 0 /\ clock # None
    BY DEF Init, StorageInit, SchedulerInit, PortWork, WorkIn, None
  <2>2. DOMAIN <<>> = {}
    BY EmptySeq, LenProperties
  <2>3. PortsInv
    BY <2>1, <2>2 DEF PortsInv, OneUopPerPort
  <2>4. DivInv /\ RestInv /\ PairInv
    <3>1. DivInv /\ PairInv
      BY <2>1 DEF DivInv, DividerExclusive, PairInv
    <3>2. RestInv
      BY <2>1 DEF RestInv, Rests
    <3> QED
      BY <3>1, <3>2
  <2> QED
    BY <2>3, <2>4 DEF UnitInv
<1>2. /\ TypeOK /\ TypeOK' /\ OrderInv /\ PlaceInv /\ UnitInv /\ [Next]_vars
      => UnitInv'
  BY PortsStep, DivStep, RestStep, PairStep DEF UnitInv
<1> QED
  BY <1>1, <1>2, TypeCorrect, OrderCorrect, PlaceCorrect, PTL DEF Spec

(* No port is given two uops in a cycle and the divider none while it is   *)
(* occupied, though port 0 takes uops from two queues: every port has one  *)
(* turn in a cycle, and the divider is blocked for as long as it works.    *)
THEOREM Units ==
  ASSUME DividerOnPort0
  PROVE  Spec => []UnitsExclusive
<1>1. UnitInv => UnitsExclusive
  BY DEF UnitInv, PortsInv, DivInv, UnitsExclusive
<1> QED
  BY <1>1, UnitsCorrect, PTL

(* Stores dispatched together write one cache line, slow 256-bit loads are *)
(* not dispatched together, and port 4 rests after a slow 256-bit store:   *)
(* the ports are held by the heads their queues have when dispatch_uops    *)
(* begins, and these are still the heads when the ports have their turn.   *)
THEOREM Paired ==
  ASSUME DividerOnPort0, LoadsOnTwoPorts
  PROVE  Spec => []PairedAccesses
<1>1. TypeOK /\ PlaceInv /\ UnitInv => PairedAccesses
  <2> SUFFICES ASSUME TypeOK, PlaceInv, UnitInv, NEW u \in Uops, NEW v \in Uops,
                      u # v, uop[u].disp # None, uop[v].disp # None
               PROVE  LET a == prog.uops[u]
                          b == prog.uops[v]
                          together == uop[u].disp = uop[v].disp
                          keyed(x) == x.entry # None /\ prog.uops[x.entry].disp # None
                      IN  /\ /\ together /\ uop[u].port = 4 /\ uop[v].port = 9
                             /\ a.kind = "std" /\ b.kind = "std" /\ keyed(a) /\ keyed(b)
                             => prog.uops[a.entry].disp - prog.uops[b.entry].disp \in -63..63
                          /\ Slow256BitMemAcc =>
                               /\ together /\ a.kind = "load" /\ b.kind = "load"
                                    => ~(a.m256 /\ b.m256)
                               /\ /\ uop[u].port = 4 /\ uop[v].port = 4 /\ a.m256
                                  /\ uop[u].disp < uop[v].disp
                                  => uop[v].disp > uop[u].disp + 1
    BY DEF PairedAccesses
  <2>1. stream \in DOMAIN Programs /\ prog = Programs[stream] /\ stream \in DOMAIN Streams
    BY StampsTyped DEF prog, Streams
  <2>2. ASSUME uop[u].disp = uop[v].disp, uop[u].port = 4, uop[v].port = 9, Keyed(u), Keyed(v)
        PROVE  Line(u) - Line(v) \in -63..63
    <3>1. ~Apart(u, v)
      BY <2>2 DEF UnitInv, PairInv
    <3>2. Line(u) \in Nat /\ Line(v) \in Nat
      <4>1. \A x \in Uops : prog.uops[x].disp \in OptNat /\ prog.uops[x].entry \in Uops \cup {None}
        BY <2>1, UopTyped
      <4> QED
        BY <2>2, <4>1 DEF Keyed, Line, OptNat
    <3> QED
      BY <2>2, <3>1, <3>2 DEF Apart
  <2>3. ASSUME Slow256BitMemAcc, uop[u].disp = uop[v].disp,
               prog.uops[u].kind = "load", prog.uops[v].kind = "load"
        PROVE  ~(prog.uops[u].m256 /\ prog.uops[v].m256)
    <3>1. \A x \in Uops : uop[x].disp # None => uop[x].port \in prog.uops[x].ports
      BY DEF PlaceInv, StageInv
    <3>2. \A x \in Uops : prog.uops[x].kind = "load" => prog.uops[x].ports \subseteq {2, 3}
      BY <2>1, <2>3 DEF LoadsOnTwoPorts
    <3>3. uop[u].port \in {2, 3} /\ uop[v].port \in {2, 3}
      BY <2>3, <3>1, <3>2
    <3>4. uop[u].port # uop[v].port
      BY <2>3 DEF UnitInv, PortsInv, OneUopPerPort
    <3>5. ~(Wide(u) /\ Wide(v))
      BY <2>3, <3>3, <3>4 DEF UnitInv, PairInv
    <3> QED
      BY <2>3, <3>5 DEF Wide
  <2>4. ASSUME Slow256BitMemAcc, uop[u].port = 4, uop[v].port = 4, prog.uops[u].m256,
               uop[u].disp < uop[v].disp
        PROVE  uop[v].disp > uop[u].disp + 1
    BY <2>4 DEF UnitInv, RestInv, Rests
  <2> QED
    BY <2>2, <2>3, <2>4 DEF Keyed, Line
<1> QED
  BY <1>1, TypeCorrect, PlaceCorrect, UnitsCorrect, PTL
=============================================================================
