----------------------------- MODULE PlaceProofs -----------------------------
(***************************************************************************)
(* The scheduler loses no uop and keeps none twice.                        *)
(*                                                                         *)
(* The argument: the cycle stamps of a uop say which stage it is in, and   *)
(* for every stage there is one family of lists that holds the uops of     *)
(* that stage, each at one place. The list a loop has taken into  work     *)
(* belongs to the family it came from.                                     *)
(***************************************************************************)
EXTENDS OrderProofs

(* What the loops still have to visit, by loop.                            *)
WorkIn(phases) == IF phase \in phases THEN work ELSE <<>>

ReadyWork == WorkIn({"ready"})
AddWork   == WorkIn({"add"})
PendWork  == WorkIn({"pending"})
WaitWork  == WorkIn({"wake", "nonReady"})
PortWork  == WorkIn({"dispatch"})
Waking    == IF phase = "pending" THEN wake ELSE <<>>

-----------------------------------------------------------------------------
(* Families of lists.                                                      *)

(* No element is at two places.                                            *)
Separate(L) ==
  \A s, t \in DOMAIN L : \A i \in DOMAIN L[s], j \in DOMAIN L[t] :
    L[s][i] = L[t][j] => s = t /\ i = j

Holds(L, u) == \E s \in DOMAIN L : Contains(L[s], u)

(* An element is added to one of the lists.                                *)
Listed(L) == \A s \in DOMAIN L : L[s] \in Seq(Uops)

Pushed(L, M, s, u) ==
  /\ DOMAIN M = DOMAIN L /\ s \in DOMAIN L /\ u \in Uops
  /\ \A t \in DOMAIN L : M[t] = IF t = s THEN Append(L[t], u) ELSE L[t]

LEMMA PushedLists ==
  ASSUME NEW L, NEW M, NEW s, NEW u, Listed(L), Pushed(L, M, s, u)
  PROVE  /\ \A v : Holds(M, v) <=> Holds(L, v) \/ v = u
         /\ Separate(L) /\ ~Holds(L, u) => Separate(M)
<1> DEFINE S == DOMAIN L
<1> DEFINE U == Uops
<1>0. /\ DOMAIN M = S /\ s \in S /\ u \in U /\ \A t \in S : L[t] \in Seq(U)
      /\ \A t \in S : M[t] = IF t = s THEN Append(L[t], u) ELSE L[t]
  BY DEF Listed, Pushed
<1> DEFINE n == Len(L[s])
<1> HIDE DEF U
<1> USE <1>0
<1>1. n \in Nat /\ L[s] \in Seq(U) /\ DOMAIN L[s] = 1..n /\ DOMAIN L = S
  BY LenProperties
<1>2. /\ Append(L[s], u) \in Seq(U) /\ Len(Append(L[s], u)) = n + 1
      /\ \A i \in 1..n : Append(L[s], u)[i] = L[s][i]
      /\ Append(L[s], u)[n + 1] = u
  BY AppendProperties
<1>3. /\ DOMAIN M[s] = 1..(n + 1) /\ \A i \in 1..n : M[s][i] = L[s][i]
      /\ M[s][n + 1] = u
  BY <1>2, LenProperties
<1>4. \A t \in S : t # s => M[t] = L[t]
  OBVIOUS
<1> HIDE DEF n
<1>5. \A v : Holds(M, v) <=> Holds(L, v) \/ v = u
  <2> TAKE v
  <2>1. Holds(M, v) => Holds(L, v) \/ v = u
    <3> SUFFICES ASSUME NEW t \in S, NEW i \in DOMAIN M[t], M[t][i] = v
                 PROVE  Holds(L, v) \/ v = u
      BY DEF Holds, Contains
    <3>1. CASE t # s
      BY <1>1, <1>4, <3>1 DEF Holds, Contains
    <3>2. CASE t = s
      <4>1. i \in 1..n \/ i = n + 1
        BY <1>1, <1>3, <3>2
      <4> QED
        BY <1>1, <1>3, <3>2, <4>1 DEF Holds, Contains
    <3> QED
      BY <3>1, <3>2
  <2>2. Holds(L, v) => Holds(M, v)
    <3> SUFFICES ASSUME NEW t \in S, NEW i \in DOMAIN L[t], L[t][i] = v
                 PROVE  Holds(M, v)
      BY <1>1 DEF Holds, Contains
    <3>1. i \in DOMAIN M[t] /\ M[t][i] = v
      BY <1>1, <1>3, <1>4
    <3> QED
      BY <3>1 DEF Holds, Contains
  <2>3. v = u => Holds(M, v)
    <3>1. n + 1 \in DOMAIN M[s]
      BY <1>1, <1>3
    <3> QED
      BY <1>3, <3>1 DEF Holds, Contains
  <2> QED
    BY <2>1, <2>2, <2>3
<1>6. ASSUME Separate(L), ~Holds(L, u)
      PROVE  Separate(M)
  <2> SUFFICES ASSUME NEW t \in S, NEW r \in S, NEW i \in DOMAIN M[t], NEW j \in DOMAIN M[r],
                      M[t][i] = M[r][j]
               PROVE  t = r /\ i = j
    BY DEF Separate
  <2>1. \A q \in S : \A k \in DOMAIN L[q] : L[q][k] # u
    BY <1>1, <1>6 DEF Holds, Contains
  <2>2. \A q \in S : \A k \in DOMAIN M[q] :
          \/ k \in DOMAIN L[q] /\ M[q][k] = L[q][k] /\ M[q][k] # u
          \/ q = s /\ k = n + 1 /\ M[q][k] = u
    BY <1>1, <1>3, <1>4, <2>1
  <2>3. CASE M[t][i] = u
    BY <2>2, <2>3
  <2>4. CASE M[t][i] # u
    <3>1. /\ i \in DOMAIN L[t] /\ M[t][i] = L[t][i]
          /\ j \in DOMAIN L[r] /\ M[r][j] = L[r][j]
      BY <2>2, <2>4
    <3>2. L[t][i] = L[r][j] /\ DOMAIN L = S
      BY <1>1, <3>1
    <3> QED
      BY <1>6, <3>1, <3>2 DEF Separate
  <2> QED
    BY <2>3, <2>4
<1> QED
  BY <1>5, <1>6

(* The head of one of the lists is taken out.                              *)
Popped(L, M, s) ==
  /\ DOMAIN M = DOMAIN L /\ s \in DOMAIN L /\ L[s] # <<>>
  /\ \A t \in DOMAIN L : M[t] = IF t = s THEN Tail(L[t]) ELSE L[t]

LEMMA PoppedLists ==
  ASSUME NEW L, NEW M, NEW s, Listed(L), Popped(L, M, s), Separate(L)
  PROVE  /\ \A v : Holds(M, v) <=> Holds(L, v) /\ v # Head(L[s])
         /\ Separate(M) /\ Holds(L, Head(L[s]))
<1> DEFINE S == DOMAIN L
<1> DEFINE U == Uops
<1>0. /\ DOMAIN M = S /\ s \in S /\ L[s] # <<>> /\ \A t \in S : L[t] \in Seq(U)
      /\ \A t \in S : M[t] = IF t = s THEN Tail(L[t]) ELSE L[t]
  BY DEF Listed, Popped
<1> DEFINE n == Len(L[s])
<1> HIDE DEF U
<1> USE <1>0
<1> DEFINE u == Head(L[s])
<1>1. n \in Nat /\ n > 0 /\ L[s] \in Seq(U) /\ DOMAIN L[s] = 1..n /\ DOMAIN L = S
      /\ u = L[s][1]
  BY LenProperties, EmptySeq
<1>2. /\ Tail(L[s]) \in Seq(U) /\ Len(Tail(L[s])) = n - 1
      /\ \A i \in 1..(n - 1) : Tail(L[s])[i] = L[s][i + 1]
  BY HeadTailProperties
<1>3. DOMAIN M[s] = 1..(n - 1) /\ \A i \in 1..(n - 1) : M[s][i] = L[s][i + 1]
  BY <1>2, LenProperties
<1>4. \A t \in S : t # s => M[t] = L[t]
  OBVIOUS
<1> HIDE DEF n, u
<1>5. \A t \in S : \A i \in DOMAIN L[t] : L[t][i] = u => t = s /\ i = 1
  BY <1>1 DEF Separate
<1>6. \A t \in S : \A i \in DOMAIN M[t] :
        LET k == IF t = s THEN i + 1 ELSE i
        IN  k \in DOMAIN L[t] /\ M[t][i] = L[t][k] /\ M[t][i] # u
  <2> TAKE t \in S
  <2>1. CASE t # s
    BY <1>4, <1>5, <2>1
  <2>2. CASE t = s
    <3> TAKE i \in DOMAIN M[t]
    <3>1. i \in 1..(n - 1) /\ i + 1 \in 1..n /\ i + 1 # 1
      BY <1>1, <1>3, <2>2
    <3> QED
      BY <1>1, <1>3, <1>5, <2>2, <3>1
  <2> QED
    BY <2>1, <2>2
<1>7. \A v : Holds(M, v) <=> Holds(L, v) /\ v # u
  <2> TAKE v
  <2>1. Holds(M, v) => Holds(L, v) /\ v # u
    BY <1>1, <1>6 DEF Holds, Contains
  <2>2. ASSUME NEW t \in S, NEW i \in DOMAIN L[t], L[t][i] = v, v # u
        PROVE  Holds(M, v)
    <3>1. CASE t # s
      BY <1>4, <2>2, <3>1 DEF Holds, Contains
    <3>2. CASE t = s
      <4>1. i \in 1..n /\ i # 1
        BY <1>1, <2>2, <3>2
      <4>2. i - 1 \in 1..(n - 1) /\ (i - 1) + 1 = i
        BY <1>1, <4>1
      <4>3. M[s][i - 1] = v
        BY <1>3, <2>2, <3>2, <4>2
      <4> QED
        BY <1>3, <4>2, <4>3 DEF Holds, Contains
    <3> QED
      BY <3>1, <3>2
  <2> QED
    BY <1>1, <2>1, <2>2 DEF Holds, Contains
<1>8. Separate(M)
  <2> SUFFICES ASSUME NEW t \in S, NEW r \in S, NEW i \in DOMAIN M[t], NEW j \in DOMAIN M[r],
                      M[t][i] = M[r][j]
               PROVE  t = r /\ i = j
    BY DEF Separate
  <2> DEFINE k(q, x) == IF q = s THEN x + 1 ELSE x
  <2>1. /\ k(t, i) \in DOMAIN L[t] /\ L[t][k(t, i)] = L[r][k(r, j)]
        /\ k(r, j) \in DOMAIN L[r]
    BY <1>6
  <2>2. t = r /\ k(t, i) = k(r, j)
    <3> HIDE DEF k
    <3> QED
      BY <1>1, <2>1 DEF Separate
  <2>3. t = s => i \in Nat /\ j \in Nat
    BY <1>1, <1>3, <2>2
  <2> QED
    BY <2>2, <2>3
<1>9. Holds(L, u)
  BY <1>1 DEF Holds, Contains
<1> QED
  BY <1>7, <1>8, <1>9 DEF u

(* One of the lists is appended to another one and emptied.                *)
Joined(L, M, s, r) ==
  /\ DOMAIN M = DOMAIN L /\ s \in DOMAIN L /\ r \in DOMAIN L /\ s # r
  /\ \A t \in DOMAIN L : M[t] = IF t = s THEN L[s] \o L[r] ELSE IF t = r THEN <<>> ELSE L[t]

LEMMA JoinedLists ==
  ASSUME NEW L, NEW M, NEW s, NEW r, Listed(L), Joined(L, M, s, r)
  PROVE  /\ \A v : Holds(M, v) <=> Holds(L, v)
         /\ Separate(L) => Separate(M)
<1> DEFINE S == DOMAIN L
<1> DEFINE U == Uops
<1>0. /\ DOMAIN M = S /\ s \in S /\ r \in S /\ s # r /\ \A t \in S : L[t] \in Seq(U)
      /\ \A t \in S : M[t] = IF t = s THEN L[s] \o L[r] ELSE IF t = r THEN <<>> ELSE L[t]
  BY DEF Listed, Joined
<1> DEFINE m == Len(L[s])
<1> HIDE DEF U
<1> USE <1>0
<1> DEFINE n == Len(L[r])
<1>1. /\ m \in Nat /\ L[s] \in Seq(U) /\ DOMAIN L[s] = 1..m /\ DOMAIN L = S
      /\ n \in Nat /\ L[r] \in Seq(U) /\ DOMAIN L[r] = 1..n
  BY LenProperties
<1>2. /\ L[s] \o L[r] \in Seq(U) /\ Len(L[s] \o L[r]) = m + n
      /\ \A i \in 1..(m + n) : (L[s] \o L[r])[i] = IF i <= m THEN L[s][i] ELSE L[r][i - m]
  BY <1>1, ConcatProperties
<1>3. /\ DOMAIN M[s] = 1..(m + n)
      /\ \A i \in 1..(m + n) : M[s][i] = IF i <= m THEN L[s][i] ELSE L[r][i - m]
  <2>1. DOMAIN (L[s] \o L[r]) = 1..(m + n)
    BY <1>2, LenProperties
  <2> QED
    BY <1>2, <2>1
<1>4. DOMAIN M[r] = {}
  <2>1. Len(<<>>) = 0 /\ <<>> \in Seq(U)
    BY EmptySeq
  <2>2. DOMAIN M[r] = 1..0
    BY <2>1, LenProperties
  <2> QED
    BY <2>2
<1>5. \A t \in S : t # s /\ t # r => M[t] = L[t]
  OBVIOUS
<1> HIDE DEF m, n
<1> DEFINE from(t, i) == IF t = s /\ i > m THEN r ELSE t
<1> DEFINE at(t, i) == IF t = s /\ i > m THEN i - m ELSE i
<1>6. \A t \in S : \A i \in DOMAIN M[t] :
        /\ from(t, i) \in S /\ at(t, i) \in DOMAIN L[from(t, i)]
        /\ M[t][i] = L[from(t, i)][at(t, i)]
  <2> TAKE t \in S
  <2>1. CASE t = s
    <3> TAKE i \in DOMAIN M[t]
    <3>1. i \in 1..(m + n)
      BY <1>3, <2>1
    <3>2. CASE i <= m
      BY <1>1, <1>3, <2>1, <3>1, <3>2
    <3>3. CASE i > m
      <4>1. i - m \in 1..n /\ ~(i <= m)
        BY <1>1, <3>1, <3>3
      <4> QED
        BY <1>1, <1>3, <2>1, <3>1, <3>3, <4>1
    <3> QED
      BY <1>1, <3>1, <3>2, <3>3
  <2>2. CASE t # s /\ t # r
    BY <1>5, <2>2
  <2>3. CASE t = r
    BY <1>4, <2>3
  <2> QED
    BY <2>1, <2>2, <2>3
<1>7. \A v : Holds(M, v) <=> Holds(L, v)
  <2> TAKE v
  <2>1. Holds(M, v) => Holds(L, v)
    <3> SUFFICES ASSUME NEW t \in S, NEW i \in DOMAIN M[t], M[t][i] = v
                 PROVE  Holds(L, v)
      BY DEF Holds, Contains
    <3> HIDE DEF from, at
    <3> QED
      BY <1>1, <1>6 DEF Holds, Contains
  <2>2. ASSUME NEW t \in S, NEW i \in DOMAIN L[t], L[t][i] = v
        PROVE  Holds(M, v)
    <3>1. CASE t = s
      <4>1. i \in 1..(m + n) /\ i <= m
        BY <1>1, <2>2, <3>1
      <4> QED
        BY <1>3, <2>2, <3>1, <4>1 DEF Holds, Contains
    <3>2. CASE t = r
      <4>1. m + i \in 1..(m + n) /\ ~(m + i <= m) /\ (m + i) - m = i
        BY <1>1, <2>2, <3>2
      <4>2. M[s][m + i] = v
        BY <1>3, <2>2, <3>2, <4>1
      <4> QED
        BY <1>3, <4>1, <4>2 DEF Holds, Contains
    <3>3. CASE t # s /\ t # r
      BY <1>5, <2>2, <3>3 DEF Holds, Contains
    <3> QED
      BY <3>1, <3>2, <3>3
  <2> QED
    BY <1>1, <2>1, <2>2 DEF Holds, Contains
<1>8. ASSUME Separate(L)
      PROVE  Separate(M)
  <2> SUFFICES ASSUME NEW t \in S, NEW q \in S, NEW i \in DOMAIN M[t], NEW j \in DOMAIN M[q],
                      M[t][i] = M[q][j]
               PROVE  t = q /\ i = j
    BY DEF Separate
  <2>1. from(t, i) = from(q, j) /\ at(t, i) = at(q, j)
    <3> HIDE DEF from, at
    <3> QED
      BY <1>1, <1>6, <1>8 DEF Separate
  <2>2. t # r /\ q # r
    BY <1>4
  <2>3. /\ t = s => i \in Nat
        /\ q = s => j \in Nat
    BY <1>1, <1>3
  <2> QED
    BY <1>1, <2>1, <2>2, <2>3
<1> QED
  BY <1>7, <1>8

-----------------------------------------------------------------------------
(* Which steps write what: everything else is left alone.                  *)

Quiet ==
  \/ IssueLam \/ IssueMerges \/ EndIssue \/ Deliver \/ Stall \/ NoFill \/ Stop \/ Done
  \/ UNCHANGED vars

LEMMA QuietFrame ==
  ASSUME Quiet
  PROVE  /\ UNCHANGED <<stream, clock, uop, entry, work, wake, held>>
         /\ UNCHANGED <<rs, portUsage, prevDispatched, readyQueue, front, readyInCycle,
                        nonReady, pending, dependents, fence, blocked>>
         /\ phase' \in {"issue", "rob"} <=> phase \in {"issue", "rob"}
         /\ \/ phase' = phase /\ (phase = "issue" \/ group' = group)
            \/ {phase, phase'} \subseteq {"issue", "rob", "fill", "drain", "done"}
<1>1. CASE IssueLam \/ IssueMerges \/ EndIssue
  BY <1>1 DEF IssueLam, IssueMerges, EndIssue, storageVars, schedulerVars, queueVars
<1>2. CASE Deliver \/ Stall \/ NoFill \/ Stop
  BY <1>2 DEF Deliver, Stall, NoFill, Stop, storageVars, schedulerVars, queueVars
<1>3. CASE Done \/ UNCHANGED vars
  BY <1>3 DEF Done, vars, storageVars, loopVars, schedulerVars, queueVars
<1> QED
  BY <1>1, <1>2, <1>3 DEF Quiet

(* The steps that are not quiet.                                           *)
LEMMA Steps ==
  ASSUME [Next]_vars
  PROVE  \/ Quiet \/ Tick \/ CycleReorderBuffer
         \/ CycleScheduler /\ SchedulerNext
BY DEF Next, Quiet, CycleScheduler

(* The writers of the stamps and of the clock.                             *)
LEMMA StorageWriters ==
  ASSUME [Next]_vars
  PROVE  /\ stream' = stream /\ prog' = prog
         /\ \A u : NeedsPort(u)' <=> NeedsPort(u)
         /\ clock' = clock \/ Tick
         /\ \/ uop' = uop
            \/ AddNewUop \/ MakeReady \/ DispatchUop \/ FinishPendingUop \/ CycleReorderBuffer
         /\ entry' = entry \/ FinishPendingUop
<1>1. /\ stream' = stream
      /\ clock' = clock \/ Tick
      /\ \/ uop' = uop
         \/ AddNewUop \/ MakeReady \/ DispatchUop \/ FinishPendingUop \/ CycleReorderBuffer
      /\ entry' = entry \/ FinishPendingUop
  <2>1. CASE Quiet
    BY <2>1, QuietFrame
  <2>2. CASE Tick
    BY <2>2 DEF Tick
  <2>3. CASE CycleReorderBuffer
    BY <2>3 DEF CycleReorderBuffer
  <2>4. CASE AddNewUop
    BY <2>4 DEF AddNewUop
  <2>5. CASE DispatchUop
    BY <2>5 DEF DispatchUop
  <2>6. CASE FinishPendingUop
    BY <2>6 DEF FinishPendingUop
  <2>7. CASE MakeReady
    BY <2>7 DEF MakeReady
  <2>8. CASE \/ MoveReadyUop \/ EndMoveReady \/ VisitFused \/ SkipUop \/ BeginDispatch \/ IdlePort
             \/ EndDispatch
    BY <2>8
       DEF MoveReadyUop, EndMoveReady, VisitFused, SkipUop, BeginDispatch, IdlePort, EndDispatch,
           storageVars
  <2>9. CASE \/ KeepPendingUop \/ EndPending \/ WakeDependent \/ BeginNonReady \/ StayNonReady
             \/ EndNonReady \/ EndSchedulerCycle
    BY <2>9
       DEF KeepPendingUop, EndPending, WakeDependent, BeginNonReady, StayNonReady, EndNonReady,
           EndSchedulerCycle, storageVars
  <2> QED
    BY <2>1, <2>2, <2>3, <2>4, <2>5, <2>6, <2>7, <2>8, <2>9, Steps DEF SchedulerNext
<1> QED
  BY <1>1 DEF prog, NeedsPort

(* The writers of the queues.                                              *)
LEMMA QueueWriters ==
  ASSUME [Next]_vars
  PROVE  /\ rs' = rs \/ AddNewUop \/ DispatchUop
         /\ portUsage' = portUsage \/ AddNewUop \/ EndDispatch
         /\ prevDispatched' = prevDispatched \/ EndDispatch
         /\ UNCHANGED <<readyQueue, front>> \/ MoveReadyUop \/ DispatchUop
         /\ readyInCycle' = readyInCycle \/ CycleReorderBuffer \/ MakeReady
         /\ \/ nonReady' = nonReady
            \/ AddNewUop \/ WakeDependent \/ BeginNonReady \/ StayNonReady
         /\ pending' = pending \/ DispatchUop \/ EndDispatch \/ KeepPendingUop
         /\ dependents' = dependents \/ AddNewUop \/ WakeDependent \/ FinishPendingUop
         /\ fence' = fence \/ AddNewUop \/ MakeReady \/ EndSchedulerCycle
         /\ blocked' = blocked \/ DispatchUop \/ MakeReady \/ EndSchedulerCycle
<1>1. CASE Quiet
  BY <1>1, QuietFrame
<1>2. CASE Tick \/ CycleReorderBuffer
  BY <1>2 DEF Tick, CycleReorderBuffer, schedulerVars, queueVars
<1>3. CASE AddNewUop
  BY <1>3 DEF AddNewUop
<1>4. CASE DispatchUop
  BY <1>4 DEF DispatchUop
<1>5. CASE FinishPendingUop
  BY <1>5 DEF FinishPendingUop
<1>6. CASE MakeReady
  BY <1>6 DEF MakeReady
<1>7. CASE EndDispatch
  BY <1>7 DEF EndDispatch
<1>8. CASE \/ MoveReadyUop \/ EndMoveReady \/ VisitFused \/ SkipUop \/ BeginDispatch \/ IdlePort
           \/ KeepPendingUop \/ EndPending
  BY <1>8
     DEF MoveReadyUop, EndMoveReady, VisitFused, SkipUop, BeginDispatch, IdlePort,
         KeepPendingUop, EndPending, schedulerVars, queueVars
<1>9. CASE \/ WakeDependent \/ BeginNonReady \/ StayNonReady \/ EndNonReady \/ EndSchedulerCycle
  BY <1>9
     DEF WakeDependent, BeginNonReady, StayNonReady, EndNonReady, EndSchedulerCycle,
         schedulerVars, queueVars
<1> QED
  BY <1>1, <1>2, <1>3, <1>4, <1>5, <1>6, <1>7, <1>8, <1>9, Steps DEF SchedulerNext

(* The writers of what the loops have left to visit.                       *)
LEMMA WorkWriters ==
  ASSUME [Next]_vars
  PROVE  /\ ReadyWork' = ReadyWork \/ CycleReorderBuffer \/ MoveReadyUop
         /\ AddWork' = AddWork \/ VisitFused \/ SkipUop \/ AddNewUop
         /\ PortWork' = PortWork \/ BeginDispatch \/ DispatchUop \/ IdlePort
         /\ PendWork' = PendWork \/ EndDispatch \/ FinishPendingUop \/ KeepPendingUop
         /\ \/ WaitWork' = WaitWork
            \/ EndPending \/ WakeDependent \/ BeginNonReady \/ MakeReady \/ StayNonReady
         /\ Waking' = Waking \/ FinishPendingUop \/ EndPending
<1> USE DEF ReadyWork, AddWork, PortWork, PendWork, WaitWork, Waking, WorkIn
<1>1. CASE Quiet
  BY <1>1, QuietFrame
<1>2. CASE Tick
  BY <1>2 DEF Tick
<1>3. CASE CycleReorderBuffer
  BY <1>3 DEF CycleReorderBuffer, BeginMoveReady, EnterLoop
<1>4. CASE MoveReadyUop \/ EndMoveReady
  BY <1>4 DEF MoveReadyUop, EndMoveReady
<1>5. CASE VisitFused \/ SkipUop
  BY <1>5 DEF VisitFused, SkipUop
<1>6. CASE AddNewUop
  BY <1>6 DEF AddNewUop
<1>7. CASE BeginDispatch \/ IdlePort
  BY <1>7 DEF BeginDispatch, IdlePort, EnterLoop
<1>8. CASE DispatchUop
  BY <1>8 DEF DispatchUop
<1>9. CASE EndDispatch
  BY <1>9 DEF EndDispatch, EnterLoop
<1>10. CASE FinishPendingUop
  BY <1>10 DEF FinishPendingUop
<1>11. CASE KeepPendingUop \/ EndPending
  BY <1>11 DEF KeepPendingUop, EndPending, EnterLoop
<1>12. CASE WakeDependent \/ BeginNonReady
  BY <1>12 DEF WakeDependent, BeginNonReady, EnterLoop
<1>13. CASE MakeReady
  BY <1>13 DEF MakeReady
<1>14. CASE StayNonReady \/ EndNonReady \/ EndSchedulerCycle
  BY <1>14 DEF StayNonReady, EndNonReady, EndSchedulerCycle
<1> QED
  BY <1>1, <1>2, <1>3, <1>4, <1>5, <1>6, <1>7, <1>8, <1>9, <1>10, <1>11, <1>12, <1>13, <1>14,
     Steps DEF SchedulerNext

-----------------------------------------------------------------------------
(* What the five writers of the stamps do to each uop.                     *)

Added(u) == uop[u].port # None

(* Everything but the named stamps of uop u is left alone.                 *)
KeepsPort  == \A v \in Uops : uop'[v].port = uop[v].port
KeepsReady == \A v \in Uops : uop'[v].ready = uop[v].ready
KeepsDisp  == \A v \in Uops : uop'[v].disp = uop[v].disp
KeepsExec  == \A v \in Uops : uop'[v].exec = uop[v].exec

LEMMA StampsTyped ==
  ASSUME TypeOK
  PROVE  /\ uop \in [Uops -> [port : Ports \cup {None}, ready : OptNat, disp : OptNat,
                              exec : OptNat]]
         /\ clock \in Nat /\ clock # None /\ stream \in DOMAIN Streams
         /\ \A v \in Uops : /\ uop[v].port \in Ports \cup {None} /\ uop[v].ready \in Int
                            /\ uop[v].disp \in Int /\ uop[v].exec \in Int
         /\ phase # "dispatch" => work \in Seq(Uops)
         /\ phase = "dispatch" => work \in Seq(Ports)
<1>1. /\ uop \in [Uops -> [port : Ports \cup {None}, ready : OptNat, disp : OptNat, exec : OptNat]]
      /\ clock \in Nat /\ clock # None /\ stream \in DOMAIN Streams
  BY DEF TypeOK, StorageTypeOK, None
<1>2. OptNat \subseteq Int
  BY DEF OptNat, None
<1>3. \A v \in Uops : /\ uop[v].port \in Ports \cup {None} /\ uop[v].ready \in OptNat
                      /\ uop[v].disp \in OptNat /\ uop[v].exec \in OptNat
  BY <1>1
<1>4. /\ phase # "dispatch" => work \in Seq(Uops)
      /\ phase = "dispatch" => work \in Seq(Ports)
  BY DEF TypeOK, SchedulerTypeOK, LoopTypeOK
<1> QED
  BY <1>1, <1>2, <1>3, <1>4

LEMMA AddEffect ==
  ASSUME TypeOK, AddNewUop
  PROVE  /\ work \in Seq(Uops) /\ work # <<>> /\ work' = Tail(work)
         /\ phase = "add" /\ phase' = "add" /\ clock' = clock
         /\ Head(work) \in Uops /\ NeedsPort(Head(work))
         /\ KeepsReady /\ KeepsDisp /\ KeepsExec
         /\ uop'[Head(work)].port \in prog.uops[Head(work)].ports
         /\ prog.uops[Head(work)].ports \subseteq Ports /\ uop'[Head(work)].port # None
         /\ \A v \in Uops \ {Head(work)} : uop'[v] = uop[v]
<1>1. /\ work \in Seq(Uops) /\ work # <<>> /\ work' = Tail(work)
      /\ phase = "add" /\ phase' = "add" /\ clock' = clock /\ NeedsPort(Head(work))
  BY StampsTyped DEF AddNewUop, Current, Advance
<1>2. Head(work) \in Uops
  BY <1>1, HeadTailProperties
<1>3. PICK p \in prog.uops[Head(work)].ports : uop' = [uop EXCEPT ![Head(work)].port = p]
  BY DEF AddNewUop, Current
<1>4. /\ \A v \in Uops \ {Head(work)} : uop'[v] = uop[v]
      /\ uop'[Head(work)] = [uop[Head(work)] EXCEPT !.port = p]
  BY <1>2, <1>3, StampsTyped
<1>5. prog.uops[Head(work)].ports \subseteq Ports /\ p \in Ports /\ p # None
  <2>1. prog.uops[Head(work)].ports \in SUBSET Ports
    BY <1>2, StampsTyped, UopTyped
  <2> QED
    BY <2>1, ConstantsTyped DEF None
<1>6. /\ uop'[Head(work)].port = p
      /\ uop'[Head(work)].ready = uop[Head(work)].ready
      /\ uop'[Head(work)].disp = uop[Head(work)].disp
      /\ uop'[Head(work)].exec = uop[Head(work)].exec
  BY <1>2, <1>4, StampsTyped
<1>7. KeepsReady /\ KeepsDisp /\ KeepsExec
  BY <1>4, <1>6 DEF KeepsReady, KeepsDisp, KeepsExec
<1> QED
  BY <1>1, <1>2, <1>3, <1>4, <1>5, <1>6, <1>7

LEMMA ReadyEffect ==
  ASSUME TypeOK, MakeReady
  PROVE  /\ work \in Seq(Uops) /\ work # <<>> /\ work' = Tail(work)
         /\ phase = "nonReady" /\ phase' = "nonReady" /\ clock' = clock
         /\ Head(work) \in Uops /\ Checks(Head(work)) /\ uop[Head(work)].ready = None
         /\ KeepsPort /\ KeepsDisp /\ KeepsExec
         /\ uop'[Head(work)].ready \in Nat /\ uop'[Head(work)].ready > clock
         /\ \A v \in Uops \ {Head(work)} : uop'[v] = uop[v]
         /\ \E t \in OperandTimes(Head(work)) :
              /\ IsLatest(t, OperandTimes(Head(work)))
              /\ uop'[Head(work)].ready = ReadyForDispatchCycle(Head(work), t)
              /\ LET ready == ReadyForDispatchCycle(Head(work), t)
                     there == IF ready \in DOMAIN readyInCycle THEN readyInCycle[ready] ELSE <<>>
                 IN  readyInCycle' = [c \in DOMAIN readyInCycle \cup {ready} |->
                       IF c = ready THEN AppendNew(there, Head(work)) ELSE readyInCycle[c]]
<1>1. /\ work \in Seq(Uops) /\ work # <<>> /\ work' = Tail(work)
      /\ phase = "nonReady" /\ phase' = "nonReady" /\ clock' = clock
      /\ Checks(Head(work)) /\ uop[Head(work)].ready = None
  BY StampsTyped DEF MakeReady, Current, Advance, Checks
<1>2. Head(work) \in Uops
  BY <1>1, HeadTailProperties
<1>3. PICK t \in OperandTimes(Head(work)) :
        /\ IsLatest(t, OperandTimes(Head(work)))
        /\ LET ready == ReadyForDispatchCycle(Head(work), t)
               there == IF ready \in DOMAIN readyInCycle THEN readyInCycle[ready] ELSE <<>>
           IN  /\ uop' = [uop EXCEPT ![Head(work)].ready = ready]
               /\ readyInCycle' = [c \in DOMAIN readyInCycle \cup {ready} |->
                    IF c = ready THEN AppendNew(there, Head(work)) ELSE readyInCycle[c]]
  BY DEF MakeReady, Current
<1> DEFINE r == ReadyForDispatchCycle(Head(work), t)
<1>4. r \in Nat /\ r > clock
  BY <1>2, ReadyCycleTyped DEF TypeOK
<1>5. uop' = [uop EXCEPT ![Head(work)].ready = r]
  BY <1>3
<1> HIDE DEF r
<1>6. /\ \A v \in Uops \ {Head(work)} : uop'[v] = uop[v]
      /\ uop'[Head(work)] = [uop[Head(work)] EXCEPT !.ready = r]
  BY <1>2, <1>5, StampsTyped
<1>7. KeepsPort /\ KeepsDisp /\ KeepsExec /\ uop'[Head(work)].ready = r
  BY <1>2, <1>6, StampsTyped DEF KeepsPort, KeepsDisp, KeepsExec
<1> QED
  BY <1>1, <1>2, <1>3, <1>4, <1>6, <1>7 DEF r

LEMMA DispatchEffect ==
  ASSUME TypeOK, DispatchUop
  PROVE  /\ work \in Seq(Ports) /\ work # <<>> /\ work' = Tail(work)
         /\ phase = "dispatch" /\ phase' = "dispatch" /\ clock' = clock
         /\ KeepsPort /\ KeepsReady /\ KeepsExec
         /\ \E q \in Queues : \E u \in readyQueue[q] :
              /\ q = SourceQueue(Head(work)) /\ u \in Uops /\ u = Oldest(readyQueue[q])
              /\ uop'[u].disp = clock /\ \A v \in Uops \ {u} : uop'[v] = uop[v]
              /\ \A r \in Queues : readyQueue'[r] = IF r = q THEN readyQueue[r] \ {u}
                                                    ELSE readyQueue[r]
              /\ rs' = rs \ {u} /\ pending' = AppendNew(pending, u)
<1>1. /\ work \in Seq(Ports) /\ work # <<>> /\ work' = Tail(work)
      /\ phase = "dispatch" /\ phase' = "dispatch" /\ clock' = clock
  BY StampsTyped DEF DispatchUop, Advance
<1>2. Head(work) \in Ports
  BY <1>1, HeadTailProperties
<1> DEFINE q == SourceQueue(Head(work))
<1>3. q \in Queues /\ readyQueue[q] \in SUBSET Uops /\ readyQueue \in [Queues -> SUBSET Uops]
  BY <1>2, ConstantsTyped DEF SourceQueue, TypeOK, SchedulerTypeOK, QueueTypeOK
<1>4. readyQueue[q] # {}
  BY DEF DispatchUop, CanDispatch, Current
<1> DEFINE u == Oldest(readyQueue[q])
<1>5. u \in readyQueue[q] /\ u \in Uops
  BY <1>3, <1>4, OldestProperties, StampsTyped
<1>6. /\ uop' = [uop EXCEPT ![u].disp = clock]
      /\ readyQueue' = [readyQueue EXCEPT ![q] = readyQueue[q] \ {u}]
      /\ rs' = rs \ {u} /\ pending' = AppendNew(pending, u)
  BY DEF DispatchUop, Current, AllButOldest
<1> HIDE DEF q, u
<1>7. /\ \A v \in Uops \ {u} : uop'[v] = uop[v]
      /\ uop'[u] = [uop[u] EXCEPT !.disp = clock]
  BY <1>5, <1>6, StampsTyped
<1>8. KeepsPort /\ KeepsReady /\ KeepsExec /\ uop'[u].disp = clock
  BY <1>5, <1>7, StampsTyped DEF KeepsPort, KeepsReady, KeepsExec
<1>9. \A r \in Queues : readyQueue'[r] = IF r = q THEN readyQueue[r] \ {u} ELSE readyQueue[r]
  BY <1>3, <1>6
<1> QED
  BY <1>1, <1>3, <1>5, <1>6, <1>7, <1>8, <1>9 DEF q, u

LEMMA FinishEffect ==
  ASSUME TypeOK, FinishPendingUop
  PROVE  /\ work \in Seq(Uops) /\ work # <<>> /\ work' = Tail(work)
         /\ phase = "pending" /\ phase' = "pending" /\ clock' = clock
         /\ Head(work) \in Uops /\ ResultsKnown(Head(work))
         /\ KeepsPort /\ KeepsReady /\ KeepsDisp
         /\ uop'[Head(work)].exec \in FinishTimes(Head(work))
         /\ \A t \in FinishTimes(Head(work)) : t <= uop'[Head(work)].exec
         /\ uop'[Head(work)].exec # None
         /\ \A v \in Uops \ {Head(work)} : uop'[v] = uop[v]
<1>1. /\ work \in Seq(Uops) /\ work # <<>> /\ work' = Tail(work)
      /\ phase = "pending" /\ phase' = "pending" /\ clock' = clock /\ ResultsKnown(Head(work))
  BY StampsTyped DEF FinishPendingUop, Current, Advance
<1>2. Head(work) \in Uops
  BY <1>1, HeadTailProperties
<1>3. PICK t \in FinishTimes(Head(work)) :
        IsLatest(t, FinishTimes(Head(work))) /\ uop' = [uop EXCEPT ![Head(work)].exec = t]
  BY DEF FinishPendingUop, Current
<1>4. /\ \A v \in Uops \ {Head(work)} : uop'[v] = uop[v]
      /\ uop'[Head(work)] = [uop[Head(work)] EXCEPT !.exec = t]
  BY <1>2, <1>3, StampsTyped
<1>5. KeepsPort /\ KeepsReady /\ KeepsDisp /\ uop'[Head(work)].exec = t
  BY <1>2, <1>4, StampsTyped DEF KeepsPort, KeepsReady, KeepsDisp
<1>6. t # None /\ \A s \in FinishTimes(Head(work)) : s <= t
  <2>1. uop[Head(work)].disp + 2 \in FinishTimes(Head(work))
    BY DEF FinishTimes
  <2>2. uop[Head(work)].disp + 2 <= t /\ \A s \in FinishTimes(Head(work)) : s <= t
    BY <1>3, <2>1 DEF IsLatest
  <2>3. uop[Head(work)].disp \in Nat \cup {-1} /\ t \in Nat \cup {-1}
    BY <1>2, <1>3, StampsTyped, FinishTimesTyped DEF TypeOK, OptNat, None
  <2> QED
    BY <2>2, <2>3 DEF None
<1> QED
  BY <1>1, <1>2, <1>3, <1>4, <1>5, <1>6

LEMMA BufferEffect ==
  ASSUME TypeOK, CycleReorderBuffer
  PROVE  /\ phase = "rob" /\ phase' = "ready" /\ clock' = clock /\ group' = group
         /\ KeepsPort /\ KeepsReady /\ KeepsDisp
         /\ \A v \in Uops : uop'[v].exec =
              IF ~NeedsPort(v) /\ \E i \in DOMAIN group : v \in UopIds(group[i])
              THEN clock ELSE uop[v].exec
<1>1. /\ phase = "rob" /\ phase' = "ready" /\ clock' = clock /\ group' = group
  BY DEF CycleReorderBuffer, BeginMoveReady, EnterLoop
<1>2. uop' = [v \in Uops |->
               IF ~NeedsPort(v) /\ \E i \in DOMAIN group : v \in UopIds(group[i])
               THEN [uop[v] EXCEPT !.exec = clock] ELSE uop[v]]
  BY DEF CycleReorderBuffer, ReorderBufferCycle, AddUops
<1> DEFINE new(v) == ~NeedsPort(v) /\ \E i \in DOMAIN group : v \in UopIds(group[i])
<1>3. \A v \in Uops : uop'[v] = IF new(v) THEN [uop[v] EXCEPT !.exec = clock] ELSE uop[v]
  BY <1>2
<1> HIDE DEF new
<1>4. \A v \in Uops : /\ uop'[v].port = uop[v].port /\ uop'[v].ready = uop[v].ready
                      /\ uop'[v].disp = uop[v].disp
                      /\ uop'[v].exec = IF new(v) THEN clock ELSE uop[v].exec
  BY <1>3, StampsTyped
<1> QED
  BY <1>1, <1>4 DEF KeepsPort, KeepsReady, KeepsDisp, new

(* Each stamp has one writer.                                              *)
LEMMA StampWriters ==
  ASSUME TypeOK, [Next]_vars
  PROVE  /\ KeepsPort \/ AddNewUop
         /\ KeepsReady \/ MakeReady
         /\ KeepsDisp \/ DispatchUop
         /\ KeepsExec \/ FinishPendingUop \/ CycleReorderBuffer
<1>1. CASE uop' = uop
  BY <1>1 DEF KeepsPort, KeepsReady, KeepsDisp, KeepsExec
<1> QED
  BY <1>1, StorageWriters, AddEffect, ReadyEffect, DispatchEffect, FinishEffect, BufferEffect

-----------------------------------------------------------------------------
(* The borders of the runs of fused uops.                                  *)

(* Fused uops whose uops add_new_uops has visited or is visiting.          *)
Visited == IF phase \in {"ready", "add"} THEN InBuffer - Len(group) ELSE InBuffer

FusedOf(u) == prog.uops[u].fused

(* The uops of a fused uop are those that name it.                         *)
LEMMA UopIdsExact ==
  ASSUME stream \in DOMAIN Streams, NEW f \in Uops, NEW u \in Uops
  PROVE  /\ u \in UopIds(f) <=> FusedOf(u) = f
         /\ FusedOf(u) \in Uops
<1>1. WellFormed(prog)
  BY ProgramsAssumption DEF Streams, prog
<1>2. \E i \in DOMAIN prog.fused[FusedOf(u)] : prog.fused[FusedOf(u)][i] = u
  BY <1>1 DEF WellFormed, NumberedInOrder, FusedOf
<1>3. \A i \in DOMAIN prog.fused[f] : prog.uops[prog.fused[f][i]].fused = f
  BY <1>1 DEF WellFormed
<1>4. FusedOf(u) \in Uops
  BY UopTyped DEF FusedOf
<1> QED
  BY <1>2, <1>3, <1>4 DEF UopIds, FusedOf

(* The reorder buffer takes over the issued group.                         *)
LEMMA GroupEntered ==
  ASSUME TypeOK, OrderInv, CycleReorderBuffer
  PROVE  /\ InBuffer \in Nat /\ NextFused \in Nat /\ InBuffer <= NextFused
         /\ group = RunOf(InBuffer, NextFused) /\ Len(group) = NextFused - InBuffer
         /\ NextFused = InBuffer' /\ InBuffer' \in Nat /\ Len(group) \in Nat
         /\ \A u \in Uops : (\E i \in DOMAIN group : u \in UopIds(group[i])) <=>
              InBuffer < FusedOf(u) /\ FusedOf(u) <= NextFused
<1>1. /\ InBuffer \in Nat /\ NextFused \in Nat /\ InBuffer <= NextFused /\ CoreRetired \in Nat
      /\ Len(retireQueue) \in Nat /\ Len(log) \in Nat /\ group \in Seq(Uops)
  BY BordersTyped DEF OrderInv
<1>2. phase = "rob" /\ log' = log
  BY DEF CycleReorderBuffer, runVars
<1>3. group = RunOf(InBuffer, NextFused)
  BY <1>2 DEF OrderInv, SequenceInv, IssueGroup
<1>4. /\ Len(group) = NextFused - InBuffer /\ DOMAIN group = 1..(NextFused - InBuffer)
      /\ \A i \in 1..(NextFused - InBuffer) : group[i] = InBuffer + i
  BY <1>1, <1>3, RunOfProperties, LenProperties
<1>5. PICK n \in 0..Len(rob) : /\ Len(retireQueue') = Len(retireQueue) + n
                               /\ Len(rob') = NextFused - (CoreRetired + n)
  BY CycleBorders DEF OrderInv
<1>6. InBuffer' = NextFused
  <2>1. CoreRetired' = Len(log) + (Len(retireQueue) + n)
    BY <1>2, <1>5 DEF CoreRetired
  <2>2. CoreRetired = Len(log) + Len(retireQueue)
    BY DEF CoreRetired
  <2>3. InBuffer' = CoreRetired' + Len(rob')
    BY DEF InBuffer
  <2> QED
    BY <1>1, <1>5, <2>1, <2>2, <2>3
<1>7. ASSUME NEW u \in Uops
      PROVE  (\E i \in DOMAIN group : u \in UopIds(group[i])) <=>
               InBuffer < FusedOf(u) /\ FusedOf(u) <= NextFused
  <2>1. stream \in DOMAIN Streams /\ \A i \in DOMAIN group : group[i] \in Uops
    BY <1>1, <1>4, StampsTyped, ElementOfSeq
  <2>2. FusedOf(u) \in Nat /\ \A i \in DOMAIN group : u \in UopIds(group[i]) <=> FusedOf(u) = group[i]
    BY <2>1, UopIdsExact, ConstantsTyped
  <2>3. ASSUME InBuffer < FusedOf(u), FusedOf(u) <= NextFused
        PROVE  \E i \in DOMAIN group : FusedOf(u) = group[i]
    <3>1. FusedOf(u) - InBuffer \in 1..(NextFused - InBuffer)
      BY <1>1, <2>2, <2>3
    <3>2. group[FusedOf(u) - InBuffer] = FusedOf(u)
      BY <1>1, <1>4, <2>2, <3>1
    <3> QED
      BY <1>4, <3>1, <3>2
  <2>4. ASSUME NEW i \in DOMAIN group, FusedOf(u) = group[i]
        PROVE  InBuffer < FusedOf(u) /\ FusedOf(u) <= NextFused
    BY <1>1, <1>4, <2>2, <2>4
  <2> QED
    BY <2>2, <2>3, <2>4
<1> QED
  BY <1>1, <1>3, <1>4, <1>6, <1>7

(* Only the reorder buffer moves the border of what it has taken over, and *)
(* only the walk over the group the border of what was visited.            *)
LEMMA BorderStep ==
  ASSUME TypeOK, OrderInv, [Next]_vars
  PROVE  /\ InBuffer \in Nat /\ group \in Seq(Uops)
         /\ InBuffer' = InBuffer \/ CycleReorderBuffer
         /\ Visited' = Visited \/ VisitFused
<1>1. InBuffer \in Nat /\ group \in Seq(Uops) /\ Len(<<>>) = 0
  BY BordersTyped, EmptySeq DEF OrderInv
<1>2. CASE Tick \/ Stop
  <2>1. CoreRetired' = CoreRetired /\ rob' = rob
    BY <1>2, SequenceDrain DEF OrderInv, Tick, Stop
  <2>2. InBuffer' = InBuffer
    BY <2>1 DEF InBuffer
  <2>3. phase = "drain" /\ phase' \notin {"ready", "add"}
    BY <1>2 DEF Tick, Stop
  <2> QED
    BY <1>1, <2>2, <2>3 DEF Visited
<1>3. CASE CycleReorderBuffer
  <2>1. /\ InBuffer' = InBuffer + Len(group) /\ Len(group) \in Nat
        /\ phase = "rob" /\ phase' = "ready" /\ group' = group
    BY <1>3, GroupEntered, BufferEffect
  <2> QED
    BY <1>1, <1>3, <2>1 DEF Visited
<1>4. CASE CycleScheduler
  <2>1. InBuffer' = InBuffer
    BY <1>4, SchedulerFrame DEF orderVars, robVars, runVars, InBuffer, CoreRetired
  <2>2. CASE BeginDispatch
    <3>1. phase = "add" /\ group = <<>> /\ phase' = "dispatch"
      BY <2>2 DEF BeginDispatch, EnterLoop
    <3> QED
      BY <1>1, <2>1, <3>1 DEF Visited
  <2>3. CASE MoveReadyUop \/ EndMoveReady \/ SkipUop \/ AddNewUop
    <3>1. group' = group /\ phase \in {"ready", "add"} /\ phase' \in {"ready", "add"}
      BY <2>3 DEF MoveReadyUop, EndMoveReady, SkipUop, AddNewUop
    <3> QED
      BY <1>1, <2>1, <3>1 DEF Visited
  <2>4. CASE \/ DispatchUop \/ IdlePort \/ EndDispatch \/ FinishPendingUop \/ KeepPendingUop
             \/ EndPending \/ WakeDependent \/ BeginNonReady \/ MakeReady \/ StayNonReady
             \/ EndNonReady \/ EndSchedulerCycle
    <3>1. phase \notin {"ready", "add"} /\ phase' \notin {"ready", "add"}
      BY <2>4
         DEF DispatchUop, IdlePort, EndDispatch, FinishPendingUop, KeepPendingUop, EndPending,
             WakeDependent, BeginNonReady, MakeReady, StayNonReady, EndNonReady,
             EndSchedulerCycle, EnterLoop
    <3> QED
      BY <1>1, <2>1, <3>1 DEF Visited
  <2> QED
    BY <1>1, <1>4, <2>1, <2>2, <2>3, <2>4 DEF CycleScheduler, SchedulerNext
<1>5. CASE Quiet /\ ~Stop
  <2>1. UNCHANGED <<log, retireQueue, rob>>
    BY <1>5
       DEF Quiet, IssueLam, IssueMerges, EndIssue, Deliver, Stall, NoFill, Done, vars, robVars,
           runVars
  <2>2. InBuffer' = InBuffer
    BY <2>1 DEF InBuffer, CoreRetired
  <2> QED
    BY <1>1, <1>5, <2>2, QuietFrame DEF Visited
<1> QED
  BY <1>1, <1>2, <1>3, <1>4, <1>5, Steps

-----------------------------------------------------------------------------
(* The inductive invariant.                                                *)

(* The stamps of a uop are written in the order of the stages; a uop that  *)
(* needs no port has executed as soon as the reorder buffer has taken it.  *)
StageInv == \A u \in Uops :
  /\ Added(u) => NeedsPort(u) /\ uop[u].port \in prog.uops[u].ports
  /\ uop[u].ready # None => Added(u)
  /\ uop[u].disp # None => uop[u].ready # None
  /\ NeedsPort(u) /\ uop[u].exec # None => uop[u].disp # None
  /\ ~NeedsPort(u) => (uop[u].exec # None <=> FusedOf(u) <= InBuffer)

(* add_new_uops has added the uops of the visited fused uops, except those *)
(* of the fused uop it is at that are still to come.                       *)
AddInv ==
  /\ Visited \in Nat
  /\ phase \in {"ready", "add"} => group = RunOf(Visited, InBuffer)
  /\ \A u \in Uops : NeedsPort(u) =>
       (Added(u) <=> FusedOf(u) <= Visited /\ ~Contains(AddWork, u))
  /\ \A i, j \in DOMAIN AddWork : i < j => AddWork[i] < AddWork[j]
  /\ \A i \in DOMAIN AddWork : FusedOf(AddWork[i]) = Visited

(* Every added uop that is not ready waits at one place: for a producer    *)
(* that has not executed, to be checked, to be woken, or in the list a     *)
(* loop is going through.                                                  *)
WaitSlots == -2..NumUops

WaitLists == [s \in WaitSlots |->
  IF s > 0 THEN dependents[s] ELSE IF s = 0 THEN nonReady
  ELSE IF s = -1 THEN Waking ELSE WaitWork]

WaitInv ==
  /\ Separate(WaitLists)
  /\ \A u \in Uops : Holds(WaitLists, u) <=> Added(u) /\ uop[u].ready = None
  /\ \A v \in Uops : dependents[v] # <<>> => NeedsPort(v) /\ uop[v].exec = None

(* Every dispatched uop that has not executed is pending, at one place.    *)
PendLists == [s \in {0, 1} |-> IF s = 0 THEN pending ELSE PendWork]

PendInv ==
  /\ Separate(PendLists)
  /\ \A u \in Uops : Holds(PendLists, u) <=> uop[u].disp # None /\ uop[u].exec = None

(* A ready uop that has not been dispatched is in the queue of its port    *)
(* when its cycle has come, and in the list of that cycle before that.     *)
Due(c) == c < clock \/ (c = clock /\ phase \notin {"issue", "rob"})

ReadyInv == phase # "done" =>
  /\ \A c \in DOMAIN readyInCycle : ~Due(c)
  /\ \A c \in DOMAIN readyInCycle : \A i \in DOMAIN readyInCycle[c] :
       uop[readyInCycle[c][i]].ready = c /\ uop[readyInCycle[c][i]].disp = None
  /\ \A i \in DOMAIN ReadyWork :
       uop[ReadyWork[i]].ready = clock /\ uop[ReadyWork[i]].disp = None
  /\ \A q \in Queues : \A u \in readyQueue[q] :
       q = QueueOf(u) /\ uop[u].ready # None /\ Due(uop[u].ready) /\ uop[u].disp = None
  /\ \A u \in Uops : uop[u].ready # None /\ uop[u].disp = None =>
       IF Due(uop[u].ready)
       THEN u \in readyQueue[QueueOf(u)] \/ Contains(ReadyWork, u)
       ELSE uop[u].ready \in DOMAIN readyInCycle /\ Contains(readyInCycle[uop[u].ready], u)

(* rs and uops_dispatched_in_prev_cycle follow the stamps, and a port is   *)
(* charged for the uops in them.                                           *)
Early == phase \in {"issue", "rob", "ready", "add"}

RsInv == phase # "done" =>
  /\ rs = {u \in Uops : Added(u) /\ uop[u].disp = None}
  /\ prevDispatched = {u \in Uops : uop[u].disp # None /\ uop[u].disp =
                         IF Early \/ phase = "dispatch" THEN clock - 1 ELSE clock}
  /\ \A u \in Uops : uop[u].disp <= clock /\ (Early => uop[u].disp < clock)

Charged(p) == {u \in rs \cup prevDispatched \cup DispatchedNow : uop[u].port = p}

UsageInv == phase # "done" => \A p \in Ports : portUsage[p] = Cardinality(Charged(p))

(* FrontEnd::cycle has stamped what the renamer has issued.                *)
IssuedInv == \A f \in Uops : Issued(f) <=> f <= CoreIssued

PlaceInv ==
  StageInv /\ AddInv /\ WaitInv /\ PendInv /\ ReadyInv /\ RsInv /\ UsageInv /\ IssuedInv

LEMMA ListsTyped ==
  ASSUME TypeOK
  PROVE  /\ Listed(WaitLists) /\ DOMAIN WaitLists = WaitSlots
         /\ WaitLists \in [WaitSlots -> Seq(Uops)]
         /\ WaitLists[0] = nonReady /\ WaitLists[-1] = Waking /\ WaitLists[-2] = WaitWork
         /\ \A s \in Uops : WaitLists[s] = dependents[s] /\ s \in WaitSlots /\ s > 0
         /\ {0, -1, -2} \subseteq WaitSlots
         /\ Listed(PendLists) /\ DOMAIN PendLists = {0, 1}
         /\ PendLists[0] = pending /\ PendLists[1] = PendWork
         /\ pending \in Seq(Uops) /\ PendWork \in Seq(Uops)
         /\ AddWork \in Seq(Uops) /\ ReadyWork \in Seq(Uops)
<1>1. /\ nonReady \in Seq(Uops) /\ pending \in Seq(Uops) /\ dependents \in [Uops -> Seq(Uops)]
      /\ wake \in Seq(Uops)
  BY DEF TypeOK, SchedulerTypeOK, LoopTypeOK, QueueTypeOK
<1>2. /\ WaitWork \in Seq(Uops) /\ PendWork \in Seq(Uops) /\ AddWork \in Seq(Uops)
      /\ ReadyWork \in Seq(Uops) /\ Waking \in Seq(Uops)
  BY <1>1, StampsTyped, EmptySeq
     DEF WaitWork, PendWork, AddWork, ReadyWork, Waking, WorkIn
<1>3. NumUops \in Nat /\ Uops = 1..NumUops
  BY NumUopsAssumption DEF Uops
<1>4. \A s \in WaitSlots : s > 0 => s \in Uops
  BY <1>3 DEF WaitSlots
<1>5. {0, -1, -2} \subseteq WaitSlots /\ \A s \in Uops : s \in WaitSlots /\ s > 0
  BY <1>3 DEF WaitSlots
<1>6. WaitLists \in [WaitSlots -> Seq(Uops)]
  BY <1>1, <1>2, <1>4 DEF WaitLists
<1>7. /\ WaitLists[0] = nonReady /\ WaitLists[-1] = Waking /\ WaitLists[-2] = WaitWork
      /\ \A s \in Uops : WaitLists[s] = dependents[s]
  BY <1>5 DEF WaitLists
<1>8. /\ PendLists \in [{0, 1} -> Seq(Uops)]
      /\ PendLists[0] = pending /\ PendLists[1] = PendWork
  BY <1>1, <1>2 DEF PendLists
<1>9. /\ Listed(WaitLists) /\ DOMAIN WaitLists = WaitSlots
      /\ Listed(PendLists) /\ DOMAIN PendLists = {0, 1}
  BY <1>6, <1>8 DEF Listed
<1> QED
  BY <1>1, <1>2, <1>5, <1>6, <1>7, <1>8, <1>9

(* The stage of the uop a loop is at.                                      *)
LEMMA HeadContained ==
  ASSUME NEW S, NEW s \in Seq(S), s # <<>>
  PROVE  Contains(s, Head(s)) /\ 1 \in DOMAIN s /\ s[1] = Head(s)
BY EmptySeq, LenProperties DEF Contains

LEMMA HeadToAdd ==
  ASSUME TypeOK, StageInv, AddInv, phase = "add", work # <<>>, NeedsPort(Head(work))
  PROVE  LET u == Head(work)
         IN  ~Added(u) /\ uop[u].ready = None /\ uop[u].disp = None /\ uop[u].exec = None
<1>1. work \in Seq(Uops) /\ Head(work) \in Uops /\ Contains(work, Head(work)) /\ AddWork = work
  BY StampsTyped, HeadContained, HeadTailProperties DEF AddWork, WorkIn
<1> QED
  BY <1>1 DEF StageInv, AddInv

LEMMA HeadToWait ==
  ASSUME TypeOK, StageInv, WaitInv, phase \in {"wake", "nonReady"}, work # <<>>
  PROVE  LET u == Head(work)
         IN  /\ u \in Uops /\ Added(u) /\ NeedsPort(u)
             /\ uop[u].ready = None /\ uop[u].disp = None /\ uop[u].exec = None
<1>1. work \in Seq(Uops) /\ Head(work) \in Uops /\ Contains(work, Head(work)) /\ WaitWork = work
  BY StampsTyped, HeadContained, HeadTailProperties DEF WaitWork, WorkIn
<1>2. Holds(WaitLists, Head(work))
  BY <1>1, ListsTyped DEF Holds
<1> QED
  BY <1>1, <1>2 DEF StageInv, WaitInv

LEMMA HeadToFinish ==
  ASSUME TypeOK, StageInv, PendInv, phase = "pending", work # <<>>
  PROVE  LET u == Head(work)
         IN  /\ u \in Uops /\ Added(u) /\ NeedsPort(u)
             /\ uop[u].ready # None /\ uop[u].disp # None /\ uop[u].exec = None
<1>1. work \in Seq(Uops) /\ Head(work) \in Uops /\ Contains(work, Head(work)) /\ PendWork = work
  BY StampsTyped, HeadContained, HeadTailProperties DEF PendWork, WorkIn
<1>2. Holds(PendLists, Head(work))
  BY <1>1, ListsTyped DEF Holds
<1> QED
  BY <1>1, <1>2 DEF StageInv, PendInv

LEMMA QueuedStage ==
  ASSUME TypeOK, StageInv, ReadyInv, phase # "done", NEW q \in Queues, NEW u \in readyQueue[q]
  PROVE  /\ u \in Uops /\ Added(u) /\ NeedsPort(u) /\ q = QueueOf(u)
         /\ uop[u].ready # None /\ Due(uop[u].ready) /\ uop[u].disp = None /\ uop[u].exec = None
<1>1. u \in Uops
  BY DEF TypeOK, SchedulerTypeOK, QueueTypeOK
<1>2. q = QueueOf(u) /\ uop[u].ready # None /\ Due(uop[u].ready) /\ uop[u].disp = None
  BY DEF ReadyInv
<1> QED
  BY <1>1, <1>2 DEF StageInv

-----------------------------------------------------------------------------
(* Every step preserves it.                                                *)

LEMMA StageStep ==
  ASSUME TypeOK, OrderInv, PlaceInv, [Next]_vars
  PROVE  StageInv'
<1>1. /\ prog' = prog /\ \A u : NeedsPort(u)' <=> NeedsPort(u)
      /\ StageInv /\ AddInv /\ WaitInv /\ PendInv /\ ReadyInv
  BY StorageWriters DEF PlaceInv
<1>2. CASE AddNewUop
  <2>1. /\ Head(work) \in Uops /\ NeedsPort(Head(work)) /\ KeepsReady /\ KeepsDisp /\ KeepsExec
        /\ uop'[Head(work)].port \in prog.uops[Head(work)].ports
        /\ uop'[Head(work)].port # None
        /\ \A v \in Uops \ {Head(work)} : uop'[v] = uop[v]
    BY <1>2, AddEffect
  <2>2. InBuffer' = InBuffer
    BY <1>2, BorderStep DEF AddNewUop, CycleReorderBuffer
  <2> QED
    BY <1>1, <2>1, <2>2 DEF StageInv, Added, FusedOf, KeepsReady, KeepsDisp, KeepsExec
<1>3. CASE MakeReady
  <2>1. /\ KeepsPort /\ KeepsDisp /\ KeepsExec /\ uop'[Head(work)].ready # None
        /\ \A v \in Uops \ {Head(work)} : uop'[v] = uop[v]
        /\ phase = "nonReady" /\ work # <<>>
    BY <1>3, ReadyEffect DEF None
  <2>2. Head(work) \in Uops /\ Added(Head(work))
    BY <1>1, <2>1, HeadToWait
  <2>3. InBuffer' = InBuffer
    BY <2>1, BorderStep DEF CycleReorderBuffer
  <2> QED
    BY <1>1, <2>1, <2>2, <2>3 DEF StageInv, Added, FusedOf, KeepsPort, KeepsDisp, KeepsExec
<1>4. CASE DispatchUop
  <2>1. KeepsPort /\ KeepsReady /\ KeepsExec /\ phase = "dispatch"
    BY <1>4, DispatchEffect
  <2>2. PICK q \in Queues, u \in Uops : /\ u \in readyQueue[q] /\ uop'[u].disp # None
                                        /\ \A v \in Uops \ {u} : uop'[v] = uop[v]
    BY <1>4, DispatchEffect, StampsTyped
  <2>3. uop[u].ready # None
    BY <1>1, <2>1, <2>2, QueuedStage
  <2>4. InBuffer' = InBuffer
    BY <2>1, BorderStep DEF CycleReorderBuffer
  <2> QED
    BY <1>1, <2>1, <2>2, <2>3, <2>4 DEF StageInv, Added, FusedOf, KeepsPort, KeepsReady, KeepsExec
<1>5. CASE FinishPendingUop
  <2>1. /\ KeepsPort /\ KeepsReady /\ KeepsDisp /\ phase = "pending" /\ work # <<>>
        /\ \A v \in Uops \ {Head(work)} : uop'[v] = uop[v]
    BY <1>5, FinishEffect
  <2>2. NeedsPort(Head(work)) /\ uop[Head(work)].disp # None
    BY <1>1, <2>1, HeadToFinish
  <2>3. InBuffer' = InBuffer
    BY <2>1, BorderStep DEF CycleReorderBuffer
  <2> QED
    BY <1>1, <2>1, <2>2, <2>3 DEF StageInv, Added, FusedOf, KeepsPort, KeepsReady, KeepsDisp
<1>6. CASE CycleReorderBuffer
  <2>1. /\ KeepsPort /\ KeepsReady /\ KeepsDisp
        /\ \A v \in Uops : uop'[v].exec =
             IF ~NeedsPort(v) /\ \E i \in DOMAIN group : v \in UopIds(group[i])
             THEN clock ELSE uop[v].exec
    BY <1>6, BufferEffect
  <2>2. /\ InBuffer \in Nat /\ InBuffer' \in Nat /\ InBuffer <= InBuffer'
        /\ \A u \in Uops : (\E i \in DOMAIN group : u \in UopIds(group[i])) <=>
             InBuffer < FusedOf(u) /\ FusedOf(u) <= InBuffer'
    BY <1>6, GroupEntered
  <2>3. ASSUME NEW u \in Uops, ~NeedsPort(u)
        PROVE  uop'[u].exec # None <=> FusedOf(u) <= InBuffer'
    <3>1. FusedOf(u) \in Nat /\ clock # None
      BY StampsTyped, UopIdsExact, ConstantsTyped
    <3>2. uop[u].exec # None <=> FusedOf(u) <= InBuffer
      BY <1>1, <2>3 DEF StageInv
    <3>3. uop'[u].exec = IF InBuffer < FusedOf(u) /\ FusedOf(u) <= InBuffer'
                         THEN clock ELSE uop[u].exec
      BY <2>1, <2>2, <2>3
    <3> QED
      BY <2>2, <3>1, <3>2, <3>3
  <2>4. \A u \in Uops : NeedsPort(u) => uop'[u].exec = uop[u].exec
    BY <2>1
  <2> QED
    BY <1>1, <2>1, <2>3, <2>4 DEF StageInv, Added, FusedOf, KeepsPort, KeepsReady, KeepsDisp
<1>7. CASE uop' = uop /\ ~CycleReorderBuffer
  <2>1. InBuffer' = InBuffer
    BY <1>7, BorderStep
  <2> QED
    BY <1>1, <1>7, <2>1 DEF StageInv, Added, FusedOf
<1> QED
  BY <1>2, <1>3, <1>4, <1>5, <1>6, <1>7, StorageWriters

LEMMA TailContains ==
  ASSUME NEW S, NEW s \in Seq(S), s # <<>>
  PROVE  /\ \A v : Contains(s, v) <=> v = Head(s) \/ Contains(Tail(s), v)
         /\ DOMAIN s = 1..Len(s) /\ DOMAIN Tail(s) = 1..(Len(s) - 1) /\ Len(s) \in Nat \ {0}
         /\ \A i \in DOMAIN Tail(s) : i + 1 \in DOMAIN s /\ Tail(s)[i] = s[i + 1]
<1> DEFINE n == Len(s)
<1> DEFINE t == Tail(s)
<1>1. /\ n \in Nat \ {0} /\ DOMAIN s = 1..n /\ Head(s) = s[1]
      /\ t \in Seq(S) /\ Len(t) = n - 1 /\ DOMAIN t = 1..(n - 1)
      /\ \A i \in 1..(n - 1) : t[i] = s[i + 1]
  BY EmptySeq, LenProperties, HeadTailProperties
<1> HIDE DEF n, t
<1>2. \A i \in DOMAIN t : i + 1 \in DOMAIN s /\ t[i] = s[i + 1]
  BY <1>1
<1>3. ASSUME NEW v, NEW i \in DOMAIN s, s[i] = v, v # Head(s)
      PROVE  Contains(t, v)
  <2>1. i - 1 \in DOMAIN t /\ (i - 1) + 1 = i
    BY <1>1, <1>3
  <2> QED
    BY <1>2, <1>3, <2>1 DEF Contains
<1>4. 1 \in DOMAIN s
  BY <1>1
<1>5. \A v : Contains(s, v) <=> v = Head(s) \/ Contains(t, v)
  BY <1>1, <1>2, <1>3, <1>4 DEF Contains
<1> QED
  BY <1>1, <1>2, <1>5 DEF n, t

(* Only VisitFused takes something out of the group while the scheduler    *)
(* walks over it.                                                          *)
LEMMA GroupKept ==
  ASSUME [Next]_vars, phase' \in {"ready", "add"}, ~CycleReorderBuffer, ~VisitFused
  PROVE  phase \in {"ready", "add"} /\ group' = group
<1>1. CASE Quiet
  BY <1>1, QuietFrame
<1>2. CASE Tick
  BY <1>2 DEF Tick
<1>3. CASE MoveReadyUop \/ EndMoveReady \/ SkipUop \/ AddNewUop
  BY <1>3 DEF MoveReadyUop, EndMoveReady, SkipUop, AddNewUop
<1>4. CASE \/ BeginDispatch \/ DispatchUop \/ IdlePort \/ EndDispatch \/ FinishPendingUop
           \/ KeepPendingUop \/ EndPending \/ WakeDependent \/ BeginNonReady \/ MakeReady
           \/ StayNonReady \/ EndNonReady \/ EndSchedulerCycle
  BY <1>4
     DEF BeginDispatch, DispatchUop, IdlePort, EndDispatch, FinishPendingUop, KeepPendingUop,
         EndPending, WakeDependent, BeginNonReady, MakeReady, StayNonReady, EndNonReady,
         EndSchedulerCycle, EnterLoop
<1> QED
  BY <1>1, <1>2, <1>3, <1>4, Steps DEF SchedulerNext

(* add_new_uops turns to the next fused uop.                               *)
LEMMA AddVisit ==
  ASSUME TypeOK, OrderInv, AddInv, [Next]_vars, VisitFused
  PROVE  AddInv'
<1>1. /\ phase = "add" /\ phase' = "add" /\ work = <<>> /\ group # <<>> /\ uop' = uop
      /\ work' = prog.fused[Head(group)] /\ group' = Tail(group)
  BY DEF VisitFused, storageVars
<1>2. /\ InBuffer' = InBuffer /\ InBuffer \in Nat /\ group \in Seq(Uops)
      /\ prog' = prog /\ \A u : NeedsPort(u)' <=> NeedsPort(u)
  BY <1>1, BorderStep, StorageWriters DEF CycleReorderBuffer
<1>3. Visited = InBuffer - Len(group) /\ Len(group) \in Nat \ {0} /\ Len(group') = Len(group) - 1
  BY <1>1, <1>2, EmptySeq, HeadTailProperties DEF Visited
<1>4. Visited \in Nat /\ Visited' = Visited + 1 /\ Visited < InBuffer
  BY <1>1, <1>2, <1>3 DEF Visited, AddInv
<1> DEFINE f == Visited + 1
<1>5. group = RunOf(Visited, InBuffer) /\ group' = RunOf(f, InBuffer) /\ Head(group) = f
  <2>1. group = RunOf(Visited, InBuffer)
    BY <1>1 DEF AddInv
  <2>2. group[1] = f /\ Tail(group) = RunOf(f, InBuffer)
    BY <1>2, <1>4, <2>1, RunOfTail
  <2> QED
    BY <1>1, <1>2, <2>1, <2>2
<1>6. f \in Uops /\ f \in Nat
  BY <1>1, <1>2, <1>4, <1>5, HeadTailProperties
<1> HIDE DEF f
<1>7. AddWork' = prog.fused[f] /\ AddWork = <<>>
  BY <1>1, <1>5 DEF AddWork, WorkIn
<1>8. WellFormed(prog) /\ stream \in DOMAIN Streams
  BY StampsTyped, ProgramsAssumption DEF Streams, prog
<1>9. \A u \in Uops : (Contains(prog.fused[f], u) <=> FusedOf(u) = f) /\ FusedOf(u) \in Nat
  <2> TAKE u \in Uops
  <2>1. Contains(prog.fused[f], u) <=> u \in UopIds(f)
    BY DEF UopIds, Contains
  <2>2. (u \in UopIds(f) <=> FusedOf(u) = f) /\ FusedOf(u) \in Uops
    BY <1>6, <1>8, UopIdsExact
  <2> QED
    BY <2>1, <2>2, ConstantsTyped
<1>10. ASSUME NEW u \in Uops, NeedsPort(u)
       PROVE  Added(u)' <=> FusedOf(u) <= f /\ ~Contains(prog.fused[f], u)
  <2>1. Added(u)' <=> Added(u)
    BY <1>1 DEF Added
  <2>2. ~Contains(AddWork, u)
    <3>1. DOMAIN AddWork = {}
      <4>1. AddWork \in Seq(Uops) /\ Len(AddWork) = 0
        BY <1>7, EmptySeq
      <4> QED
        BY <4>1, LenProperties
    <3> QED
      BY <3>1 DEF Contains
  <2>3. Added(u) <=> FusedOf(u) <= Visited
    BY <1>10, <2>2 DEF AddInv
  <2> QED
    BY <1>4, <1>6, <1>9, <2>1, <2>3 DEF f
<1>11. /\ \A i, j \in DOMAIN prog.fused[f] : i < j => prog.fused[f][i] < prog.fused[f][j]
       /\ \A i \in DOMAIN prog.fused[f] : FusedOf(prog.fused[f][i]) = f
  BY <1>6, <1>8 DEF WellFormed, NumberedInOrder, FusedOf
<1>12. Visited' = f
  BY <1>4 DEF f
<1> QED
  BY <1>2, <1>5, <1>6, <1>7, <1>10, <1>11, <1>12 DEF AddInv, FusedOf

(* ... and to the next uop of a fused uop.                                 *)
LEMMA AddAdvance ==
  ASSUME TypeOK, OrderInv, StageInv, AddInv, [Next]_vars, SkipUop \/ AddNewUop
  PROVE  AddInv'
<1>1. /\ phase = "add" /\ phase' = "add" /\ work # <<>> /\ work' = Tail(work) /\ group' = group
      /\ SkipUop => ~NeedsPort(Head(work))
  BY DEF SkipUop, AddNewUop, Advance, Current
<1>2. /\ InBuffer' = InBuffer /\ Visited' = Visited
      /\ prog' = prog /\ \A u : NeedsPort(u)' <=> NeedsPort(u)
  BY <1>1, BorderStep, StorageWriters DEF CycleReorderBuffer, VisitFused
<1>3. AddWork = work /\ AddWork' = Tail(work) /\ work \in Seq(Uops)
  BY <1>1, StampsTyped DEF AddWork, WorkIn
<1>4. /\ \A v : Contains(work, v) <=> v = Head(work) \/ Contains(Tail(work), v)
      /\ DOMAIN work = 1..Len(work) /\ DOMAIN Tail(work) = 1..(Len(work) - 1)
      /\ \A i \in DOMAIN Tail(work) : i + 1 \in DOMAIN work /\ Tail(work)[i] = work[i + 1]
      /\ Len(work) \in Nat \ {0} /\ Head(work) = work[1] /\ 1 \in DOMAIN work
      /\ \A i \in DOMAIN work : work[i] \in Nat
  BY <1>1, <1>3, TailContains, HeadContained, ConstantsTyped, ElementOfSeq
<1>5. /\ \A i, j \in DOMAIN work : i < j => work[i] < work[j]
      /\ \A i \in DOMAIN work : FusedOf(work[i]) = Visited
  BY <1>3 DEF AddInv
<1>6. \A i, j \in DOMAIN Tail(work) : i < j => Tail(work)[i] < Tail(work)[j]
  <2> TAKE i, j \in DOMAIN Tail(work)
  <2>1. /\ i + 1 \in DOMAIN work /\ Tail(work)[i] = work[i + 1]
        /\ j + 1 \in DOMAIN work /\ Tail(work)[j] = work[j + 1]
        /\ i < j => i + 1 < j + 1
    BY <1>4
  <2> QED
    BY <1>5, <2>1
<1>7. \A i \in DOMAIN Tail(work) : FusedOf(Tail(work)[i]) = Visited
  BY <1>4, <1>5
<1>8. ~Contains(Tail(work), Head(work))
  <2> SUFFICES ASSUME NEW i \in DOMAIN Tail(work), Tail(work)[i] = work[1]
               PROVE  FALSE
    BY <1>4 DEF Contains
  <2>1. i + 1 \in DOMAIN work /\ work[i + 1] = work[1] /\ 1 < i + 1
    BY <1>4
  <2>2. work[1] < work[i + 1] /\ work[1] \in Nat
    BY <1>4, <1>5, <2>1
  <2> QED
    BY <2>1, <2>2
<1>9. ASSUME NEW u \in Uops, NeedsPort(u)
      PROVE  Added(u)' <=> FusedOf(u) <= Visited /\ ~Contains(Tail(work), u)
  <2>1. Added(u) <=> FusedOf(u) <= Visited /\ ~Contains(work, u)
    BY <1>3, <1>9 DEF AddInv
  <2>2. CASE u # Head(work)
    <3>1. Added(u)' <=> Added(u)
      <4>1. CASE SkipUop
        BY <4>1 DEF SkipUop, storageVars, Added
      <4>2. CASE AddNewUop
        BY <2>2, <4>2, AddEffect DEF Added
      <4> QED
        BY <4>1, <4>2
    <3> QED
      BY <1>4, <2>1, <2>2, <3>1
  <2>3. CASE u = Head(work)
    <3>1. AddNewUop
      BY <1>1, <1>9, <2>3
    <3>2. Added(u)'
      BY <2>3, <3>1, AddEffect DEF Added
    <3>3. FusedOf(u) = Visited /\ Visited \in Nat
      BY <1>4, <1>5, <2>3 DEF AddInv
    <3> QED
      BY <1>8, <2>3, <3>2, <3>3
  <2> QED
    BY <2>2, <2>3
<1> QED
  BY <1>1, <1>2, <1>3, <1>6, <1>7, <1>9 DEF AddInv, FusedOf

LEMMA AddStep ==
  ASSUME TypeOK, OrderInv, StageInv, AddInv, [Next]_vars
  PROVE  AddInv'
<1>1. prog' = prog /\ \A u : NeedsPort(u)' <=> NeedsPort(u)
  BY StorageWriters
<1>2. CASE CycleReorderBuffer
  <2>1. KeepsPort /\ phase = "rob" /\ phase' = "ready" /\ group' = group
    BY <1>2, BufferEffect
  <2>2. /\ InBuffer \in Nat /\ InBuffer' \in Nat /\ Len(group) = InBuffer' - InBuffer
        /\ group = RunOf(InBuffer, InBuffer')
    BY <1>2, GroupEntered
  <2>3. AddWork' = AddWork /\ Visited = InBuffer
    BY <2>1 DEF Visited, AddWork, WorkIn
  <2>4. Visited' = InBuffer
    <3>1. Visited' = InBuffer' - Len(group)
      BY <2>1 DEF Visited
    <3>2. \A m, n \in Nat : n - (n - m) = m
      OBVIOUS
    <3> QED
      BY <2>2, <3>1, <3>2
  <2> QED
    BY <1>1, <2>1, <2>2, <2>3, <2>4 DEF AddInv, Added, FusedOf, KeepsPort
<1>3. CASE ~CycleReorderBuffer /\ ~VisitFused /\ ~SkipUop /\ ~AddNewUop
  <2>1. Visited' = Visited /\ InBuffer' = InBuffer /\ AddWork' = AddWork /\ KeepsPort
    BY <1>3, BorderStep, WorkWriters, StampWriters
  <2>2. phase' \in {"ready", "add"} => phase \in {"ready", "add"} /\ group' = group
    BY <1>3, GroupKept
  <2> QED
    BY <1>1, <2>1, <2>2 DEF AddInv, Added, FusedOf, KeepsPort
<1> QED
  BY <1>2, <1>3, AddVisit, AddAdvance

(* The list CheckDependingUopsExecuted puts a uop into.                    *)
LEMMA CheckedList ==
  ASSUME TypeOK, NEW u \in Uops, CheckDependingUopsExecuted(u),
         NEW K \in [WaitSlots -> Seq(Uops)], ~Holds(K, u),
         K[0] = nonReady, \A s \in Uops : K[s] = dependents[s]
  PROVE  \E s \in WaitSlots :
           /\ s >= 0
           /\ s > 0 => NeedsPort(s) /\ uop[s].exec = None
           /\ nonReady' = IF s = 0 THEN Append(K[0], u) ELSE K[0]
           /\ \A t \in Uops : dependents'[t] = IF t = s THEN Append(K[t], u) ELSE K[t]
<1>1. /\ {0, -1, -2} \subseteq WaitSlots /\ \A s \in Uops : s \in WaitSlots /\ s > 0
      /\ dependents \in [Uops -> Seq(Uops)] /\ stream \in DOMAIN Streams
      /\ DOMAIN K = WaitSlots
  BY ListsTyped, StampsTyped DEF TypeOK, SchedulerTypeOK, QueueTypeOK
<1>2. \A s \in WaitSlots : AppendNew(K[s], u) = Append(K[s], u)
  BY <1>1 DEF Holds, AppendNew
<1>3. CASE nonReady' = AppendNew(nonReady, u) /\ dependents' = dependents
  <2>1. 0 \in WaitSlots /\ \A t \in Uops : t # 0
    BY <1>1, ConstantsTyped
  <2> QED
    BY <1>2, <1>3, <2>1
<1>4. CASE \E i \in DOMAIN prog.uops[u].inputs :
             /\ WaitsFor(u, i) /\ nonReady' = nonReady
             /\ dependents' = [dependents EXCEPT ![prog.uops[u].inputs[i].uop] = AppendNew(@, u)]
  <2>1. PICK i \in DOMAIN prog.uops[u].inputs :
          /\ WaitsFor(u, i) /\ nonReady' = nonReady
          /\ dependents' = [dependents EXCEPT ![prog.uops[u].inputs[i].uop] = AppendNew(@, u)]
    BY <1>4
  <2> DEFINE s == prog.uops[u].inputs[i].uop
  <2>2. s \in Uops
    BY <1>1, UopTyped
  <2>3. uop[s].exec = None
    BY <2>1 DEF WaitsFor
  <2>4. NeedsPort(s)
    <3>1. WellFormed(prog)
      BY <1>1, ProgramsAssumption DEF Streams, prog
    <3> QED
      BY <3>1 DEF WellFormed, RefersBackwards, NeedsPort
  <2>5. \A t \in Uops : dependents'[t] = IF t = s THEN AppendNew(dependents[t], u) ELSE dependents[t]
    BY <1>1, <2>1, <2>2
  <2> HIDE DEF s
  <2>6. s \in WaitSlots /\ s > 0 /\ s # 0 /\ s >= 0
    BY <1>1, <2>2, ConstantsTyped
  <2>7. /\ s > 0 => NeedsPort(s) /\ uop[s].exec = None
        /\ nonReady' = IF s = 0 THEN Append(K[0], u) ELSE K[0]
    BY <2>1, <2>3, <2>4, <2>6
  <2>8. \A t \in Uops : dependents'[t] = IF t = s THEN Append(K[t], u) ELSE K[t]
    <3>1. AppendNew(dependents[s], u) = Append(K[s], u)
      BY <1>2, <2>2, <2>6
    <3> QED
      BY <2>5, <3>1
  <2> QED
    BY <2>6, <2>7, <2>8
<1> QED
  BY <1>3, <1>4 DEF CheckDependingUopsExecuted

LEMMA WaitListsNext ==
  /\ DOMAIN WaitLists' = WaitSlots
  /\ \A s \in WaitSlots : WaitLists'[s] =
       IF s > 0 THEN dependents'[s] ELSE IF s = 0 THEN nonReady'
       ELSE IF s = -1 THEN Waking' ELSE WaitWork'
BY DEF WaitLists

LEMMA WaitSlotCases ==
  \A s \in WaitSlots :
    s \in Int /\ ((s \in Uops /\ s > 0 /\ s # 0) \/ s = 0 \/ s = -1 \/ s = -2)
BY NumUopsAssumption DEF WaitSlots, Uops

(* One of the two lists next to the one of the loop becomes that list.     *)
LEMMA WaitMoved ==
  ASSUME NEW r \in {0, -1}, dependents' = dependents, NEW list,
         WaitWork' = list, WaitWork = <<>>, DOMAIN WaitLists = WaitSlots,
         WaitLists[-2] \o WaitLists[r] = list,
         nonReady' = IF r = 0 THEN <<>> ELSE nonReady,
         Waking' = IF r = -1 THEN <<>> ELSE Waking
  PROVE  /\ DOMAIN WaitLists' = WaitSlots
         /\ \A t \in WaitSlots : WaitLists'[t] =
              IF t = -2 THEN WaitLists[-2] \o WaitLists[r]
              ELSE IF t = r THEN <<>> ELSE WaitLists[t]
<1> SUFFICES ASSUME NEW t \in WaitSlots
             PROVE  WaitLists'[t] = IF t = -2 THEN WaitLists[-2] \o WaitLists[r]
                                    ELSE IF t = r THEN <<>> ELSE WaitLists[t]
  BY WaitListsNext
<1>1. \A s \in WaitSlots : WaitLists[s] =
        IF s > 0 THEN dependents[s] ELSE IF s = 0 THEN nonReady
        ELSE IF s = -1 THEN Waking ELSE WaitWork
  BY DEF WaitLists
<1>2. CASE t \in Uops /\ t > 0 /\ t # 0
  BY <1>1, <1>2, WaitListsNext
<1>3. CASE t = 0 \/ t = -1
  BY <1>1, <1>3, WaitListsNext
<1>4. CASE t = -2
  BY <1>4, WaitListsNext
<1> QED
  BY <1>2, <1>3, <1>4, WaitSlotCases

(* Two families with the same lists and the same waiting uops.             *)
LEMMA WaitFrame ==
  ASSUME TypeOK, WaitInv, [Next]_vars, KeepsPort, KeepsReady,
         UNCHANGED <<nonReady, dependents, Waking, WaitWork>>,
         \A u \in Uops : NeedsPort(u) => uop'[u].exec = uop[u].exec
  PROVE  WaitInv'
<1>1. WaitLists' = WaitLists
  BY DEF WaitLists
<1>2. \A u : NeedsPort(u)' <=> NeedsPort(u)
  BY StorageWriters
<1> QED
  BY <1>1, <1>2 DEF WaitInv, Added, KeepsPort, KeepsReady

LEMMA WaitAdd ==
  ASSUME TypeOK, StageInv, AddInv, WaitInv, [Next]_vars, AddNewUop
  PROVE  WaitInv'
<1> DEFINE u == Head(work)
<1>1. /\ u \in Uops /\ KeepsReady /\ KeepsExec /\ NeedsPort(u) /\ phase = "add" /\ work # <<>>
      /\ uop'[u].port # None /\ \A v \in Uops \ {u} : uop'[v] = uop[v]
  BY AddEffect
<1>2. ~Added(u) /\ uop[u].ready = None
  BY <1>1, HeadToAdd
<1>3. CheckDependingUopsExecuted(u) /\ Waking' = Waking /\ WaitWork' = WaitWork
  BY WorkWriters
     DEF AddNewUop, Current, EndPending, WakeDependent, BeginNonReady, MakeReady, StayNonReady,
         FinishPendingUop
<1> HIDE DEF u
<1>4. ~Holds(WaitLists, u)
  BY <1>1, <1>2 DEF WaitInv
<1>5. PICK s \in WaitSlots :
        /\ s >= 0
        /\ s > 0 => NeedsPort(s) /\ uop[s].exec = None
        /\ nonReady' = IF s = 0 THEN Append(WaitLists[0], u) ELSE WaitLists[0]
        /\ \A t \in Uops : dependents'[t] = IF t = s THEN Append(WaitLists[t], u) ELSE WaitLists[t]
  BY <1>1, <1>3, <1>4, ListsTyped, CheckedList
<1>6. /\ DOMAIN WaitLists' = WaitSlots
      /\ \A t \in WaitSlots : WaitLists'[t] = IF t = s THEN Append(WaitLists[t], u) ELSE WaitLists[t]
  <2> SUFFICES ASSUME NEW t \in WaitSlots
               PROVE  WaitLists'[t] = IF t = s THEN Append(WaitLists[t], u) ELSE WaitLists[t]
    BY WaitListsNext
  <2>1. CASE t \in Uops /\ t > 0
    <3>1. WaitLists'[t] = dependents'[t]
      BY <2>1, WaitListsNext
    <3> QED
      BY <1>5, <2>1, <3>1
  <2>2. CASE t = 0
    BY <1>5, <2>2, ListsTyped, WaitListsNext
  <2>3. CASE t = -1
    BY <1>3, <1>5, <2>3, ListsTyped, WaitListsNext, WaitSlotCases
  <2>4. CASE t = -2
    BY <1>3, <1>5, <2>4, ListsTyped, WaitListsNext, WaitSlotCases
  <2> QED
    BY <2>1, <2>2, <2>3, <2>4, WaitSlotCases
<1>7. /\ Separate(WaitLists')
      /\ \A v : Holds(WaitLists', v) <=> Holds(WaitLists, v) \/ v = u
  <2>1. Listed(WaitLists) /\ Pushed(WaitLists, WaitLists', s, u)
    BY <1>1, <1>5, <1>6, ListsTyped DEF Pushed
  <2> QED
    BY <1>4, <2>1, PushedLists DEF WaitInv
<1>8. \A v \in Uops : Holds(WaitLists', v) <=> Added(v)' /\ uop'[v].ready = None
  BY <1>1, <1>2, <1>7 DEF WaitInv, Added, KeepsReady
<1>9. \A v \in Uops : dependents'[v] # <<>> => NeedsPort(v)' /\ uop'[v].exec = None
  <2> SUFFICES ASSUME NEW v \in Uops, dependents'[v] # <<>>
               PROVE  NeedsPort(v) /\ uop[v].exec = None
    BY <1>1, StorageWriters DEF KeepsExec
  <2>1. CASE v = s
    BY <1>5, <2>1, ListsTyped
  <2>2. CASE v # s
    BY <1>5, <2>2, ListsTyped DEF WaitInv
  <2> QED
    BY <2>1, <2>2
<1> QED
  BY <1>7, <1>8, <1>9 DEF WaitInv

LEMMA WaitFinish ==
  ASSUME TypeOK, StageInv, WaitInv, PendInv, [Next]_vars, FinishPendingUop
  PROVE  WaitInv'
<1> DEFINE u == Head(work)
<1>1. /\ u \in Uops /\ KeepsPort /\ KeepsReady /\ phase = "pending" /\ phase' = "pending"
      /\ work # <<>> /\ \A v \in Uops \ {u} : uop'[v] = uop[v]
  BY FinishEffect
<1>2. /\ wake' = wake \o dependents[u] /\ nonReady' = nonReady
      /\ dependents' = [dependents EXCEPT ![u] = <<>>]
  BY DEF FinishPendingUop, WokenBy, Current
<1>3. /\ Waking' = Waking \o dependents[u] /\ WaitWork' = WaitWork
      /\ \A v \in Uops : dependents'[v] = IF v = u THEN <<>> ELSE dependents[v]
  BY <1>1, <1>2 DEF Waking, WaitWork, WorkIn, TypeOK, SchedulerTypeOK, QueueTypeOK
<1> HIDE DEF u
<1>4. /\ DOMAIN WaitLists' = WaitSlots
      /\ \A t \in WaitSlots : WaitLists'[t] =
           IF t = -1 THEN WaitLists[-1] \o WaitLists[u] ELSE IF t = u THEN <<>> ELSE WaitLists[t]
  <2> SUFFICES ASSUME NEW t \in WaitSlots
               PROVE  WaitLists'[t] = IF t = -1 THEN WaitLists[-1] \o WaitLists[u]
                                      ELSE IF t = u THEN <<>> ELSE WaitLists[t]
    BY WaitListsNext
  <2>1. u > 0 /\ u \in Int /\ WaitLists[u] = dependents[u]
    BY <1>1, ListsTyped, WaitSlotCases
  <2>2. CASE t \in Uops /\ t > 0
    <3>1. WaitLists'[t] = dependents'[t] /\ WaitLists[t] = dependents[t]
      BY <2>2, WaitListsNext, ListsTyped
    <3> QED
      BY <1>3, <2>1, <2>2, <3>1
  <2>3. CASE t = 0
    BY <1>2, <2>1, <2>3, ListsTyped, WaitListsNext
  <2>4. CASE t = -1
    BY <1>3, <2>1, <2>4, ListsTyped, WaitListsNext
  <2>5. CASE t = -2
    BY <1>3, <2>1, <2>5, ListsTyped, WaitListsNext
  <2> QED
    BY <2>2, <2>3, <2>4, <2>5, WaitSlotCases
<1>5. -1 \in WaitSlots /\ u \in WaitSlots /\ -1 # u
  BY <1>1, ListsTyped
<1>6. /\ Separate(WaitLists')
      /\ \A v : Holds(WaitLists', v) <=> Holds(WaitLists, v)
  <2>1. Listed(WaitLists) /\ Joined(WaitLists, WaitLists', -1, u)
    BY <1>4, <1>5, ListsTyped DEF Joined
  <2> QED
    BY <2>1, JoinedLists DEF WaitInv
<1>7. \A v \in Uops : dependents'[v] # <<>> => NeedsPort(v)' /\ uop'[v].exec = None
  BY <1>1, <1>3, StorageWriters DEF WaitInv
<1> QED
  BY <1>1, <1>6, <1>7 DEF WaitInv, Added, KeepsPort, KeepsReady

(* A loop takes over the list it goes through.                             *)
LEMMA WaitTakeOver ==
  ASSUME TypeOK, WaitInv, [Next]_vars, EndPending \/ BeginNonReady
  PROVE  WaitInv'
<1>1. KeepsPort /\ KeepsReady /\ KeepsExec
  BY StampWriters
     DEF EndPending, BeginNonReady, AddNewUop, MakeReady, DispatchUop, FinishPendingUop,
         CycleReorderBuffer
<1> DEFINE r == IF EndPending THEN -1 ELSE 0
<1>2. /\ DOMAIN WaitLists' = WaitSlots
      /\ \A t \in WaitSlots : WaitLists'[t] =
           IF t = -2 THEN WaitLists[-2] \o WaitLists[r] ELSE IF t = r THEN <<>> ELSE WaitLists[t]
  <2>1. CASE EndPending
    <3>1. /\ WaitWork = <<>> /\ WaitWork' = wake /\ Waking = wake /\ Waking' = <<>>
          /\ nonReady' = nonReady /\ dependents' = dependents
      BY <2>1 DEF EndPending, EnterLoop, WaitWork, WorkIn, Waking, schedulerVars, queueVars
    <3>2. wake \in Seq(Uops) /\ <<>> \o wake = wake
      BY ConcatEmptySeq DEF TypeOK, SchedulerTypeOK, LoopTypeOK
    <3>3. r = -1 /\ WaitLists[-2] \o WaitLists[r] = wake
      BY <2>1, <3>1, <3>2, ListsTyped
    <3> HIDE DEF r
    <3>4. /\ r \in {0, -1}
          /\ nonReady' = IF r = 0 THEN <<>> ELSE nonReady
          /\ Waking' = IF r = -1 THEN <<>> ELSE Waking
      BY <3>1, <3>3
    <3> QED
      BY <3>1, <3>3, <3>4, ListsTyped, WaitMoved
  <2>2. CASE BeginNonReady /\ ~EndPending
    <3>1. /\ WaitWork = <<>> /\ WaitWork' = nonReady /\ Waking = <<>> /\ Waking' = <<>>
          /\ nonReady' = <<>> /\ dependents' = dependents
      BY <2>2 DEF BeginNonReady, EnterLoop, WaitWork, WorkIn, Waking
    <3>2. nonReady \in Seq(Uops) /\ <<>> \o nonReady = nonReady
      BY ConcatEmptySeq DEF TypeOK, SchedulerTypeOK, QueueTypeOK
    <3>3. r = 0 /\ WaitLists[-2] \o WaitLists[r] = nonReady
      BY <2>2, <3>1, <3>2, ListsTyped
    <3> HIDE DEF r
    <3>4. /\ r \in {0, -1}
          /\ nonReady' = IF r = 0 THEN <<>> ELSE nonReady
          /\ Waking' = IF r = -1 THEN <<>> ELSE Waking
      BY <3>1, <3>3
    <3> QED
      BY <3>1, <3>3, <3>4, ListsTyped, WaitMoved
  <2> QED
    BY <2>1, <2>2
<1>3. -2 \in WaitSlots /\ r \in WaitSlots /\ -2 # r
  BY ListsTyped
<1> HIDE DEF r
<1>4. /\ Separate(WaitLists')
      /\ \A v : Holds(WaitLists', v) <=> Holds(WaitLists, v)
  <2>1. Listed(WaitLists) /\ Joined(WaitLists, WaitLists', -2, r)
    BY <1>2, <1>3, ListsTyped DEF Joined
  <2> QED
    BY <2>1, JoinedLists DEF WaitInv
<1>5. dependents' = dependents /\ \A v : NeedsPort(v)' <=> NeedsPort(v)
  BY StorageWriters DEF EndPending, BeginNonReady, schedulerVars, queueVars
<1> QED
  BY <1>1, <1>4, <1>5 DEF WaitInv, Added, KeepsPort, KeepsReady, KeepsExec

(* A loop checks the uop at its head: the uop leaves the list and becomes  *)
(* ready or is put into another one.                                       *)
LEMMA WaitCheck ==
  ASSUME TypeOK, StageInv, WaitInv, [Next]_vars, WakeDependent \/ MakeReady \/ StayNonReady
  PROVE  WaitInv'
<1> DEFINE u == Head(work)
<1>1. /\ phase \in {"wake", "nonReady"} /\ phase' = phase /\ work # <<>> /\ work' = Tail(work)
      /\ Waking = <<>> /\ Waking' = <<>>
  BY DEF WakeDependent, MakeReady, StayNonReady, Advance, Waking
<1>2. u \in Uops /\ Added(u) /\ uop[u].ready = None
  BY <1>1, HeadToWait
<1>3. KeepsPort /\ KeepsExec /\ \A v : NeedsPort(v)' <=> NeedsPort(v)
  BY <1>1, StampWriters, StorageWriters
     DEF AddNewUop, FinishPendingUop, CycleReorderBuffer
<1>4. WaitWork = work /\ WaitWork' = Tail(work) /\ work \in Seq(Uops)
  BY <1>1, StampsTyped DEF WaitWork, WorkIn
<1> DEFINE K == [WaitLists EXCEPT ![-2] = Tail(work)]
<1>5. /\ K \in [WaitSlots -> Seq(Uops)] /\ DOMAIN K = WaitSlots
      /\ \A t \in WaitSlots : K[t] = IF t = -2 THEN Tail(WaitLists[t]) ELSE WaitLists[t]
      /\ -2 \in WaitSlots /\ WaitLists[-2] = work
  BY <1>1, <1>4, ListsTyped, HeadTailProperties
<1>6. K[0] = nonReady /\ K[-1] = Waking /\ K[-2] = Tail(work) /\ \A s \in Uops : K[s] = dependents[s]
  BY <1>4, <1>5, ListsTyped
<1> HIDE DEF K
<1>7. /\ \A v : Holds(K, v) <=> Holds(WaitLists, v) /\ v # u
      /\ Separate(K)
  <2>1. Listed(WaitLists) /\ Popped(WaitLists, K, -2) /\ Head(WaitLists[-2]) = u
    BY <1>1, <1>5, ListsTyped DEF Popped
  <2> QED
    BY <2>1, PoppedLists DEF WaitInv
<1>8. CASE MakeReady
  <2>1. uop'[u].ready # None /\ \A v \in Uops \ {u} : uop'[v] = uop[v]
    BY <1>8, ReadyEffect DEF None
  <2>2. nonReady' = nonReady /\ dependents' = dependents
    BY <1>8 DEF MakeReady
  <2>3. DOMAIN WaitLists' = WaitSlots /\ \A t \in WaitSlots : WaitLists'[t] = K[t]
    <3> SUFFICES ASSUME NEW t \in WaitSlots
                 PROVE  WaitLists'[t] = K[t]
      BY WaitListsNext
    <3>1. CASE t \in Uops /\ t > 0
      BY <1>6, <2>2, <3>1, WaitListsNext
    <3>2. CASE t = 0
      BY <1>6, <2>2, <3>2, WaitListsNext
    <3>3. CASE t = -1
      BY <1>1, <1>6, <3>3, WaitListsNext
    <3>4. CASE t = -2
      <4>1. WaitLists'[t] = WaitWork'
        BY <3>4, WaitListsNext
      <4> QED
        BY <1>4, <1>6, <3>4, <4>1
    <3> QED
      BY <3>1, <3>2, <3>3, <3>4, WaitSlotCases
  <2>4. Separate(WaitLists') /\ \A v : Holds(WaitLists', v) <=> Holds(K, v)
    BY <1>5, <1>7, <2>3 DEF Separate, Holds
  <2> QED
    BY <1>2, <1>3, <1>7, <2>1, <2>2, <2>4 DEF WaitInv, Added, KeepsPort, KeepsExec
<1>9. CASE WakeDependent \/ StayNonReady
  <2>1. KeepsReady
    BY <1>9, StampWriters, ReadyEffect DEF WakeDependent, StayNonReady, storageVars, KeepsReady
  <2>2. ~Holds(K, u)
    BY <1>7
  <2>3. PICK s \in WaitSlots :
          /\ s >= 0
          /\ s > 0 => NeedsPort(s) /\ uop[s].exec = None
          /\ nonReady' = IF s = 0 THEN Append(K[0], u) ELSE K[0]
          /\ \A t \in Uops : dependents'[t] = IF t = s THEN Append(K[t], u) ELSE K[t]
    <3>1. CASE WakeDependent
      <4>1. CheckDependingUopsExecuted(u)
        BY <3>1 DEF WakeDependent, Current
      <4> HIDE DEF u
      <4> QED
        BY <1>2, <1>5, <1>6, <2>2, <4>1, CheckedList
    <3>2. CASE StayNonReady
      <4>1. nonReady' = Append(nonReady, u) /\ dependents' = dependents
        BY <1>2, <3>2 DEF StayNonReady, Current
      <4>2. 0 \in WaitSlots /\ \A t \in Uops : t # 0
        BY ListsTyped
      <4> QED
        BY <1>6, <4>1, <4>2
    <3> QED
      BY <1>9, <3>1, <3>2
  <2> HIDE DEF u
  <2>4. /\ DOMAIN WaitLists' = WaitSlots
        /\ \A t \in WaitSlots : WaitLists'[t] = IF t = s THEN Append(K[t], u) ELSE K[t]
    <3> SUFFICES ASSUME NEW t \in WaitSlots
                 PROVE  WaitLists'[t] = IF t = s THEN Append(K[t], u) ELSE K[t]
      BY WaitListsNext
    <3>1. CASE t \in Uops /\ t > 0
      <4>1. WaitLists'[t] = dependents'[t]
        BY <3>1, WaitListsNext
      <4> QED
        BY <2>3, <3>1, <4>1
    <3>2. CASE t = 0
      BY <1>6, <2>3, <3>2, WaitListsNext
    <3>3. s # -1 /\ s # -2
      BY <2>3, WaitSlotCases
    <3>4. CASE t = -1
      BY <1>1, <1>6, <3>3, <3>4, WaitListsNext
    <3>5. CASE t = -2
      <4>1. WaitLists'[t] = WaitWork' /\ K[t] = Tail(work) /\ t # s
        BY <1>6, <3>3, <3>5, WaitListsNext
      <4> QED
        BY <1>4, <4>1
    <3> QED
      BY <3>1, <3>2, <3>4, <3>5, WaitSlotCases
  <2>5. /\ Separate(WaitLists')
        /\ \A v : Holds(WaitLists', v) <=> Holds(K, v) \/ v = u
    <3>1. Listed(K) /\ Pushed(K, WaitLists', s, u)
      BY <1>2, <1>5, <2>3, <2>4 DEF Listed, Pushed
    <3> QED
      BY <1>7, <2>2, <3>1, PushedLists
  <2>6. \A v \in Uops : Holds(WaitLists', v) <=> Added(v)' /\ uop'[v].ready = None
    BY <1>2, <1>3, <1>7, <2>1, <2>5 DEF WaitInv, Added, KeepsPort, KeepsReady
  <2>7. \A v \in Uops : dependents'[v] # <<>> => NeedsPort(v)' /\ uop'[v].exec = None
    <3> SUFFICES ASSUME NEW v \in Uops, dependents'[v] # <<>>
                 PROVE  NeedsPort(v) /\ uop[v].exec = None
      BY <1>3 DEF KeepsExec
    <3>1. CASE v = s
      BY <2>3, <3>1, ListsTyped
    <3>2. CASE v # s
      BY <1>6, <2>3, <3>2 DEF WaitInv
    <3> QED
      BY <3>1, <3>2
  <2> QED
    BY <2>5, <2>6, <2>7 DEF WaitInv
<1> QED
  BY <1>8, <1>9

LEMMA WaitStep ==
  ASSUME TypeOK, OrderInv, PlaceInv, [Next]_vars
  PROVE  WaitInv'
<1>1. StageInv /\ AddInv /\ WaitInv /\ PendInv
  BY DEF PlaceInv
<1>2. CASE /\ ~AddNewUop /\ ~FinishPendingUop /\ ~EndPending /\ ~BeginNonReady
           /\ ~WakeDependent /\ ~MakeReady /\ ~StayNonReady
  <2>1. KeepsPort /\ KeepsReady /\ UNCHANGED <<nonReady, dependents, Waking, WaitWork>>
    BY <1>2, StampWriters, QueueWriters, WorkWriters
  <2>2. \A u \in Uops : NeedsPort(u) => uop'[u].exec = uop[u].exec
    BY <1>2, StampWriters, BufferEffect DEF KeepsExec
  <2> QED
    BY <1>1, <2>1, <2>2, WaitFrame
<1> QED
  BY <1>1, <1>2, WaitAdd, WaitFinish, WaitTakeOver, WaitCheck

LEMMA PendListsNext ==
  /\ DOMAIN PendLists' = {0, 1}
  /\ PendLists'[0] = pending' /\ PendLists'[1] = PendWork'
BY DEF PendLists

LEMMA PendDispatch ==
  ASSUME TypeOK, StageInv, ReadyInv, PendInv, [Next]_vars, DispatchUop
  PROVE  PendInv'
<1>1. KeepsExec /\ phase = "dispatch" /\ PendWork' = PendWork
  BY DispatchEffect, WorkWriters DEF EndDispatch, FinishPendingUop, KeepPendingUop, DispatchUop
<1>2. PICK q \in Queues, u \in Uops :
        /\ u \in readyQueue[q] /\ uop'[u].disp = clock
        /\ \A v \in Uops \ {u} : uop'[v] = uop[v]
        /\ pending' = AppendNew(pending, u)
  BY DispatchEffect
<1>3. uop[u].disp = None /\ uop[u].exec = None /\ clock # None
  BY <1>1, <1>2, QueuedStage, StampsTyped
<1>4. ~Holds(PendLists, u)
  BY <1>2, <1>3 DEF PendInv
<1>5. pending' = Append(pending, u)
  <2>1. ~Contains(pending, u)
    BY <1>4, ListsTyped DEF Holds
  <2> QED
    BY <1>2, <2>1 DEF AppendNew
<1>6. Listed(PendLists) /\ Pushed(PendLists, PendLists', 0, u)
  BY <1>1, <1>2, <1>5, ListsTyped, PendListsNext DEF Pushed
<1>7. Separate(PendLists') /\ \A v : Holds(PendLists', v) <=> Holds(PendLists, v) \/ v = u
  BY <1>4, <1>6, PushedLists DEF PendInv
<1> QED
  BY <1>1, <1>2, <1>3, <1>7 DEF PendInv, KeepsExec

LEMMA PendTakeOver ==
  ASSUME TypeOK, PendInv, [Next]_vars, EndDispatch
  PROVE  PendInv'
<1>1. KeepsDisp /\ KeepsExec
  BY StampWriters DEF EndDispatch, EnterLoop, DispatchUop, FinishPendingUop, CycleReorderBuffer
<1>2. PendWork = <<>> /\ PendWork' = pending /\ pending' = <<>>
  BY DEF EndDispatch, EnterLoop, PendWork, WorkIn
<1>3. <<>> \o pending = pending
  BY ListsTyped, ConcatEmptySeq
<1>4. Listed(PendLists) /\ Joined(PendLists, PendLists', 1, 0)
  <2>1. PendLists'[1] = PendLists[1] \o PendLists[0] /\ PendLists'[0] = <<>>
    BY <1>2, <1>3, ListsTyped, PendListsNext
  <2> QED
    BY <2>1, ListsTyped, PendListsNext DEF Joined
<1>5. Separate(PendLists') /\ \A v : Holds(PendLists', v) <=> Holds(PendLists, v)
  BY <1>4, JoinedLists DEF PendInv
<1> QED
  BY <1>1, <1>5 DEF PendInv, KeepsDisp, KeepsExec

(* The uop at the head of the loop gets its execution cycle or stays.      *)
LEMMA PendVisit ==
  ASSUME TypeOK, StageInv, PendInv, [Next]_vars, FinishPendingUop \/ KeepPendingUop
  PROVE  PendInv'
<1> DEFINE u == Head(work)
<1>1. phase = "pending" /\ phase' = "pending" /\ work # <<>> /\ work' = Tail(work)
  BY DEF FinishPendingUop, KeepPendingUop, Advance
<1>2. u \in Uops /\ uop[u].disp # None /\ uop[u].exec = None
  BY <1>1, HeadToFinish
<1>3. PendWork = work /\ PendWork' = Tail(work) /\ work \in Seq(Uops)
  BY <1>1, StampsTyped DEF PendWork, WorkIn
<1>4. KeepsDisp
  BY <1>1, StampWriters DEF DispatchUop
<1> DEFINE K == [s \in {0, 1} |-> IF s = 0 THEN pending ELSE Tail(work)]
<1>5. /\ K[0] = pending /\ K[1] = Tail(work) /\ DOMAIN K = {0, 1}
      /\ PendLists[1] = work /\ Listed(PendLists)
  BY <1>3, ListsTyped
<1>6. Listed(K) /\ Popped(PendLists, K, 1)
  <2> HIDE DEF K
  <2>1. Tail(work) \in Seq(Uops)
    BY <1>1, <1>3, HeadTailProperties
  <2> QED
    BY <1>1, <1>5, <2>1, ListsTyped DEF Listed, Popped
<1> HIDE DEF K
<1>7. Separate(K) /\ \A v : Holds(K, v) <=> Holds(PendLists, v) /\ v # u
  BY <1>5, <1>6, PoppedLists DEF PendInv
<1>8. CASE FinishPendingUop
  <2>1. uop'[u].exec # None /\ \A v \in Uops \ {u} : uop'[v] = uop[v]
    BY <1>8, FinishEffect
  <2>2. pending' = pending
    BY <1>8 DEF FinishPendingUop
  <2>3. \A s \in {0, 1} : PendLists'[s] = K[s]
    BY <1>3, <1>5, <2>2, PendListsNext
  <2>4. Separate(PendLists') /\ \A v : Holds(PendLists', v) <=> Holds(K, v)
    BY <1>5, <1>7, <2>3, PendListsNext DEF Separate, Holds
  <2> QED
    BY <1>2, <1>4, <1>7, <2>1, <2>4 DEF PendInv, KeepsDisp
<1>9. CASE KeepPendingUop
  <2>1. KeepsExec
    BY <1>9 DEF KeepPendingUop, storageVars, KeepsExec
  <2>2. pending' = Append(pending, u)
    BY <1>9 DEF KeepPendingUop, Current
  <2> HIDE DEF u
  <2>3. Pushed(K, PendLists', 0, u)
    BY <1>2, <1>3, <1>5, <2>2, PendListsNext DEF Pushed
  <2>4. Separate(PendLists') /\ \A v : Holds(PendLists', v) <=> Holds(K, v) \/ v = u
    BY <1>6, <1>7, <2>3, PushedLists
  <2> QED
    BY <1>2, <1>4, <1>7, <2>1, <2>4 DEF PendInv, KeepsDisp, KeepsExec
<1> QED
  BY <1>8, <1>9

LEMMA PendStep ==
  ASSUME TypeOK, OrderInv, PlaceInv, [Next]_vars
  PROVE  PendInv'
<1>1. StageInv /\ ReadyInv /\ PendInv
  BY DEF PlaceInv
<1>2. CASE ~DispatchUop /\ ~EndDispatch /\ ~FinishPendingUop /\ ~KeepPendingUop
  <2>1. KeepsDisp /\ pending' = pending /\ PendWork' = PendWork
    BY <1>2, StampWriters, QueueWriters, WorkWriters
  <2>2. PendLists' = PendLists
    BY <2>1 DEF PendLists
  <2>3. \A u \in Uops : NeedsPort(u) => uop'[u].exec = uop[u].exec
    BY <1>2, StampWriters, BufferEffect DEF KeepsExec
  <2>4. \A u \in Uops : ~NeedsPort(u) => uop[u].disp = None
    BY <1>1 DEF StageInv
  <2> QED
    BY <1>1, <2>1, <2>2, <2>3, <2>4 DEF PendInv, KeepsDisp
<1> QED
  BY <1>1, <1>2, PendDispatch, PendTakeOver, PendVisit

(* A cycle becomes due when the scheduler starts to work on it.            *)
LEMMA DueFrame ==
  ASSUME [Next]_vars, ~Tick, ~CycleReorderBuffer
  PROVE  /\ clock' = clock
         /\ phase' \in {"issue", "rob"} <=> phase \in {"issue", "rob"}
         /\ \A c : Due(c)' <=> Due(c)
<1>1. clock' = clock
  BY StorageWriters
<1>2. phase' \in {"issue", "rob"} <=> phase \in {"issue", "rob"}
  <2>1. CASE Quiet
    BY <2>1, QuietFrame
  <2>2. CASE \/ MoveReadyUop \/ EndMoveReady \/ VisitFused \/ SkipUop \/ AddNewUop
             \/ BeginDispatch \/ DispatchUop \/ IdlePort \/ EndDispatch
    BY <2>2
       DEF MoveReadyUop, EndMoveReady, VisitFused, SkipUop, AddNewUop, BeginDispatch, DispatchUop,
           IdlePort, EndDispatch, EnterLoop
  <2>3. CASE \/ FinishPendingUop \/ KeepPendingUop \/ EndPending \/ WakeDependent
             \/ BeginNonReady \/ MakeReady \/ StayNonReady \/ EndNonReady \/ EndSchedulerCycle
    BY <2>3
       DEF FinishPendingUop, KeepPendingUop, EndPending, WakeDependent, BeginNonReady, MakeReady,
           StayNonReady, EndNonReady, EndSchedulerCycle, EnterLoop
  <2> QED
    BY <2>1, <2>2, <2>3, Steps DEF SchedulerNext
<1> QED
  BY <1>1, <1>2 DEF Due

LEMMA ReadyTyped ==
  ASSUME TypeOK
  PROVE  /\ DOMAIN readyInCycle \subseteq Nat
         /\ \A c \in DOMAIN readyInCycle : readyInCycle[c] \in Seq(Uops) /\ c # None
         /\ \A c \in DOMAIN readyInCycle : \A i \in DOMAIN readyInCycle[c] : readyInCycle[c][i] \in Uops
         /\ readyQueue \in [Queues -> SUBSET Uops]
         /\ \A q \in Queues : readyQueue[q] \subseteq Uops
         /\ \A i \in DOMAIN ReadyWork : ReadyWork[i] \in Uops
<1>1. /\ DOMAIN readyInCycle \subseteq Nat /\ readyQueue \in [Queues -> SUBSET Uops]
      /\ \A c \in DOMAIN readyInCycle : readyInCycle[c] \in Seq(Uops)
  BY DEF TypeOK, SchedulerTypeOK, QueueTypeOK
<1>2. \A c \in DOMAIN readyInCycle : c # None
  BY <1>1 DEF None
<1>3. \A c \in DOMAIN readyInCycle : \A i \in DOMAIN readyInCycle[c] : readyInCycle[c][i] \in Uops
  BY <1>1, ElementOfSeq, LenProperties
<1>4. \A i \in DOMAIN ReadyWork : ReadyWork[i] \in Uops
  BY ListsTyped, ElementOfSeq, LenProperties
<1> QED
  BY <1>1, <1>2, <1>3, <1>4

LEMMA QueueOfTyped ==
  ASSUME TypeOK, StageInv, NEW u \in Uops, uop[u].ready # None
  PROVE  QueueOf(u) \in Queues
<1>1. uop[u].port \in prog.uops[u].ports
  BY DEF StageInv
<1>2. uop[u].port \in Ports
  BY <1>1, StampsTyped, UopTyped
<1> QED
  BY <1>2 DEF QueueOf, Queues

(* The queues and the stamps of the ready uops are left alone.             *)
LEMMA ReadyFrame ==
  ASSUME TypeOK, ReadyInv, [Next]_vars, ~Tick, ~CycleReorderBuffer, KeepsReady, KeepsDisp,
         UNCHANGED <<readyQueue, readyInCycle, ReadyWork>>,
         \A u \in Uops : uop[u].ready # None => uop'[u].port = uop[u].port
  PROVE  ReadyInv'
<1> SUFFICES ASSUME phase' # "done"
             PROVE  ReadyInv'
  BY DEF ReadyInv
<1>1. phase # "done"
  BY DEF Next, Done, vars, CycleScheduler, SchedulerNext, IssueLam, IssueMerges, EndIssue, Deliver,
         Stall, NoFill, Stop, MoveReadyUop, EndMoveReady, VisitFused, SkipUop, AddNewUop,
         BeginDispatch, DispatchUop, IdlePort, EndDispatch, FinishPendingUop, KeepPendingUop,
         EndPending, WakeDependent, BeginNonReady, MakeReady, StayNonReady, EndNonReady,
         EndSchedulerCycle, loopVars
<1>2. /\ clock' = clock /\ prog' = prog /\ \A c : Due(c)' <=> Due(c)
  BY DueFrame, StorageWriters
<1>3. \A u \in Uops : /\ uop'[u].ready = uop[u].ready /\ uop'[u].disp = uop[u].disp
                      /\ uop[u].ready # None => QueueOf(u)' = QueueOf(u)
  BY <1>2 DEF KeepsReady, KeepsDisp, QueueOf
<1>4. /\ \A c \in DOMAIN readyInCycle : ~Due(c)'
      /\ \A c \in DOMAIN readyInCycle : \A i \in DOMAIN readyInCycle[c] :
           uop'[readyInCycle[c][i]].ready = c /\ uop'[readyInCycle[c][i]].disp = None
      /\ \A i \in DOMAIN ReadyWork :
           uop'[ReadyWork[i]].ready = clock /\ uop'[ReadyWork[i]].disp = None
  BY <1>1, <1>2, <1>3, ReadyTyped DEF ReadyInv
<1>5. \A q \in Queues : \A u \in readyQueue[q] :
        /\ q = QueueOf(u)' /\ uop'[u].ready # None /\ Due(uop[u].ready)'
        /\ uop'[u].disp = None
  BY <1>1, <1>2, <1>3, ReadyTyped DEF ReadyInv
<1>6. \A u \in Uops : uop'[u].ready # None /\ uop'[u].disp = None =>
        IF Due(uop[u].ready)'
        THEN u \in readyQueue[QueueOf(u)'] \/ Contains(ReadyWork, u)
        ELSE uop[u].ready \in DOMAIN readyInCycle /\ Contains(readyInCycle[uop[u].ready], u)
  BY <1>1, <1>2, <1>3 DEF ReadyInv
<1> QED
  BY <1>2, <1>3, <1>4, <1>5, <1>6 DEF ReadyInv

(* The cycle's list of ready uops becomes the list of the first loop.      *)
LEMMA ReadyBuffer ==
  ASSUME TypeOK, ReadyInv, [Next]_vars, CycleReorderBuffer
  PROVE  ReadyInv'
<1>1. /\ phase = "rob" /\ phase' = "ready" /\ clock' = clock /\ prog' = prog
      /\ KeepsPort /\ KeepsReady /\ KeepsDisp
  BY BufferEffect, StorageWriters
<1>2. /\ readyQueue' = readyQueue
      /\ readyInCycle' = [c \in DOMAIN readyInCycle \ {clock} |-> readyInCycle[c]]
      /\ ReadyWork' = IF clock \in DOMAIN readyInCycle THEN readyInCycle[clock] ELSE <<>>
  BY <1>1 DEF CycleReorderBuffer, BeginMoveReady, EnterLoop, ReadyWork, WorkIn
<1>3. /\ \A c : Due(c) <=> c < clock
      /\ \A c : Due(c)' <=> c < clock \/ c = clock
  BY <1>1 DEF Due
<1>4. ReadyWork = <<>> /\ \A u \in Uops : ~Contains(ReadyWork, u)
  <2>1. ReadyWork = <<>>
    BY <1>1 DEF ReadyWork, WorkIn
  <2>2. DOMAIN <<>> = {}
    BY EmptySeq, LenProperties
  <2> QED
    BY <2>1, <2>2 DEF Contains
<1>5. \A u \in Uops : /\ uop'[u].ready = uop[u].ready /\ uop'[u].disp = uop[u].disp
                      /\ QueueOf(u)' = QueueOf(u)
  BY <1>1 DEF KeepsPort, KeepsReady, KeepsDisp, QueueOf
<1>6. \A c \in DOMAIN readyInCycle' :
        ~Due(c)' /\ c # clock /\ c \in DOMAIN readyInCycle /\ readyInCycle'[c] = readyInCycle[c]
  BY <1>1, <1>2, <1>3 DEF ReadyInv
<1>7. /\ \A c \in DOMAIN readyInCycle' : \A i \in DOMAIN readyInCycle'[c] :
           uop'[readyInCycle'[c][i]].ready = c /\ uop'[readyInCycle'[c][i]].disp = None
      /\ \A i \in DOMAIN ReadyWork' :
           uop'[(ReadyWork')[i]].ready = clock /\ uop'[(ReadyWork')[i]].disp = None
  <2>1. \A c \in DOMAIN readyInCycle : \A i \in DOMAIN readyInCycle[c] :
          /\ readyInCycle[c][i] \in Uops
          /\ uop[readyInCycle[c][i]].ready = c /\ uop[readyInCycle[c][i]].disp = None
    BY <1>1, ReadyTyped DEF ReadyInv
  <2>2. \A c \in DOMAIN readyInCycle' : \A i \in DOMAIN readyInCycle'[c] :
           uop'[readyInCycle'[c][i]].ready = c /\ uop'[readyInCycle'[c][i]].disp = None
    BY <1>5, <1>6, <2>1
  <2>3. CASE clock \in DOMAIN readyInCycle
    BY <1>2, <1>5, <2>1, <2>2, <2>3
  <2>4. CASE clock \notin DOMAIN readyInCycle
    <3>1. DOMAIN ReadyWork' = {}
      BY <1>2, <2>4, EmptySeq, LenProperties
    <3> QED
      BY <2>2, <3>1
  <2> QED
    BY <2>3, <2>4
<1>8. \A q \in Queues : \A u \in readyQueue[q] :
        /\ q = QueueOf(u)' /\ uop'[u].ready # None /\ Due(uop[u].ready)'
        /\ uop'[u].disp = None
  BY <1>1, <1>3, <1>5, ReadyTyped DEF ReadyInv
<1>9. ASSUME NEW u \in Uops, uop[u].ready # None, uop[u].disp = None
      PROVE  IF Due(uop[u].ready)'
             THEN u \in readyQueue[QueueOf(u)] \/ Contains(ReadyWork', u)
             ELSE /\ uop[u].ready \in DOMAIN readyInCycle'
                  /\ Contains((readyInCycle')[uop[u].ready], u)
  <2>1. CASE uop[u].ready < clock
    BY <1>1, <1>3, <1>4, <1>5, <1>9, <2>1 DEF ReadyInv
  <2>2. CASE ~(uop[u].ready < clock)
    <3>1. uop[u].ready \in DOMAIN readyInCycle /\ Contains(readyInCycle[uop[u].ready], u)
      BY <1>1, <1>3, <1>9, <2>2 DEF ReadyInv
    <3>2. CASE uop[u].ready = clock
      BY <1>2, <1>3, <1>5, <3>1, <3>2
    <3>3. CASE uop[u].ready # clock
      BY <1>2, <1>3, <1>5, <2>2, <3>1, <3>3
    <3> QED
      BY <3>2, <3>3
  <2> QED
    BY <2>1, <2>2
<1>10. \A u \in Uops : uop'[u].ready # None /\ uop'[u].disp = None =>
         IF Due(uop[u].ready)'
         THEN u \in (readyQueue')[QueueOf(u)'] \/ Contains(ReadyWork', u)
         ELSE /\ uop'[u].ready \in DOMAIN readyInCycle'
              /\ Contains((readyInCycle')[uop'[u].ready], u)
  <2> TAKE u \in Uops
  <2>1. /\ uop'[u].ready = uop[u].ready /\ uop'[u].disp = uop[u].disp
        /\ QueueOf(u)' = QueueOf(u) /\ readyQueue' = readyQueue
    BY <1>2, <1>5
  <2> QED
    BY <1>9, <2>1
<1>11. \A q \in Queues : \A u \in readyQueue'[q] :
         /\ q = QueueOf(u)' /\ uop'[u].ready # None /\ Due(uop[u].ready)'
         /\ uop'[u].disp = None
  BY <1>2, <1>8
<1> QED
  BY <1>1, <1>6, <1>7, <1>10, <1>11 DEF ReadyInv

(* The uop at the head of the loop enters its queue.                       *)
LEMMA ReadyMove ==
  ASSUME TypeOK, StageInv, ReadyInv, [Next]_vars, MoveReadyUop
  PROVE  ReadyInv'
<1> DEFINE u == Head(work)
<1>1. /\ phase = "ready" /\ phase' = "ready" /\ work # <<>> /\ work' = Tail(work)
      /\ uop' = uop /\ clock' = clock /\ prog' = prog /\ readyInCycle' = readyInCycle
      /\ readyQueue' = [readyQueue EXCEPT ![QueueOf(u)] = readyQueue[QueueOf(u)] \cup {u}]
  BY StorageWriters DEF MoveReadyUop, Advance, Current, storageVars
<1>2. /\ ReadyWork = work /\ ReadyWork' = Tail(work) /\ work \in Seq(Uops)
      /\ u \in Uops /\ 1 \in DOMAIN work /\ work[1] = u
  BY <1>1, StampsTyped, HeadContained, HeadTailProperties DEF ReadyWork, WorkIn
<1> HIDE DEF u
<1>3. uop[u].ready = clock /\ uop[u].disp = None /\ clock # None
  BY <1>1, <1>2, StampsTyped DEF ReadyInv
<1>4. QueueOf(u) \in Queues
  BY <1>2, <1>3, QueueOfTyped
<1>5. \A q \in Queues : readyQueue'[q] =
        IF q = QueueOf(u) THEN readyQueue[q] \cup {u} ELSE readyQueue[q]
  BY <1>1, <1>4, ReadyTyped
<1>6. /\ \A c : Due(c)' <=> Due(c)
      /\ Due(clock)
      /\ \A v : QueueOf(v)' = QueueOf(v)
  BY <1>1 DEF Due, QueueOf
<1>7. \A i \in DOMAIN Tail(work) : \E j \in DOMAIN work : Tail(work)[i] = work[j]
  BY <1>1, <1>2, TailContains
<1>8. \A v \in Uops : Contains(work, v) => v = u \/ Contains(Tail(work), v)
  BY <1>1, <1>2, TailContains DEF u
<1>9. \A i \in DOMAIN ReadyWork' :
        uop[(ReadyWork')[i]].ready = clock /\ uop[(ReadyWork')[i]].disp = None
  BY <1>1, <1>2, <1>7 DEF ReadyInv
<1>10. \A q \in Queues : \A v \in readyQueue'[q] :
         q = QueueOf(v) /\ uop[v].ready # None /\ Due(uop[v].ready) /\ uop[v].disp = None
  BY <1>1, <1>3, <1>5, <1>6 DEF ReadyInv
<1>11. \A v \in Uops : uop[v].ready # None /\ uop[v].disp = None =>
         IF Due(uop[v].ready)
         THEN v \in (readyQueue')[QueueOf(v)] \/ Contains(ReadyWork', v)
         ELSE uop[v].ready \in DOMAIN readyInCycle /\ Contains(readyInCycle[uop[v].ready], v)
  <2> SUFFICES ASSUME NEW v \in Uops, uop[v].ready # None, uop[v].disp = None, Due(uop[v].ready)
               PROVE  v \in (readyQueue')[QueueOf(v)] \/ Contains(ReadyWork', v)
    BY <1>1 DEF ReadyInv
  <2>1. v \in readyQueue[QueueOf(v)] \/ Contains(work, v)
    BY <1>1, <1>2 DEF ReadyInv
  <2>2. CASE v = u
    BY <1>4, <1>5, <2>2
  <2>3. CASE v # u /\ Contains(work, v)
    BY <1>2, <1>8, <2>3
  <2>4. CASE v \in readyQueue[QueueOf(v)]
    <3>1. QueueOf(v) \in Queues
      BY QueueOfTyped
    <3> QED
      BY <1>5, <2>4, <3>1
  <2> QED
    BY <2>1, <2>2, <2>3, <2>4
<1> QED
  BY <1>1, <1>6, <1>9, <1>10, <1>11 DEF ReadyInv

(* A dispatched uop leaves its queue; it was in no other one.              *)
LEMMA ReadyDispatch ==
  ASSUME TypeOK, StageInv, ReadyInv, [Next]_vars, DispatchUop
  PROVE  ReadyInv'
<1>1. /\ phase = "dispatch" /\ phase' = "dispatch" /\ clock' = clock /\ prog' = prog
      /\ KeepsPort /\ KeepsReady
  BY DispatchEffect, StorageWriters
<1>2. /\ readyInCycle' = readyInCycle
      /\ ReadyWork = <<>> /\ ReadyWork' = <<>>
  BY <1>1 DEF DispatchUop, ReadyWork, WorkIn
<1>3. PICK q \in Queues, u \in Uops :
        /\ u \in readyQueue[q]
        /\ uop'[u].disp = clock /\ \A v \in Uops \ {u} : uop'[v] = uop[v]
        /\ \A r \in Queues : readyQueue'[r] = IF r = q THEN readyQueue[r] \ {u} ELSE readyQueue[r]
  BY DispatchEffect
<1>4. /\ clock # None /\ q = QueueOf(u) /\ uop[u].ready # None /\ Due(uop[u].ready)
  BY <1>1, <1>3, QueuedStage, StampsTyped
<1>5. /\ \A c : Due(c)' <=> Due(c)
      /\ \A v \in Uops : uop'[v].ready = uop[v].ready /\ QueueOf(v)' = QueueOf(v)
  BY <1>1 DEF Due, QueueOf, KeepsPort, KeepsReady
<1>6. DOMAIN <<>> = {} /\ \A v \in Uops : ~Contains(<<>>, v)
  BY EmptySeq, LenProperties DEF Contains
<1>7. \A c \in DOMAIN readyInCycle : \A i \in DOMAIN readyInCycle[c] : readyInCycle[c][i] # u
  BY <1>1, <1>4 DEF ReadyInv
<1>8. \A c \in DOMAIN readyInCycle : \A i \in DOMAIN readyInCycle[c] :
        uop'[readyInCycle[c][i]].ready = c /\ uop'[readyInCycle[c][i]].disp = None
  BY <1>1, <1>3, <1>7, ReadyTyped DEF ReadyInv
<1>9. \A r \in Queues : \A v \in readyQueue'[r] :
        /\ r = QueueOf(v) /\ uop[v].ready # None /\ Due(uop[v].ready) /\ uop'[v].disp = None
        /\ v \in Uops
  <2> TAKE r \in Queues
  <2> TAKE v \in readyQueue'[r]
  <2>1. v \in readyQueue[r] /\ (r = q => v # u)
    BY <1>3
  <2>2. r = QueueOf(v) /\ uop[v].ready # None /\ Due(uop[v].ready) /\ uop[v].disp = None
    BY <1>1, <2>1 DEF ReadyInv
  <2>3. v # u /\ v \in Uops
    BY <1>4, <2>1, <2>2, ReadyTyped
  <2> QED
    BY <1>3, <2>2, <2>3
<1>10. \A v \in Uops : uop[v].ready # None /\ uop'[v].disp = None =>
         IF Due(uop[v].ready)
         THEN v \in (readyQueue')[QueueOf(v)]
         ELSE uop[v].ready \in DOMAIN readyInCycle /\ Contains(readyInCycle[uop[v].ready], v)
  <2> SUFFICES ASSUME NEW v \in Uops, uop[v].ready # None, uop'[v].disp = None
               PROVE  IF Due(uop[v].ready)
                      THEN v \in (readyQueue')[QueueOf(v)]
                      ELSE /\ uop[v].ready \in DOMAIN readyInCycle
                           /\ Contains(readyInCycle[uop[v].ready], v)
    OBVIOUS
  <2>1. v # u /\ uop[v].disp = None
    BY <1>3, <1>4
  <2>2. CASE Due(uop[v].ready)
    <3>1. v \in readyQueue[QueueOf(v)] /\ QueueOf(v) \in Queues
      BY <1>1, <1>2, <1>6, <2>1, <2>2, QueueOfTyped DEF ReadyInv
    <3> QED
      BY <1>3, <2>1, <2>2, <3>1
  <2>3. CASE ~Due(uop[v].ready)
    BY <1>1, <2>1, <2>3 DEF ReadyInv
  <2> QED
    BY <2>2, <2>3
<1>11. \A c \in DOMAIN readyInCycle : ~Due(c)
  BY <1>1 DEF ReadyInv
<1>12. \A v \in Uops : uop'[v].ready # None /\ uop'[v].disp = None =>
         IF Due(uop[v].ready)'
         THEN v \in (readyQueue')[QueueOf(v)']
         ELSE uop'[v].ready \in DOMAIN readyInCycle /\ Contains(readyInCycle[uop'[v].ready], v)
  BY <1>5, <1>10
<1>13. \A r \in Queues : \A v \in readyQueue'[r] :
         /\ r = QueueOf(v)' /\ uop'[v].ready # None /\ Due(uop[v].ready)' /\ uop'[v].disp = None
  BY <1>5, <1>9
<1> QED
  BY <1>1, <1>2, <1>5, <1>6, <1>8, <1>11, <1>12, <1>13 DEF ReadyInv

(* A uop that has become ready is put into the list of a later cycle.      *)
LEMMA ReadyMake ==
  ASSUME TypeOK, StageInv, WaitInv, ReadyInv, [Next]_vars, MakeReady
  PROVE  ReadyInv'
<1> DEFINE u == Head(work)
<1>1. /\ phase = "nonReady" /\ phase' = "nonReady" /\ clock' = clock /\ work # <<>>
      /\ prog' = prog /\ u \in Uops /\ uop[u].ready = None /\ KeepsPort /\ KeepsDisp
      /\ \A v \in Uops \ {u} : uop'[v] = uop[v]
  BY ReadyEffect, StorageWriters
<1>2. PICK ready \in Nat :
        /\ ready > clock /\ uop'[u].ready = ready
        /\ LET there == IF ready \in DOMAIN readyInCycle THEN readyInCycle[ready] ELSE <<>>
           IN  readyInCycle' = [c \in DOMAIN readyInCycle \cup {ready} |->
                 IF c = ready THEN AppendNew(there, u) ELSE readyInCycle[c]]
  BY ReadyEffect
<1>3. readyQueue' = readyQueue /\ ReadyWork = <<>> /\ ReadyWork' = <<>>
  BY <1>1 DEF MakeReady, ReadyWork, WorkIn
<1>4. uop[u].disp = None /\ clock \in Nat /\ ready # None
  BY <1>1, <1>2, HeadToWait, StampsTyped DEF None
<1> HIDE DEF u
<1> DEFINE there == IF ready \in DOMAIN readyInCycle THEN readyInCycle[ready] ELSE <<>>
<1>5. there \in Seq(Uops) /\ \A i \in DOMAIN there : there[i] # u
  <2>1. CASE ready \in DOMAIN readyInCycle
    BY <1>1, <1>4, <2>1, ReadyTyped DEF ReadyInv
  <2>2. CASE ready \notin DOMAIN readyInCycle
    BY <2>2, EmptySeq, LenProperties
  <2> QED
    BY <2>1, <2>2
<1> DEFINE list == Append(there, u)
<1>6. /\ DOMAIN readyInCycle' = DOMAIN readyInCycle \cup {ready}
      /\ readyInCycle'[ready] = list
      /\ \A c \in DOMAIN readyInCycle : c # ready => readyInCycle'[c] = readyInCycle[c]
  <2>1. AppendNew(there, u) = list
    BY <1>5 DEF AppendNew, Contains
  <2> HIDE DEF list
  <2>2. readyInCycle' = [c \in DOMAIN readyInCycle \cup {ready} |->
                           IF c = ready THEN list ELSE readyInCycle[c]]
    BY <1>2, <2>1
  <2> QED
    BY <2>2
<1>7. /\ \A i \in DOMAIN list : list[i] = u \/ (i \in DOMAIN there /\ list[i] = there[i])
      /\ Contains(list, u)
      /\ \A v : Contains(there, v) => Contains(list, v)
  <2> HIDE DEF there
  <2>1. /\ list \in Seq(Uops) /\ Len(list) = Len(there) + 1 /\ Len(there) \in Nat
        /\ \A i \in 1..Len(there) : list[i] = there[i]
        /\ list[Len(there) + 1] = u
    BY <1>1, <1>5, AppendProperties, LenProperties
  <2>2. DOMAIN list = 1..(Len(there) + 1) /\ DOMAIN there = 1..Len(there)
    BY <1>5, <2>1, LenProperties
  <2> HIDE DEF list
  <2>3. \A i \in 1..(Len(there) + 1) : i \in 1..Len(there) \/ i = Len(there) + 1
    BY <2>1
  <2>4. Len(there) + 1 \in DOMAIN list /\ DOMAIN there \subseteq DOMAIN list
    BY <2>1, <2>2
  <2>5. \A i \in DOMAIN there : i \in DOMAIN list /\ list[i] = there[i]
    BY <2>1, <2>2, <2>4
  <2>6. ASSUME NEW i \in DOMAIN list
        PROVE  list[i] = u \/ (i \in DOMAIN there /\ list[i] = there[i])
    <3>1. i \in 1..Len(there) \/ i = Len(there) + 1
      BY <2>2, <2>3
    <3>2. CASE i \in 1..Len(there)
      BY <2>1, <2>2, <3>2
    <3>3. CASE i = Len(there) + 1
      BY <2>1, <3>3, Zenon
    <3> QED
      BY <3>1, <3>2, <3>3
  <2>7. Contains(list, u)
    BY <2>1, <2>4 DEF Contains
  <2> QED
    BY <2>5, <2>6, <2>7 DEF Contains
<1> HIDE DEF list
<1>8. /\ \A c : Due(c)' <=> Due(c)
      /\ ~Due(ready)
      /\ \A v \in Uops : QueueOf(v)' = QueueOf(v) /\ uop'[v].disp = uop[v].disp
  <2>1. ~(ready < clock) /\ ready # clock
    BY <1>2, <1>4
  <2> QED
    BY <1>1, <2>1 DEF Due, QueueOf, KeepsPort, KeepsDisp
<1>9. \A c \in DOMAIN readyInCycle' : ~Due(c)
  BY <1>1, <1>6, <1>8 DEF ReadyInv
<1>10. \A c \in DOMAIN readyInCycle : \A i \in DOMAIN readyInCycle[c] :
         /\ readyInCycle[c][i] \in Uops /\ readyInCycle[c][i] # u
         /\ uop[readyInCycle[c][i]].ready = c /\ uop[readyInCycle[c][i]].disp = None
  BY <1>1, ReadyTyped DEF ReadyInv
<1>11. \A c \in DOMAIN readyInCycle' : \A i \in DOMAIN readyInCycle'[c] :
         uop'[readyInCycle'[c][i]].ready = c /\ uop'[readyInCycle'[c][i]].disp = None
  <2>1. ASSUME NEW i \in DOMAIN list
        PROVE  uop'[list[i]].ready = ready /\ uop'[list[i]].disp = None
    <3>1. CASE list[i] = u
      BY <1>1, <1>2, <1>4, <1>8, <3>1
    <3>2. CASE list[i] # u
      <4>1. i \in DOMAIN there /\ list[i] = there[i]
        BY <1>7, <3>2
      <4>2. ready \in DOMAIN readyInCycle /\ there = readyInCycle[ready]
        BY <4>1, EmptySeq, LenProperties
      <4> HIDE DEF there
      <4> QED
        BY <1>1, <1>10, <4>1, <4>2
    <3> QED
      BY <3>1, <3>2
  <2> HIDE DEF there
  <2> QED
    BY <1>1, <1>6, <1>10, <2>1
<1>12. \A q \in Queues : \A v \in readyQueue[q] :
         /\ q = QueueOf(v)' /\ uop'[v].ready # None /\ Due(uop[v].ready)'
         /\ uop'[v].disp = None
  BY <1>1, <1>8, ReadyTyped DEF ReadyInv
<1>13. ASSUME NEW v \in Uops, uop'[v].ready # None, uop'[v].disp = None
       PROVE  IF Due(uop[v].ready)'
              THEN v \in readyQueue[QueueOf(v)'] \/ Contains(ReadyWork', v)
              ELSE /\ uop'[v].ready \in DOMAIN readyInCycle'
                   /\ Contains((readyInCycle')[uop'[v].ready], v)
  <2>1. CASE v = u
    BY <1>2, <1>6, <1>7, <1>8, <2>1
  <2>2. CASE v # u /\ Due(uop[v].ready)
    BY <1>1, <1>3, <1>8, <1>13, <2>2 DEF ReadyInv
  <2>3. CASE v # u /\ ~Due(uop[v].ready)
    <3>1. uop[v].ready \in DOMAIN readyInCycle /\ Contains(readyInCycle[uop[v].ready], v)
      BY <1>1, <1>8, <1>13, <2>3 DEF ReadyInv
    <3>2. CASE uop[v].ready = ready
      BY <1>1, <1>6, <1>7, <1>8, <2>3, <3>1, <3>2
    <3>3. CASE uop[v].ready # ready
      BY <1>1, <1>6, <1>8, <2>3, <3>1, <3>3
    <3> QED
      BY <3>2, <3>3
  <2> QED
    BY <2>1, <2>2, <2>3
<1>14. \A i \in DOMAIN ReadyWork' : uop'[(ReadyWork')[i]].ready = clock
                                    /\ uop'[(ReadyWork')[i]].disp = None
  BY <1>3, EmptySeq, LenProperties
<1> QED
  BY <1>1, <1>3, <1>8, <1>9, <1>11, <1>12, <1>13, <1>14 DEF ReadyInv

(* A clock tick makes nothing due that was not.                            *)
LEMMA ReadyTick ==
  ASSUME TypeOK, ReadyInv, [Next]_vars, Tick
  PROVE  ReadyInv'
<1> SUFFICES ASSUME phase' # "done"
             PROVE  ReadyInv'
  BY DEF ReadyInv
<1>1. /\ phase = "drain" /\ phase' = "issue" /\ clock' = clock + 1 /\ prog' = prog
      /\ clock \in Nat /\ uop' = uop /\ readyQueue' = readyQueue /\ readyInCycle' = readyInCycle
      /\ ReadyWork' = ReadyWork /\ ReadyWork = <<>>
  BY StampsTyped, StorageWriters DEF Tick, ReadyWork, WorkIn, schedulerVars, queueVars
<1>2. \A c \in Int : Due(c)' <=> Due(c)
  BY <1>1 DEF Due
<1>3. /\ \A u \in Uops : uop[u].ready \in Int /\ QueueOf(u)' = QueueOf(u)
      /\ DOMAIN readyInCycle \subseteq Int
  BY <1>1, StampsTyped, ReadyTyped DEF QueueOf
<1>4. \A i \in DOMAIN ReadyWork : FALSE
  BY <1>1, EmptySeq, LenProperties
<1>5. \A u \in Uops : Due(uop[u].ready)' <=> Due(uop[u].ready)
  BY <1>1, <1>2, <1>3
<1>6. \A q \in Queues : \A u \in readyQueue[q] :
        q = QueueOf(u)' /\ uop[u].ready # None /\ Due(uop[u].ready)' /\ uop[u].disp = None
  BY <1>1, <1>3, <1>5, ReadyTyped DEF ReadyInv
<1>7. \A u \in Uops : uop[u].ready # None /\ uop[u].disp = None =>
        IF Due(uop[u].ready)'
        THEN u \in readyQueue[QueueOf(u)'] \/ Contains(ReadyWork, u)
        ELSE uop[u].ready \in DOMAIN readyInCycle /\ Contains(readyInCycle[uop[u].ready], u)
  BY <1>1, <1>3, <1>5 DEF ReadyInv
<1>8. \A c \in DOMAIN readyInCycle : ~Due(c)'
  BY <1>1, <1>2, <1>3 DEF ReadyInv
<1>9. \A c \in DOMAIN readyInCycle : \A i \in DOMAIN readyInCycle[c] :
        uop[readyInCycle[c][i]].ready = c /\ uop[readyInCycle[c][i]].disp = None
  BY <1>1 DEF ReadyInv
<1> QED
  BY <1>1, <1>4, <1>6, <1>7, <1>8, <1>9 DEF ReadyInv

LEMMA ReadyStep ==
  ASSUME TypeOK, OrderInv, PlaceInv, [Next]_vars
  PROVE  ReadyInv'
<1>1. StageInv /\ AddInv /\ WaitInv /\ ReadyInv
  BY DEF PlaceInv
<1>2. CASE AddNewUop
  <2>1. /\ KeepsReady /\ KeepsDisp /\ phase = "add" /\ work # <<>> /\ NeedsPort(Head(work))
        /\ \A v \in Uops \ {Head(work)} : uop'[v] = uop[v]
    BY <1>2, AddEffect
  <2>2. uop[Head(work)].ready = None
    BY <1>1, <2>1, HeadToAdd
  <2>3. /\ readyQueue' = readyQueue /\ readyInCycle' = readyInCycle /\ ReadyWork' = ReadyWork
        /\ ~Tick /\ ~CycleReorderBuffer
    BY <1>2, <2>1, QueueWriters, WorkWriters
       DEF MoveReadyUop, DispatchUop, CycleReorderBuffer, MakeReady, Tick
  <2> QED
    BY <1>1, <2>1, <2>2, <2>3, ReadyFrame
<1>3. CASE /\ ~AddNewUop /\ ~Tick /\ ~CycleReorderBuffer /\ ~MoveReadyUop /\ ~DispatchUop
           /\ ~MakeReady
  <2>1. KeepsPort /\ KeepsReady /\ KeepsDisp
    BY <1>3, StampWriters
  <2>2. UNCHANGED <<readyQueue, readyInCycle, ReadyWork>>
    BY <1>3, QueueWriters, WorkWriters
  <2> QED
    BY <1>1, <1>3, <2>1, <2>2, ReadyFrame DEF KeepsPort
<1> QED
  BY <1>1, <1>2, <1>3, ReadyBuffer, ReadyMove, ReadyDispatch, ReadyMake, ReadyTick

-----------------------------------------------------------------------------
(* The counters follow the stamps.                                         *)

(* Which loops still see what the previous cycle has dispatched.           *)
LEMMA EarlyFrame ==
  ASSUME [Next]_vars, ~Tick, ~BeginDispatch, ~EndDispatch
  PROVE  /\ Early' <=> Early
         /\ phase' = "dispatch" <=> phase = "dispatch"
         /\ phase' # "done" => phase # "done"
<1>1. CASE IssueLam \/ IssueMerges \/ EndIssue \/ CycleReorderBuffer
  BY <1>1 DEF IssueLam, IssueMerges, EndIssue, CycleReorderBuffer, BeginMoveReady, EnterLoop, Early
<1>2. CASE Deliver \/ Stall \/ NoFill \/ Stop \/ Done \/ UNCHANGED vars
  BY <1>2 DEF Deliver, Stall, NoFill, Stop, Done, vars, loopVars, Early
<1>3. CASE MoveReadyUop \/ EndMoveReady \/ VisitFused \/ SkipUop \/ AddNewUop \/ DispatchUop \/ IdlePort
  BY <1>3
     DEF MoveReadyUop, EndMoveReady, VisitFused, SkipUop, AddNewUop, DispatchUop, IdlePort, Early
<1>4. CASE \/ FinishPendingUop \/ KeepPendingUop \/ EndPending \/ WakeDependent \/ BeginNonReady
           \/ MakeReady \/ StayNonReady \/ EndNonReady \/ EndSchedulerCycle
  BY <1>4
     DEF FinishPendingUop, KeepPendingUop, EndPending, WakeDependent, BeginNonReady, MakeReady,
         StayNonReady, EndNonReady, EndSchedulerCycle, EnterLoop, Early
<1> QED
  BY <1>1, <1>2, <1>3, <1>4 DEF Next, CycleScheduler, SchedulerNext

LEMMA RsStep ==
  ASSUME TypeOK, OrderInv, PlaceInv, [Next]_vars
  PROVE  RsInv'
<1> SUFFICES ASSUME phase' # "done"
             PROVE  RsInv'
  BY DEF RsInv
<1>1. /\ StageInv /\ AddInv /\ ReadyInv /\ RsInv /\ clock \in Nat
      /\ \A u \in Uops : uop[u].disp \in Int
  BY StampsTyped DEF PlaceInv
<1>2. CASE AddNewUop
  <2>1. /\ KeepsDisp /\ clock' = clock /\ phase = "add" /\ phase' = "add" /\ work # <<>>
        /\ Head(work) \in Uops /\ NeedsPort(Head(work)) /\ uop'[Head(work)].port # None
        /\ \A v \in Uops \ {Head(work)} : uop'[v] = uop[v]
    BY <1>2, AddEffect
  <2>2. uop[Head(work)].disp = None
    BY <1>1, <2>1, HeadToAdd
  <2>3. rs' = rs \cup {Head(work)} /\ prevDispatched' = prevDispatched
    BY <1>2 DEF AddNewUop, Current
  <2> QED
    BY <1>1, <2>1, <2>2, <2>3 DEF RsInv, Added, KeepsDisp, Early
<1>3. CASE DispatchUop
  <2>1. /\ KeepsPort /\ clock' = clock /\ phase = "dispatch" /\ phase' = "dispatch"
    BY <1>3, DispatchEffect
  <2>2. PICK q \in Queues, u \in Uops :
          /\ u \in readyQueue[q] /\ uop'[u].disp = clock /\ rs' = rs \ {u}
          /\ \A v \in Uops \ {u} : uop'[v] = uop[v]
    BY <1>3, DispatchEffect
  <2>3. uop[u].disp = None /\ clock # None /\ clock # clock - 1
    BY <1>1, <2>1, <2>2, QueuedStage, StampsTyped
  <2>4. prevDispatched' = prevDispatched
    BY <1>3 DEF DispatchUop
  <2> QED
    BY <1>1, <2>1, <2>2, <2>3, <2>4 DEF RsInv, Added, KeepsPort, Early
<1>4. CASE EndDispatch
  <2>1. /\ uop' = uop /\ clock' = clock /\ phase = "dispatch" /\ phase' = "pending"
        /\ rs' = rs /\ prevDispatched' = DispatchedNow
    BY <1>4 DEF EndDispatch, EnterLoop, storageVars
  <2>2. clock # None
    BY StampsTyped
  <2> QED
    BY <1>1, <2>1, <2>2 DEF RsInv, Added, Early, DispatchedNow
<1>5. CASE BeginDispatch
  <2>1. /\ uop' = uop /\ clock' = clock /\ phase = "add" /\ phase' = "dispatch"
        /\ rs' = rs /\ prevDispatched' = prevDispatched
    BY <1>5 DEF BeginDispatch, EnterLoop, storageVars, schedulerVars, queueVars
  <2> QED
    BY <1>1, <2>1 DEF RsInv, Added, Early
<1>6. CASE Tick
  <2>1. /\ uop' = uop /\ clock' = clock + 1 /\ phase = "drain" /\ phase' = "issue"
        /\ rs' = rs /\ prevDispatched' = prevDispatched /\ clock' - 1 = clock
    BY <1>1, <1>6 DEF Tick, schedulerVars, queueVars
  <2> QED
    BY <1>1, <2>1 DEF RsInv, Added, Early
<1>7. CASE ~AddNewUop /\ ~DispatchUop /\ ~EndDispatch /\ ~BeginDispatch /\ ~Tick
  <2>1. /\ KeepsPort /\ KeepsDisp /\ rs' = rs /\ prevDispatched' = prevDispatched
        /\ clock' = clock
    BY <1>7, StampWriters, QueueWriters, StorageWriters
  <2>2. /\ Early' <=> Early
        /\ phase' = "dispatch" <=> phase = "dispatch"
        /\ phase # "done"
    BY <1>7, EarlyFrame
  <2> QED
    BY <1>1, <2>1, <2>2 DEF RsInv, Added, KeepsPort, KeepsDisp
<1> QED
  BY <1>2, <1>3, <1>4, <1>5, <1>6, <1>7

LEMMA ChargedFinite ==
  ASSUME TypeOK, NEW p
  PROVE  /\ Charged(p) \subseteq Uops /\ IsFiniteSet(Charged(p))
         /\ \A S \in SUBSET Uops : IsFiniteSet(S) /\ Cardinality(S) \in Nat
<1>1. \A S \in SUBSET Uops : IsFiniteSet(S) /\ Cardinality(S) \in Nat
  BY ConstantsTyped, FS_Subset, FS_CardinalityType
<1>2. Charged(p) \subseteq Uops
  BY DEF Charged, DispatchedNow, TypeOK, SchedulerTypeOK, QueueTypeOK
<1> QED
  BY <1>1, <1>2

LEMMA UsageAdd ==
  ASSUME TypeOK, StageInv, AddInv, RsInv, UsageInv, [Next]_vars, AddNewUop
  PROVE  UsageInv'
<1> DEFINE u == Head(work)
<1>1. /\ phase = "add" /\ work # <<>> /\ u \in Uops /\ NeedsPort(u) /\ clock' = clock
      /\ KeepsDisp /\ \A v \in Uops \ {u} : uop'[v] = uop[v]
  BY AddEffect
<1>2. ~Added(u) /\ uop[u].disp = None /\ clock # None
  BY <1>1, HeadToAdd, StampsTyped
<1>3. PICK p \in Ports :
        /\ uop'[u].port = p /\ rs' = rs \cup {u} /\ prevDispatched' = prevDispatched
        /\ portUsage' = [portUsage EXCEPT ![p] = @ + 1]
  <2>1. PICK p \in prog.uops[u].ports :
          /\ uop' = [uop EXCEPT ![u].port = p]
          /\ portUsage' = [portUsage EXCEPT ![p] = @ + 1]
    BY DEF AddNewUop, Current
  <2>2. p \in Ports
    BY <1>1, StampsTyped, UopTyped
  <2> HIDE DEF u
  <2>3. uop'[u].port = p
    BY <1>1, <2>1, StampsTyped
  <2> QED
    BY <2>1, <2>2, <2>3 DEF AddNewUop, Current, u
<1> HIDE DEF u
<1>4. /\ portUsage \in [Ports -> Nat] /\ prevDispatched \in SUBSET Uops /\ rs \in SUBSET Uops
  BY DEF TypeOK, SchedulerTypeOK, QueueTypeOK
<1>5. u \notin rs /\ u \notin prevDispatched /\ DispatchedNow' = DispatchedNow /\ u \notin DispatchedNow
  BY <1>1, <1>2 DEF RsInv, DispatchedNow, KeepsDisp
<1>6. \A v \in rs \cup prevDispatched \cup DispatchedNow : v \in Uops /\ v # u
  BY <1>4, <1>5 DEF DispatchedNow
<1>7. \A r \in Ports : Charged(r)' = IF r = p THEN Charged(r) \cup {u} ELSE Charged(r)
  BY <1>1, <1>3, <1>5, <1>6 DEF Charged
<1>8. \A r \in Ports : portUsage'[r] = IF r = p THEN portUsage[r] + 1 ELSE portUsage[r]
  BY <1>3, <1>4
<1>9. \A r \in Ports : u \notin Charged(r) /\ IsFiniteSet(Charged(r))
  BY <1>5, ChargedFinite DEF Charged
<1>10. \A r \in Ports : portUsage[r] = Cardinality(Charged(r))
  BY <1>1 DEF UsageInv
<1>11. \A r \in Ports : portUsage'[r] = Cardinality(Charged(r)')
  BY <1>3, <1>7, <1>8, <1>9, <1>10, FS_AddElement
<1> QED
  BY <1>11 DEF UsageInv

(* What was dispatched in the previous cycle is released.                  *)
LEMMA UsageRelease ==
  ASSUME TypeOK, RsInv, UsageInv, [Next]_vars, EndDispatch
  PROVE  UsageInv'
<1>1. /\ uop' = uop /\ clock' = clock /\ phase = "dispatch"
      /\ rs' = rs /\ prevDispatched' = DispatchedNow
      /\ portUsage' = [p \in Ports |->
           LET released == Cardinality({u \in prevDispatched : uop[u].port = p})
           IN  IF released <= portUsage[p] THEN portUsage[p] - released ELSE 0]
  BY DEF EndDispatch, storageVars
<1> SUFFICES ASSUME NEW p \in Ports
             PROVE  portUsage'[p] = Cardinality(Charged(p)')
  BY DEF UsageInv
<1> DEFINE A == {u \in prevDispatched : uop[u].port = p}
<1> DEFINE B == {u \in rs \cup DispatchedNow : uop[u].port = p}
<1>2. Charged(p) = A \cup B /\ Charged(p)' = B
  BY <1>1 DEF Charged, DispatchedNow
<1>3. A \cap B = {}
  <2>1. \A u \in prevDispatched : u \notin rs /\ u \notin DispatchedNow
    BY <1>1, StampsTyped DEF RsInv, DispatchedNow, Early
  <2> QED
    BY <2>1
<1>4. /\ IsFiniteSet(A) /\ IsFiniteSet(B)
      /\ Cardinality(A) \in Nat /\ Cardinality(B) \in Nat
  <2>1. A \in SUBSET Uops /\ B \in SUBSET Uops
    BY DEF DispatchedNow, TypeOK, SchedulerTypeOK, QueueTypeOK
  <2> HIDE DEF A, B
  <2> QED
    BY <2>1, ChargedFinite
<1>5. portUsage'[p] =
        IF Cardinality(A) <= portUsage[p] THEN portUsage[p] - Cardinality(A) ELSE 0
  BY <1>1
<1> HIDE DEF A, B
<1>6. Cardinality(A \cup B) = Cardinality(A) + Cardinality(B)
  <2>1. Cardinality(A \cap B) = 0
    BY <1>3, FS_EmptySet
  <2>2. Cardinality(A \cup B) = Cardinality(A) + Cardinality(B) - Cardinality(A \cap B)
    BY <1>4, FS_Union
  <2> QED
    BY <1>4, <2>1, <2>2
<1>7. portUsage[p] = Cardinality(A) + Cardinality(B)
  BY <1>1, <1>2, <1>6 DEF UsageInv
<1> QED
  BY <1>2, <1>4, <1>5, <1>7

LEMMA UsageStep ==
  ASSUME TypeOK, OrderInv, PlaceInv, [Next]_vars
  PROVE  UsageInv'
<1>1. StageInv /\ AddInv /\ ReadyInv /\ RsInv /\ UsageInv
  BY DEF PlaceInv
<1>2. ASSUME phase # "done", portUsage' = portUsage, \A p : Charged(p)' = Charged(p)
      PROVE  UsageInv'
  BY <1>1, <1>2 DEF UsageInv
<1>3. CASE DispatchUop
  <2>1. /\ KeepsPort /\ clock' = clock /\ phase = "dispatch"
    BY <1>3, DispatchEffect
  <2>2. PICK q \in Queues, u \in Uops :
          /\ u \in readyQueue[q] /\ uop'[u].disp = clock /\ rs' = rs \ {u}
          /\ \A v \in Uops \ {u} : uop'[v] = uop[v]
    BY <1>3, DispatchEffect
  <2>3. uop[u].disp = None /\ Added(u)
    BY <1>1, <2>1, <2>2, QueuedStage
  <2>4. u \in rs /\ prevDispatched' = prevDispatched /\ portUsage' = portUsage
    BY <1>1, <1>3, <2>1, <2>3 DEF DispatchUop, RsInv
  <2>5. DispatchedNow' = DispatchedNow \cup {u}
    BY <2>1, <2>2 DEF DispatchedNow
  <2>6. /\ (rs \cup prevDispatched \cup DispatchedNow)' = rs \cup prevDispatched \cup DispatchedNow
        /\ rs \cup prevDispatched \cup DispatchedNow \subseteq Uops
    BY <2>2, <2>4, <2>5 DEF DispatchedNow, TypeOK, SchedulerTypeOK, QueueTypeOK
  <2>7. \A p : Charged(p)' = Charged(p)
    BY <2>1, <2>6 DEF Charged, KeepsPort
  <2> QED
    BY <1>2, <2>1, <2>4, <2>7
<1>4. CASE Tick
  <2>1. /\ uop' = uop /\ clock' = clock + 1 /\ phase = "drain" /\ clock \in Nat
        /\ rs' = rs /\ prevDispatched' = prevDispatched /\ portUsage' = portUsage
    BY <1>4, StampsTyped DEF Tick, schedulerVars, queueVars
  <2>2. DispatchedNow' = {} /\ DispatchedNow = prevDispatched
    <3>1. \A u \in Uops : uop[u].disp # clock + 1
      BY <1>1, <2>1, StampsTyped DEF RsInv
    <3>2. DispatchedNow = prevDispatched
      BY <1>1, <2>1, StampsTyped DEF RsInv, DispatchedNow, Early
    <3> QED
      BY <2>1, <3>1, <3>2 DEF DispatchedNow
  <2>3. \A p : Charged(p)' = Charged(p)
    BY <2>1, <2>2 DEF Charged
  <2> QED
    BY <1>2, <2>1, <2>3
<1>5. CASE ~AddNewUop /\ ~DispatchUop /\ ~EndDispatch /\ ~Tick
  <2>1. /\ KeepsPort /\ KeepsDisp /\ rs' = rs /\ prevDispatched' = prevDispatched
        /\ portUsage' = portUsage /\ clock' = clock
    BY <1>5, StampWriters, QueueWriters, StorageWriters
  <2>2. /\ DispatchedNow' = DispatchedNow
        /\ rs \cup prevDispatched \cup DispatchedNow \subseteq Uops
    BY <2>1 DEF DispatchedNow, KeepsDisp, TypeOK, SchedulerTypeOK, QueueTypeOK
  <2>3. \A p : Charged(p)' = Charged(p)
    BY <2>1, <2>2 DEF Charged, KeepsPort
  <2>4. phase' # "done" => phase # "done"
    BY <1>5, EarlyFrame DEF BeginDispatch
  <2> QED
    BY <1>2, <2>1, <2>3, <2>4 DEF UsageInv
<1> QED
  BY <1>1, <1>3, <1>4, <1>5, UsageAdd, UsageRelease

-----------------------------------------------------------------------------
(* Issue stamps.                                                           *)

LEMMA FusedWriters ==
  ASSUME [Next]_vars, ~IssueMerges, ~EndIssue, ~CycleReorderBuffer
  PROVE  fused' = fused /\ (phase' = "rob" <=> phase = "rob")
<1>1. CASE IssueLam \/ Deliver \/ Stall \/ NoFill \/ Tick \/ Stop \/ Done \/ UNCHANGED vars
  BY <1>1 DEF IssueLam, Deliver, Stall, NoFill, Tick, Stop, Done, vars, storageVars, loopVars
<1>2. CASE \/ MoveReadyUop \/ EndMoveReady \/ VisitFused \/ SkipUop \/ AddNewUop
           \/ BeginDispatch \/ DispatchUop \/ IdlePort \/ EndDispatch
  BY <1>2
     DEF MoveReadyUop, EndMoveReady, VisitFused, SkipUop, AddNewUop, BeginDispatch, DispatchUop,
         IdlePort, EndDispatch, EnterLoop, storageVars
<1>3. CASE \/ FinishPendingUop \/ KeepPendingUop \/ EndPending \/ WakeDependent
           \/ BeginNonReady \/ MakeReady \/ StayNonReady \/ EndNonReady \/ EndSchedulerCycle
  BY <1>3
     DEF FinishPendingUop, KeepPendingUop, EndPending, WakeDependent, BeginNonReady, MakeReady,
         StayNonReady, EndNonReady, EndSchedulerCycle, EnterLoop, storageVars
<1> QED
  BY <1>1, <1>2, <1>3 DEF Next, CycleScheduler, SchedulerNext

LEMMA RunOfContains ==
  ASSUME NEW m \in Nat, NEW n \in Nat, m <= n, NEW f \in Nat
  PROVE  (\E i \in DOMAIN RunOf(m, n) : RunOf(m, n)[i] = f) <=> m < f /\ f <= n
<1>1. /\ DOMAIN RunOf(m, n) = 1..(n - m)
      /\ \A i \in 1..(n - m) : RunOf(m, n)[i] = m + i
  BY DEF RunOf
<1>2. ASSUME m < f, f <= n
      PROVE  f - m \in 1..(n - m) /\ m + (f - m) = f
  BY <1>2
<1> DEFINE R == RunOf(m, n)
<1>3. ASSUME NEW i \in DOMAIN R, R[i] = f
      PROVE  m < f /\ f <= n
  BY <1>1, <1>3
<1>4. ASSUME m < f, f <= n
      PROVE  \E i \in DOMAIN R : R[i] = f
  <2>1. f - m \in DOMAIN R /\ R[f - m] = f
    BY <1>1, <1>2, <1>4
  <2> HIDE DEF R
  <2> QED
    BY <2>1
<1> QED
  BY <1>3, <1>4

(* retire_uops leaves the issue stamps alone.                              *)
LEMMA RetireKeepsIssue ==
  ASSUME TypeOK, CycleReorderBuffer
  PROVE  \A f \in Uops : fused'[f].issued = fused[f].issued
<1>1. fused \in [Uops -> [issued : OptNat, retired : OptNat, idx : OptNat]]
  BY DEF TypeOK, StorageTypeOK
<1>2. PICK n \in 0..Len(rob) : RetireUops(n)
  BY DEF CycleReorderBuffer, ReorderBufferCycle
<1> SUFFICES ASSUME NEW f \in Uops
             PROVE  fused'[f].issued = fused[f].issued
  OBVIOUS
<1>3. \/ fused'[f] = fused[f]
      \/ fused'[f] = [fused[f] EXCEPT !.retired = clock,
                                      !.idx = (CHOOSE i \in 1..n : rob[i] = f) - 1]
  BY <1>2 DEF RetireUops
<1> QED
  BY <1>1, <1>3

(* FrontEnd::cycle stamps the group the renamer returns.                   *)
LEMMA GroupStamp ==
  ASSUME TypeOK, OrderInv, TypeOK', OrderInv', IssueMerges \/ EndIssue
  PROVE  /\ InBuffer \in Nat /\ CoreIssued = InBuffer /\ CoreIssued' \in Nat
         /\ InBuffer <= CoreIssued' /\ clock' = clock
         /\ \A f \in Uops : fused'[f] =
              IF InBuffer < f /\ f <= CoreIssued' THEN [fused[f] EXCEPT !.issued = clock]
              ELSE fused[f]
<1>1. /\ phase = "issue" /\ phase' = "rob" /\ log' = log /\ retireQueue' = retireQueue
      /\ rob' = rob /\ MarkIssued(group') /\ clock' = clock
  BY DEF IssueMerges, EndIssue, robVars, runVars, MarkIssued
<1>2. /\ InBuffer \in Nat /\ InBuffer' = InBuffer /\ CoreIssued = InBuffer + 0
      /\ CoreIssued' = InBuffer' + Len(group')
  BY <1>1, BordersTyped DEF OrderInv, InBuffer, CoreIssued, CoreRetired, GroupStamped
<1>3. group' = RunOf(InBuffer', NextFused') /\ NextFused' = InBuffer' + Len(group')
  BY <1>1 DEF OrderInv, SequenceInv, IssueGroup
<1>4. Len(group') \in Nat
  BY LenProperties DEF TypeOK, SchedulerTypeOK, LoopTypeOK
<1>5. CoreIssued' \in Nat /\ InBuffer <= CoreIssued' /\ group' = RunOf(InBuffer, CoreIssued')
  BY <1>2, <1>3, <1>4
<1>6. \A f \in Uops :
        (\E i \in DOMAIN group' : (group')[i] = f) <=> InBuffer < f /\ f <= CoreIssued'
  BY <1>2, <1>5, RunOfContains, ConstantsTyped
<1> QED
  BY <1>1, <1>2, <1>5, <1>6 DEF MarkIssued

LEMMA IssuedStep ==
  ASSUME TypeOK, OrderInv, TypeOK', OrderInv', IssuedInv, [Next]_vars
  PROVE  IssuedInv'
<1>1. /\ fused \in [Uops -> [issued : OptNat, retired : OptNat, idx : OptNat]]
      /\ clock # None /\ Uops \subseteq Nat
  BY StampsTyped, ConstantsTyped DEF TypeOK, StorageTypeOK
<1>2. CASE IssueMerges \/ EndIssue
  <2>1. /\ InBuffer \in Nat /\ CoreIssued = InBuffer /\ CoreIssued' \in Nat
        /\ InBuffer <= CoreIssued'
        /\ \A f \in Uops : fused'[f] =
             IF InBuffer < f /\ f <= CoreIssued' THEN [fused[f] EXCEPT !.issued = clock]
             ELSE fused[f]
    BY <1>2, GroupStamp
  <2>2. \A f \in Uops : fused'[f].issued =
          IF InBuffer < f /\ f <= CoreIssued' THEN clock ELSE fused[f].issued
    BY <1>1, <2>1
  <2> QED
    BY <1>1, <2>1, <2>2 DEF IssuedInv, Issued
<1>3. CASE CycleReorderBuffer
  <2>1. /\ NextFused = InBuffer' /\ Len(group) = NextFused - InBuffer
        /\ InBuffer \in Nat /\ NextFused \in Nat
    BY <1>3, GroupEntered
  <2>2. CoreIssued = InBuffer + Len(group) /\ CoreIssued' = InBuffer' + 0
    BY <1>3 DEF CycleReorderBuffer, BeginMoveReady, EnterLoop, CoreIssued, GroupStamped, InBuffer
  <2>3. \A f \in Uops : fused'[f].issued = fused[f].issued
    BY <1>1, <1>3, RetireKeepsIssue
  <2> QED
    BY <2>1, <2>2, <2>3 DEF IssuedInv, Issued
<1>4. CASE ~IssueMerges /\ ~EndIssue /\ ~CycleReorderBuffer
  <2>1. fused' = fused /\ (phase' = "rob" <=> phase = "rob") /\ InBuffer' = InBuffer
    BY <1>4, FusedWriters, BorderStep
  <2>2. phase = "rob" => group' = group
    <3>1. CASE Quiet
      BY <3>1
         DEF Quiet, IssueLam, IssueMerges, EndIssue, Deliver, Stall, NoFill, Stop, Done, vars,
             loopVars
    <3>2. CASE Tick
      BY <3>2 DEF Tick
    <3>3. CASE SchedulerNext
      BY <2>1, <3>3
         DEF SchedulerNext, MoveReadyUop, EndMoveReady, VisitFused, SkipUop, AddNewUop,
             BeginDispatch, DispatchUop, IdlePort, EndDispatch, FinishPendingUop, KeepPendingUop,
             EndPending, WakeDependent, BeginNonReady, MakeReady, StayNonReady, EndNonReady,
             EndSchedulerCycle, EnterLoop
    <3> QED
      BY <1>4, <3>1, <3>2, <3>3, Steps
  <2>3. CoreIssued' = CoreIssued
    BY <2>1, <2>2 DEF CoreIssued, GroupStamped, InBuffer
  <2> QED
    BY <2>1, <2>3 DEF IssuedInv, Issued
<1> QED
  BY <1>2, <1>3, <1>4

-----------------------------------------------------------------------------
(* The invariant holds.                                                    *)

LEMMA PlaceInit == Init => PlaceInv
<1> SUFFICES ASSUME Init
             PROVE  PlaceInv
  OBVIOUS
<1>1. TypeOK /\ OrderInv
  BY InitTyped, LengthInit, SequenceInit, StampInit, RoundInit DEF OrderInv
<1>2. /\ phase = "issue" /\ group = <<>> /\ clock = 0 /\ work = <<>> /\ stream \in DOMAIN Streams
      /\ \A u \in Uops : /\ uop[u].port = None /\ uop[u].ready = None /\ uop[u].disp = None
                         /\ uop[u].exec = None /\ dependents[u] = <<>> /\ fused[u].issued = None
      /\ rs = {} /\ prevDispatched = {} /\ portUsage = [p \in Ports |-> 0]
      /\ \A q \in Queues : readyQueue[q] = {}
      /\ DOMAIN readyInCycle = {} /\ nonReady = <<>> /\ pending = <<>>
  BY DEF Init, StorageInit, SchedulerInit
<1>3. InBuffer = 0 /\ CoreIssued = 0 /\ Visited = 0
  <2>1. Len(log) = 0 /\ Len(retireQueue) = 0 /\ Len(rob) = 0
    BY EmptySeq DEF Init, RobInit
  <2> QED
    BY <1>2, <2>1 DEF InBuffer, CoreIssued, CoreRetired, GroupStamped, Visited
<1>4. \A u \in Uops : u \in Nat /\ u > 0 /\ FusedOf(u) \in Nat /\ FusedOf(u) > 0
  BY <1>2, UopIdsExact, NumUopsAssumption DEF Uops
<1>5. /\ AddWork = <<>> /\ ReadyWork = <<>> /\ WaitWork = <<>> /\ PendWork = <<>> /\ Waking = <<>>
      /\ DOMAIN <<>> = {}
  BY <1>2, EmptySeq, LenProperties
     DEF AddWork, ReadyWork, WaitWork, PendWork, Waking, WorkIn
<1>6. StageInv
  BY <1>2, <1>3, <1>4 DEF StageInv, Added
<1>7. AddInv
  BY <1>2, <1>3, <1>4, <1>5 DEF AddInv, Added
<1>8. WaitInv
  <2>1. \A s \in WaitSlots : DOMAIN WaitLists[s] = {}
    <3> TAKE s \in WaitSlots
    <3>1. WaitLists[s] = <<>>
      BY <1>1, <1>2, <1>5, ListsTyped, WaitSlotCases
    <3> QED
      BY <1>5, <3>1
  <2>2. Separate(WaitLists) /\ \A u : ~Holds(WaitLists, u)
    BY <1>1, <2>1, ListsTyped DEF Separate, Holds, Contains
  <2> QED
    BY <1>2, <2>2 DEF WaitInv, Added
<1>9. PendInv
  <2>1. \A s \in {0, 1} : DOMAIN PendLists[s] = {}
    BY <1>2, <1>5 DEF PendLists
  <2>2. Separate(PendLists) /\ \A u : ~Holds(PendLists, u)
    BY <1>1, <2>1, ListsTyped DEF Separate, Holds, Contains
  <2> QED
    BY <1>2, <2>2 DEF PendInv
<1>10. ReadyInv
  BY <1>2, <1>5 DEF ReadyInv
<1>11. RsInv
  BY <1>2 DEF RsInv, Added, None
<1>12. UsageInv
  <2>1. DispatchedNow = {}
    BY <1>2 DEF DispatchedNow, None
  <2>2. \A p \in Ports : Charged(p) = {}
    BY <1>2, <2>1 DEF Charged
  <2> QED
    BY <1>2, <2>2, FS_EmptySet DEF UsageInv
<1>13. IssuedInv
  BY <1>2, <1>3, <1>4 DEF IssuedInv, Issued
<1> QED
  BY <1>6, <1>7, <1>8, <1>9, <1>10, <1>11, <1>12, <1>13 DEF PlaceInv

LEMMA PlaceStep ==
  ASSUME TypeOK, OrderInv, TypeOK', OrderInv', PlaceInv, [Next]_vars
  PROVE  PlaceInv'
<1>1. StageInv /\ AddInv /\ IssuedInv
  BY DEF PlaceInv
<1>2. StageInv' /\ AddInv' /\ WaitInv' /\ PendInv'
  BY <1>1, StageStep, AddStep, WaitStep, PendStep
<1>3. ReadyInv' /\ RsInv' /\ UsageInv' /\ IssuedInv'
  BY <1>1, ReadyStep, RsStep, UsageStep, IssuedStep
<1> QED
  BY <1>2, <1>3 DEF PlaceInv

(* The lists, queues and counters of the scheduler are always those the    *)
(* stamps of the uops call for, on every stream that MergesAssumption      *)
(* admits: one whose synchronised instructions have no register merges.    *)
THEOREM PlaceCorrect == Spec => []PlaceInv
<1>1. Init => PlaceInv
  BY PlaceInit
<1>2. TypeOK /\ OrderInv /\ TypeOK' /\ OrderInv' /\ PlaceInv /\ [Next]_vars => PlaceInv'
  BY PlaceStep
<1> QED
  BY <1>1, <1>2, TypeCorrect, OrderCorrect, PTL DEF Spec

(* The port usage counters the port assignment balances by are exact: no   *)
(* uop is charged twice and none is released that was not charged, unless  *)
(* the renamer issues merge uops twice, which MergesAssumption excludes.   *)
THEOREM PortUsage == Spec => []PortUsageExact
<1>1. TypeOK /\ PlaceInv => PortUsageExact
  <2> SUFFICES ASSUME TypeOK, PlaceInv, phase = "issue", NEW p \in Ports
               PROVE  portUsage[p] = Cardinality({u \in rs \cup prevDispatched : uop[u].port = p})
    BY DEF PortUsageExact, BetweenCycles
  <2>1. \A u \in Uops : uop[u].disp # clock
    BY StampsTyped DEF PlaceInv, RsInv, Early
  <2>2. Charged(p) = {u \in rs \cup prevDispatched : uop[u].port = p}
    BY <2>1 DEF Charged, DispatchedNow
  <2> QED
    BY <2>2 DEF PlaceInv, UsageInv
<1> QED
  BY <1>1, PlaceCorrect, TypeCorrect, PTL

-----------------------------------------------------------------------------
(* Stamps are final.                                                       *)

LEMMA UopStampsKept ==
  ASSUME TypeOK, OrderInv, PlaceInv, [Next]_vars, NEW u \in Uops
  PROVE  /\ uop[u].port # None  => uop'[u].port = uop[u].port
         /\ uop[u].ready # None => uop'[u].ready = uop[u].ready
         /\ uop[u].disp # None  => uop'[u].disp = uop[u].disp
         /\ uop[u].exec # None  => uop'[u].exec = uop[u].exec
<1>1. StageInv /\ AddInv /\ WaitInv /\ PendInv /\ ReadyInv
  BY DEF PlaceInv
<1>2. CASE AddNewUop
  <2>1. /\ phase = "add" /\ work # <<>> /\ NeedsPort(Head(work))
        /\ KeepsReady /\ KeepsDisp /\ KeepsExec
        /\ \A v \in Uops \ {Head(work)} : uop'[v] = uop[v]
    BY <1>2, AddEffect
  <2>2. ~Added(Head(work))
    BY <1>1, <2>1, HeadToAdd
  <2> QED
    BY <2>1, <2>2 DEF Added, KeepsReady, KeepsDisp, KeepsExec
<1>3. CASE MakeReady
  <2>1. /\ uop[Head(work)].ready = None /\ KeepsPort /\ KeepsDisp /\ KeepsExec
        /\ \A v \in Uops \ {Head(work)} : uop'[v] = uop[v]
    BY <1>3, ReadyEffect
  <2> QED
    BY <2>1 DEF KeepsPort, KeepsDisp, KeepsExec
<1>4. CASE DispatchUop
  <2>1. KeepsPort /\ KeepsReady /\ KeepsExec /\ phase = "dispatch"
    BY <1>4, DispatchEffect
  <2>2. PICK q \in Queues, v \in Uops :
          v \in readyQueue[q] /\ \A w \in Uops \ {v} : uop'[w] = uop[w]
    BY <1>4, DispatchEffect
  <2>3. uop[v].disp = None
    BY <1>1, <2>1, <2>2, QueuedStage
  <2> QED
    BY <2>1, <2>2, <2>3 DEF KeepsPort, KeepsReady, KeepsExec
<1>5. CASE FinishPendingUop
  <2>1. /\ KeepsPort /\ KeepsReady /\ KeepsDisp /\ phase = "pending" /\ work # <<>>
        /\ \A v \in Uops \ {Head(work)} : uop'[v] = uop[v]
    BY <1>5, FinishEffect
  <2>2. uop[Head(work)].exec = None
    BY <1>1, <2>1, HeadToFinish
  <2> QED
    BY <2>1, <2>2 DEF KeepsPort, KeepsReady, KeepsDisp
<1>6. CASE CycleReorderBuffer
  <2>1. /\ KeepsPort /\ KeepsReady /\ KeepsDisp
        /\ \A v \in Uops : uop'[v].exec =
             IF ~NeedsPort(v) /\ \E i \in DOMAIN group : v \in UopIds(group[i])
             THEN clock ELSE uop[v].exec
    BY <1>6, BufferEffect
  <2>2. /\ InBuffer \in Nat /\ FusedOf(u) \in Nat
        /\ (\E i \in DOMAIN group : u \in UopIds(group[i])) => InBuffer < FusedOf(u)
    BY <1>6, GroupEntered, StampsTyped, UopIdsExact, ConstantsTyped
  <2>3. ~NeedsPort(u) /\ uop[u].exec # None => FusedOf(u) <= InBuffer
    BY <1>1 DEF StageInv
  <2> QED
    BY <2>1, <2>2, <2>3 DEF KeepsPort, KeepsReady, KeepsDisp
<1>7. CASE uop' = uop
  BY <1>7
<1> QED
  BY <1>2, <1>3, <1>4, <1>5, <1>6, <1>7, StorageWriters

LEMMA FusedStampsKept ==
  ASSUME TypeOK, OrderInv, TypeOK', OrderInv', IssuedInv, [Next]_vars, NEW f \in Uops
  PROVE  /\ Issued(f)  => fused'[f].issued = fused[f].issued
         /\ Retired(f) => fused'[f].retired = fused[f].retired
<1>1. f \in Nat /\ SequenceInv /\ StampInv
  BY ConstantsTyped DEF OrderInv
<1>2. CASE IssueMerges \/ EndIssue
  <2>1. fused'[f].retired = fused[f].retired
    BY <1>2, MarkIssuedFrame DEF IssueMerges, EndIssue
  <2>2. /\ CoreIssued = InBuffer
        /\ fused'[f] = IF InBuffer < f /\ f <= CoreIssued'
                       THEN [fused[f] EXCEPT !.issued = clock] ELSE fused[f]
        /\ InBuffer \in Nat
    BY <1>2, GroupStamp
  <2>3. Issued(f) => ~(InBuffer < f)
    BY <1>1, <2>2 DEF IssuedInv
  <2> QED
    BY <2>1, <2>2, <2>3
<1>3. CASE CycleReorderBuffer
  <2>1. fused'[f].issued = fused[f].issued
    BY <1>3, RetireKeepsIssue
  <2>2. PICK n \in 0..Len(rob) : RetireUops(n)
    BY <1>3 DEF CycleReorderBuffer, ReorderBufferCycle
  <2>3. f <= CoreRetired => fused'[f] = fused[f]
    BY <1>1, <2>2, StampRetire
  <2>4. Retired(f) => f <= CoreRetired
    BY <1>1 DEF StampInv
  <2> QED
    BY <2>1, <2>3, <2>4
<1>4. CASE ~IssueMerges /\ ~EndIssue /\ ~CycleReorderBuffer
  BY <1>4, FusedWriters
<1> QED
  BY <1>2, <1>3, <1>4

(* No step changes a stamp that has been written: each uop becomes ready,  *)
(* is dispatched and executes once, each fused uop is issued and retires   *)
(* once, although five loops write the stamps. (A second issue of merge    *)
(* uops would write them again: MergesAssumption.)                         *)
THEOREM StampsFinal == Spec => StampsWrittenOnce
<1>1. ASSUME TypeOK, OrderInv, TypeOK', OrderInv', PlaceInv, [Next]_vars
      PROVE  [/\ \A u \in Uops :
                   /\ uop[u].ready # None => uop'[u].ready = uop[u].ready
                   /\ uop[u].disp # None  => uop'[u].disp = uop[u].disp
                   /\ uop[u].exec # None  => uop'[u].exec = uop[u].exec
              /\ \A f \in Uops :
                   /\ Issued(f)  => fused'[f].issued = fused[f].issued
                   /\ Retired(f) => fused'[f].retired = fused[f].retired]_vars
  <2>1. IssuedInv
    BY <1>1 DEF PlaceInv
  <2> QED
    BY <1>1, <2>1, UopStampsKept, FusedStampsKept
<1> QED
  BY <1>1, TypeCorrect, OrderCorrect, PlaceCorrect, PTL DEF Spec, StampsWrittenOnce

-----------------------------------------------------------------------------
(* Every uop is at one place.                                              *)

(* The places of a uop between two cycles, by stage.                       *)
WaitsAt(u) == {v \in Uops : Contains(dependents[v], u) /\ uop[v].exec = None}
QueuedAt(u) == {q \in Queues : u \in readyQueue[q]}
DueAt(u) == {c \in DOMAIN readyInCycle : c >= clock /\ Contains(readyInCycle[c], u)}
At(s, u) == {i \in DOMAIN s : s[i] = u}

LEMMA PlacesByStage ==
  ASSUME NEW u
  PROVE  Places(u) =
           {<<"dependent", s>> : s \in WaitsAt(u)} \cup {<<"non ready", i>> : i \in At(nonReady, u)}
           \cup {<<"ready in", c>> : c \in DueAt(u)} \cup {<<"ready", q>> : q \in QueuedAt(u)}
           \cup {<<"pending", i>> : i \in At(pending, u)}
           \cup (IF uop[u].exec # None THEN {<<"executed", u>>} ELSE {})
BY DEF Places, WaitsAt, QueuedAt, DueAt, At

LEMMA WaitingPlace ==
  ASSUME TypeOK, WaitInv, phase = "issue", NEW u \in Uops
  PROVE  IF Added(u) /\ uop[u].ready = None
         THEN \/ At(nonReady, u) = {} /\ \E s : WaitsAt(u) = {s}
              \/ WaitsAt(u) = {} /\ \E i : At(nonReady, u) = {i}
         ELSE WaitsAt(u) = {} /\ At(nonReady, u) = {}
<1>1. /\ WaitLists[-1] = <<>> /\ WaitLists[-2] = <<>> /\ WaitLists[0] = nonReady
      /\ \A s \in Uops : WaitLists[s] = dependents[s] /\ s \in WaitSlots /\ s # 0
      /\ DOMAIN WaitLists = WaitSlots /\ 0 \in WaitSlots /\ DOMAIN <<>> = {}
  <2>1. \A s \in Uops : s # 0
    BY ListsTyped
  <2> QED
    BY <2>1, ListsTyped, EmptySeq, LenProperties DEF Waking, WaitWork, WorkIn
<1>2. \A v \in WaitsAt(u) : v \in Uops /\ \E i \in DOMAIN WaitLists[v] : WaitLists[v][i] = u
  BY <1>1 DEF WaitsAt, Contains
<1>3. \A i \in At(nonReady, u) : i \in DOMAIN WaitLists[0] /\ WaitLists[0][i] = u
  BY <1>1 DEF At
<1>4. ASSUME NEW s \in WaitSlots, NEW i \in DOMAIN WaitLists[s], WaitLists[s][i] = u
      PROVE  \/ s \in WaitsAt(u)
             \/ s = 0 /\ i \in At(nonReady, u)
  <2>1. CASE s \in Uops
    <3>1. Contains(dependents[s], u) /\ dependents[s] # <<>>
      BY <1>1, <1>4, <2>1 DEF Contains
    <3>2. uop[s].exec = None
      BY <2>1, <3>1 DEF WaitInv
    <3> QED
      BY <2>1, <3>1, <3>2 DEF WaitsAt
  <2>2. CASE s = 0
    BY <1>1, <1>4, <2>2 DEF At
  <2>3. CASE s = -1 \/ s = -2
    BY <1>1, <1>4, <2>3
  <2> QED
    BY <2>1, <2>2, <2>3, WaitSlotCases
<1>5. CASE ~(Added(u) /\ uop[u].ready = None)
  <2>1. ~Holds(WaitLists, u)
    BY <1>5 DEF WaitInv
  <2>2. WaitsAt(u) = {}
    BY <1>1, <1>2, <2>1 DEF Holds, Contains
  <2>3. At(nonReady, u) = {}
    BY <1>1, <1>3, <2>1 DEF Holds, Contains
  <2> QED
    BY <1>5, <2>2, <2>3
<1>6. CASE Added(u) /\ uop[u].ready = None
  <2>1. Holds(WaitLists, u)
    BY <1>6 DEF WaitInv
  <2>2. PICK s \in WaitSlots : \E i \in DOMAIN WaitLists[s] : WaitLists[s][i] = u
    BY <1>1, <2>1 DEF Holds, Contains
  <2>8. PICK i \in DOMAIN WaitLists[s] : WaitLists[s][i] = u
    BY <2>2
  <2>3. \A t \in WaitSlots : \A j \in DOMAIN WaitLists[t] : WaitLists[t][j] = u => t = s /\ j = i
    BY <1>1, <2>2, <2>8 DEF WaitInv, Separate
  <2>4. \A v \in WaitsAt(u) : v = s /\ s # 0
    BY <1>1, <1>2, <2>3
  <2>5. \A j \in At(nonReady, u) : s = 0 /\ j = i
    BY <1>1, <1>3, <2>3
  <2>6. CASE s \in WaitsAt(u)
    <3>1. WaitsAt(u) = {s} /\ At(nonReady, u) = {}
      BY <2>4, <2>5, <2>6
    <3> QED
      BY <1>6, <3>1
  <2>7. CASE s = 0 /\ i \in At(nonReady, u)
    <3>1. WaitsAt(u) = {} /\ At(nonReady, u) = {i}
      BY <2>4, <2>5, <2>7
    <3> QED
      BY <1>6, <3>1
  <2> QED
    BY <1>4, <2>2, <2>8, <2>6, <2>7
<1> QED
  BY <1>5, <1>6

LEMMA QueuedPlace ==
  ASSUME TypeOK, StageInv, ReadyInv, phase = "issue", NEW u \in Uops
  PROVE  IF uop[u].ready # None /\ uop[u].disp = None
         THEN \/ DueAt(u) = {} /\ \E q : QueuedAt(u) = {q}
              \/ QueuedAt(u) = {} /\ \E c : DueAt(u) = {c}
         ELSE QueuedAt(u) = {} /\ DueAt(u) = {}
<1>1. \A q \in QueuedAt(u) :
        q = QueueOf(u) /\ uop[u].ready # None /\ Due(uop[u].ready) /\ uop[u].disp = None
  BY DEF ReadyInv, QueuedAt
<1>2. \A c \in DueAt(u) : c = uop[u].ready /\ c # None /\ ~Due(c) /\ uop[u].disp = None
  BY ReadyTyped DEF ReadyInv, DueAt, Contains
<1>3. CASE ~(uop[u].ready # None /\ uop[u].disp = None)
  BY <1>1, <1>2, <1>3
<1>4. CASE uop[u].ready # None /\ uop[u].disp = None /\ Due(uop[u].ready)
  <2>1. DOMAIN ReadyWork = {}
    BY EmptySeq, LenProperties DEF ReadyWork, WorkIn
  <2>2. u \in readyQueue[QueueOf(u)] /\ QueueOf(u) \in Queues
    BY <1>4, <2>1, QueueOfTyped DEF ReadyInv, Contains
  <2>3. QueuedAt(u) = {QueueOf(u)}
    BY <1>1, <2>2 DEF QueuedAt
  <2>4. DueAt(u) = {}
    BY <1>2, <1>4
  <2> QED
    BY <1>4, <2>3, <2>4
<1>5. CASE uop[u].ready # None /\ uop[u].disp = None /\ ~Due(uop[u].ready)
  <2>1. /\ uop[u].ready \in DOMAIN readyInCycle
        /\ Contains(readyInCycle[uop[u].ready], u)
    BY <1>5 DEF ReadyInv
  <2>2. uop[u].ready >= clock
    BY <1>5, StampsTyped DEF Due
  <2>3. DueAt(u) = {uop[u].ready}
    BY <1>2, <2>1, <2>2 DEF DueAt
  <2>4. QueuedAt(u) = {}
    BY <1>1, <1>5
  <2> QED
    BY <1>5, <2>3, <2>4
<1> QED
  BY <1>3, <1>4, <1>5

LEMMA PendingPlace ==
  ASSUME TypeOK, PendInv, phase = "issue", NEW u \in Uops
  PROVE  IF uop[u].disp # None /\ uop[u].exec = None THEN \E i : At(pending, u) = {i}
         ELSE At(pending, u) = {}
<1>1. /\ PendLists[0] = pending /\ DOMAIN PendLists = {0, 1}
      /\ DOMAIN PendLists[1] = {}
  BY ListsTyped, EmptySeq, LenProperties DEF PendWork, WorkIn
<1>2. \A i \in At(pending, u) : i \in DOMAIN PendLists[0] /\ PendLists[0][i] = u
  BY <1>1 DEF At
<1>3. CASE ~(uop[u].disp # None /\ uop[u].exec = None)
  <2>1. ~Holds(PendLists, u)
    BY <1>3 DEF PendInv
  <2> QED
    BY <1>1, <1>2, <1>3, <2>1 DEF Holds, Contains
<1>4. CASE uop[u].disp # None /\ uop[u].exec = None
  <2>1. Holds(PendLists, u)
    BY <1>4 DEF PendInv
  <2>2. PICK i \in DOMAIN PendLists[0] : PendLists[0][i] = u
    BY <1>1, <2>1 DEF Holds, Contains
  <2>3. \A j \in DOMAIN PendLists[0] : PendLists[0][j] = u => j = i
    BY <1>1, <2>2 DEF PendInv, Separate
  <2>4. At(pending, u) = {i}
    BY <1>1, <2>2, <2>3 DEF At
  <2> QED
    BY <1>4, <2>4
<1> QED
  BY <1>3, <1>4

LEMMA PlacedOnce ==
  ASSUME TypeOK, PlaceInv, phase = "issue", NEW u \in Uops, Added(u)
  PROVE  \E x : Places(u) = {x}
<1>1. StageInv /\ WaitInv /\ PendInv /\ ReadyInv
  BY DEF PlaceInv
<1>2. /\ uop[u].exec # None => uop[u].disp # None
      /\ uop[u].disp # None => uop[u].ready # None
  BY <1>1 DEF StageInv
<1> DEFINE W == {<<"dependent", s>> : s \in WaitsAt(u)}
<1> DEFINE N == {<<"non ready", i>> : i \in At(nonReady, u)}
<1> DEFINE R == {<<"ready in", c>> : c \in DueAt(u)}
<1> DEFINE Q == {<<"ready", q>> : q \in QueuedAt(u)}
<1> DEFINE P == {<<"pending", i>> : i \in At(pending, u)}
<1> DEFINE E == IF uop[u].exec # None THEN {<<"executed", u>>} ELSE {}
<1>3. Places(u) = W \cup N \cup R \cup Q \cup P \cup E
  BY PlacesByStage
<1>4. IF uop[u].ready = None
      THEN (N = {} /\ \E x : W = {x}) \/ (W = {} /\ \E x : N = {x})
      ELSE W = {} /\ N = {}
  <2>1. IF uop[u].ready = None
        THEN \/ At(nonReady, u) = {} /\ \E s : WaitsAt(u) = {s}
             \/ WaitsAt(u) = {} /\ \E i : At(nonReady, u) = {i}
        ELSE WaitsAt(u) = {} /\ At(nonReady, u) = {}
    BY <1>1, WaitingPlace
  <2>2. /\ WaitsAt(u) = {} => W = {}
        /\ \A s : WaitsAt(u) = {s} => W = {<<"dependent", s>>}
        /\ At(nonReady, u) = {} => N = {}
        /\ \A i : At(nonReady, u) = {i} => N = {<<"non ready", i>>}
    OBVIOUS
  <2> HIDE DEF W, N
  <2> QED
    BY <2>1, <2>2
<1>5. IF uop[u].ready # None /\ uop[u].disp = None
      THEN (R = {} /\ \E x : Q = {x}) \/ (Q = {} /\ \E x : R = {x})
      ELSE Q = {} /\ R = {}
  <2>1. IF uop[u].ready # None /\ uop[u].disp = None
        THEN \/ DueAt(u) = {} /\ \E q : QueuedAt(u) = {q}
             \/ QueuedAt(u) = {} /\ \E c : DueAt(u) = {c}
        ELSE QueuedAt(u) = {} /\ DueAt(u) = {}
    BY <1>1, QueuedPlace
  <2>2. /\ DueAt(u) = {} => R = {}
        /\ \A c : DueAt(u) = {c} => R = {<<"ready in", c>>}
        /\ QueuedAt(u) = {} => Q = {}
        /\ \A q : QueuedAt(u) = {q} => Q = {<<"ready", q>>}
    OBVIOUS
  <2> HIDE DEF R, Q
  <2> QED
    BY <2>1, <2>2
<1>6. IF uop[u].disp # None /\ uop[u].exec = None THEN \E x : P = {x} ELSE P = {}
  <2>1. IF uop[u].disp # None /\ uop[u].exec = None THEN \E i : At(pending, u) = {i}
        ELSE At(pending, u) = {}
    BY <1>1, PendingPlace
  <2>2. /\ At(pending, u) = {} => P = {}
        /\ \A i : At(pending, u) = {i} => P = {<<"pending", i>>}
    OBVIOUS
  <2> HIDE DEF P
  <2> QED
    BY <2>1, <2>2
<1>7. IF uop[u].exec # None THEN E = {<<"executed", u>>} ELSE E = {}
  OBVIOUS
<1> HIDE DEF W, N, R, Q, P, E
<1>8. CASE uop[u].ready = None
  BY <1>2, <1>3, <1>4, <1>5, <1>6, <1>7, <1>8
<1>9. CASE uop[u].ready # None /\ uop[u].disp = None
  BY <1>2, <1>3, <1>4, <1>5, <1>6, <1>7, <1>9
<1>10. CASE uop[u].disp # None
  BY <1>2, <1>3, <1>4, <1>5, <1>6, <1>7, <1>10
<1> QED
  BY <1>8, <1>9, <1>10

(* The fused uops of the stream are entries of the program's arrays.       *)
LEMMA StreamTyped ==
  ASSUME stream \in DOMAIN Streams
  PROVE  Stream \subseteq Uops
<1>1. Len(prog.lams) \in Lams
  BY ProgramTyped
<1>2. prog.lams[Len(prog.lams)].end \in Nat /\ prog.lams[Len(prog.lams)].end <= NumUops
  BY <1>1, LamTyped
<1> QED
  BY <1>2, NumUopsAssumption DEF Stream, Uops

(* Between two cycles every issued uop that needs a port has executed or   *)
(* is in exactly one list a later cycle looks at: none is lost, and none   *)
(* scheduled twice if the renamer issues it once (MergesAssumption).       *)
THEOREM Tracked == Spec => []TrackedOnce
<1>1. TypeOK /\ OrderInv /\ PlaceInv => TrackedOnce
  <2> SUFFICES ASSUME TypeOK, OrderInv, PlaceInv, phase = "issue",
                      NEW f \in Stream, NEW u \in UopIds(f), Issued(f), NeedsPort(u)
               PROVE  Cardinality(Places(u)) = 1
    BY DEF TrackedOnce, BetweenCycles
  <2>1. stream \in DOMAIN Streams /\ InBuffer \in Nat
    BY StampsTyped, BordersTyped DEF OrderInv
  <2>2. f \in Uops
    BY <2>1, StreamTyped
  <2>3. u \in Uops /\ FusedOf(u) = f
    <3>1. u \in Uops
      BY <2>1, <2>2, ProgramTyped, ElementOfSeq, LenProperties DEF UopIds
    <3> QED
      BY <2>1, <2>2, <3>1, UopIdsExact
  <2>4. f <= CoreIssued /\ CoreIssued = InBuffer /\ Visited = InBuffer
    <3>1. CoreIssued = InBuffer + 0
      BY DEF CoreIssued, GroupStamped, InBuffer
    <3> QED
      BY <2>1, <2>2, <3>1 DEF PlaceInv, IssuedInv, Visited
  <2>5. ~Contains(AddWork, u)
    BY EmptySeq, LenProperties DEF AddWork, WorkIn, Contains
  <2>6. Added(u)
    BY <2>3, <2>4, <2>5 DEF PlaceInv, AddInv
  <2>7. PICK x : Places(u) = {x}
    BY <2>3, <2>6, PlacedOnce
  <2> QED
    BY <2>7, FS_Singleton
<1> QED
  BY <1>1, TypeCorrect, OrderCorrect, PlaceCorrect, PTL
=============================================================================
