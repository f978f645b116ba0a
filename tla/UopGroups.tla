------------------------------ MODULE UopGroups ------------------------------
(***************************************************************************)
(* How the uops of an instruction share slots (emit_lam_uops): they are    *)
(* grouped into fused uops, one for each slot of the reorder buffer, and   *)
(* those into laminated uops, one for each slot of the IDQ.  Both loops    *)
(* take the next item; one that accesses memory pulls the item behind it   *)
(* into its group while enough remain for the groups to come; the last     *)
(* group takes the rest.                                                   *)
(***************************************************************************)
EXTENDS Integers, Sequences, FiniteSets, SequencesExt, FiniteSetsExt, Folds

CONSTANTS MaxUops, MaxSlots, MaxWidth   \* bounds of the instructions

VARIABLES
  accesses,  \* for each uop, whether it may go to port 2, 3 or 7
  slots,     \* retire_slots
  width,     \* uops_mite + uops_ms
  unfused,   \* whether micro-fusion is switched off
  phase,     \* "fuse", "laminate" or "done"
  queue,     \* what is not in a group yet, uops or fused uops
  round,     \* iterations of the current loop
  fused, laminated
vars == <<accesses, slots, width, unfused, phase, queue, round, fused, laminated>>

\* The record's count of uops may exceed that of its ports; the plans are padded to the record's slots.
Counts(uops, recordSlots, recordWidth, off) ==
  LET slotsOff == Max({uops, recordWidth, 1}) IN
  IF off THEN [slots |-> slotsOff, width |-> slotsOff] ELSE [slots |-> recordSlots, width |-> recordWidth]

Init ==
  \E a \in SeqOf(BOOLEAN, MaxUops), recordSlots \in 1..MaxSlots, w \in 1..MaxWidth, uops \in 1..MaxUops, off \in BOOLEAN :
    /\ Len(a) >= recordSlots
    /\ LET c == Counts(uops, recordSlots, w, off) IN slots = c.slots /\ width = c.width
    /\ accesses = a /\ unfused = off
    /\ phase = "fuse" /\ queue = [k \in DOMAIN a |-> k]
    /\ round = 0 /\ fused = <<>> /\ laminated = <<>>

-----------------------------------------------------------------------------
\* whether the item pulls the one behind it, of n groups to make
Pulls(accessing, n) == accessing /\ Len(queue) - 1 >= n - round
NextGroup(accessing, n) == SubSeq(queue, 1, IF Pulls(accessing, n) THEN 2 ELSE 1)
Left(group) == SubSeq(queue, Len(group) + 1, Len(queue))

AccessesMemory(uop) == accesses[uop]
AloneAndAccesses(group) == Len(group) = 1 /\ accesses[group[1]]
NLaminated == Min({width, Len(fused)})

Fuse ==
  /\ phase = "fuse" /\ round < slots - 1 /\ queue # <<>>
  /\ LET g == NextGroup(AccessesMemory(Head(queue)), slots) IN
       queue' = Left(g) /\ fused' = Append(fused, g)
  /\ round' = round + 1
  /\ UNCHANGED <<accesses, slots, width, unfused, phase, laminated>>

FuseRest ==
  /\ phase = "fuse" /\ (round = slots - 1 \/ queue = <<>>)
  /\ fused' = fused \o (IF queue = <<>> THEN <<>> ELSE <<queue>>)
  /\ queue' = fused'
  /\ phase' = "laminate" /\ round' = 0
  /\ UNCHANGED <<accesses, slots, width, unfused, laminated>>

Laminate ==
  /\ phase = "laminate" /\ round < NLaminated - 1
  /\ LET g == NextGroup(AloneAndAccesses(Head(queue)), NLaminated) IN
       queue' = Left(g) /\ laminated' = Append(laminated, g)
  /\ round' = round + 1
  /\ UNCHANGED <<accesses, slots, width, unfused, phase, fused>>

LaminateRest ==
  /\ phase = "laminate" /\ round = NLaminated - 1
  /\ laminated' = laminated \o (IF queue = <<>> THEN <<>> ELSE <<queue>>)
  /\ queue' = <<>> /\ phase' = "done"
  /\ UNCHANGED <<accesses, slots, width, unfused, round, fused>>

Next == Fuse \/ FuseRest \/ Laminate \/ LaminateRest
Spec == Init /\ [][Next]_vars

-----------------------------------------------------------------------------
\* Every uop is in one fused uop and every fused uop in one laminated uop, in the order of the program, at any time.
OrderKept ==
  /\ FlattenSeq(fused) \o (IF phase = "fuse" THEN queue ELSE <<>>) = [k \in DOMAIN accesses |-> k]
  /\ phase # "fuse" => FlattenSeq(laminated) \o queue = fused

\* An instruction with at least as many uops as slots has a fused uop for each of its slots, and a laminated uop for each
\* that the decoder or the MS delivers, unless there are fewer fused ones.
SlotsExact ==
  Len(accesses) >= slots =>
    /\ phase # "fuse" => Len(fused) = slots
    /\ phase = "done" => Len(laminated) = Min({width, slots})

\* A group of several that is not the last is a pair, which a memory access begins; a laminated pair holds a single uop first.
PairsOfAccesses ==
  /\ \A k \in DOMAIN fused : Len(fused[k]) > 1 /\ (phase = "fuse" \/ k < Len(fused)) =>
       Len(fused[k]) = 2 /\ accesses[fused[k][1]]
  /\ \A k \in DOMAIN laminated : Len(laminated[k]) > 1 /\ (phase # "done" \/ k < Len(laminated)) =>
       Len(laminated[k]) = 2 /\ Len(laminated[k][1]) = 1 /\ accesses[laminated[k][1][1]]

\* Fusion is not put off: behind an access that stays alone nothing is fused any more, and likewise for lamination.
FusesEarliest ==
  Len(accesses) >= slots =>
    /\ \A k \in DOMAIN fused : Len(fused[k]) = 1 /\ accesses[fused[k][1]] =>
         \A j \in k + 1..Len(fused) : Len(fused[j]) = 1
    /\ \A k \in DOMAIN laminated : Len(laminated[k]) = 1 /\ AloneAndAccesses(laminated[k][1]) =>
         \A j \in k + 1..Len(laminated) : Len(laminated[j]) = 1

\* The groups are a partition of the uops into as many slots as there are to be.
GroupsSound == OrderKept /\ SlotsExact /\ PairsOfAccesses /\ FusesEarliest
=============================================================================
