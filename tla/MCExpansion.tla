---------------------------- MODULE MCExpansion ----------------------------
(***************************************************************************)
(* From the data of instructions to the uops that are issued, on small     *)
(* instances of each part: packs and the choice of a record, what is known *)
(* of an instruction, its registers, its uops, and how those share slots.  *)
(* A behaviour is about one of the parts; the variables of the others      *)
(* stand still.                                                            *)
(***************************************************************************)
EXTENDS Integers, Sequences, FiniteSets, TLC

CONSTANTS
  Explored,                    \* the parts to look at
  MaxInstrs, NDecoders, MovzxHigh8AliasCanBeEliminated, Pop5CRequiresComplexDecoder, Pop5CEndsDecodeGroup,
  MaxOperands,
  MaxUops, MaxSlots, MaxWidth,
  Unknown, JE, JZ, LEA, MEM, AGEN, RM, ADD, B_D8, OPS, NoForm, REP, S1, S2   \* names in MCData

VARIABLES
  part,
  block, offset, noMicroFusion, noMacroFusion,
  operands, address,
  setup, rows,
  accesses, slots, width, unfused, phase, queue, round, fused, laminated,
  pack, file, damaged, table, instr, left, stage
factVars  == <<block, offset, noMicroFusion, noMacroFusion>>
planVars  == <<setup, rows>>
groupVars == <<accesses, slots, width, unfused, phase, queue, round, fused, laminated>>
dataVars  == <<pack, file, damaged, table, instr, left, stage>>

-----------------------------------------------------------------------------
(* Instructions: what the decoder says of them, and their records.         *)
NoRecord == [perf |-> <<>>]
Perf(uops, n, mite, ms, ports) ==
  [uops |-> uops, slots |-> n, mite |-> mite, ms |-> ms, complex |-> FALSE, simple |-> 3, ports |-> ports]
Record(str, perf) ==
  [perf |-> perf, sr |-> <<>>, ix |-> <<>>, eliminable |-> FALSE, move |-> FALSE, movzx |-> FALSE, lcp |-> FALSE,
   noFusion |-> FALSE, with |-> {}, str |-> str, rsp |-> 0]
Instr(len, rec) ==
  [len |-> len, rsp |-> 0, lcp |-> FALSE, high8 |-> FALSE, jump |-> FALSE, sameReg |-> FALSE, indexed |-> FALSE,
   lowAlias |-> FALSE, pop5C |-> FALSE, zeroIdiom |-> FALSE, rec |-> rec]

Alu == Record("ADD", Perf(1, 1, 1, 0, 1))
Cmp == [Record("CMP", Perf(1, 1, 1, 0, 1)) EXCEPT !.with = {"JZ"}]
Jz == Record("JZ", Perf(1, 1, 1, 0, 1))
Move == [Record("MOV", Perf(0, 1, 1, 0, 0)) EXCEPT !.move = TRUE, !.sr = [uops |-> 1, ports |-> 1]]
Movzx == [Record("MOVZX", Perf(0, 1, 1, 0, 0)) EXCEPT !.move = TRUE, !.movzx = TRUE, !.sr = [uops |-> 1]]
Zeroing == Record("XOR", Perf(1, 1, 1, 0, 1))
AddMem == [Record("ADDM", Perf(2, 1, 1, 0, 2)) EXCEPT !.ix = [slots |-> 2]]
Rmw == [Record("ADDMR", Perf(4, 2, 2, 0, 4)) EXCEPT !.ix = [slots |-> 3, mite |-> 3], !.lcp = TRUE]
Six == Record("SIX", Perf(6, 6, 4, 0, 6))
Micro == Record("MICRO", Perf(9, 8, 1, 7, 8))
Pop == [Record("POP", Perf(1, 1, 1, 0, 1)) EXCEPT !.rsp = 8]
Strict == [Cmp EXCEPT !.noFusion = TRUE, !.str = "CMPX"]

MCInstrs ==
  {Instr(3, Alu), Instr(6, Cmp), [Instr(2, Jz) EXCEPT !.jump = TRUE], [Instr(2, [Jz EXCEPT !.noFusion = TRUE]) EXCEPT !.jump = TRUE], Instr(3, Strict),
   Instr(3, Move), [Instr(3, Move) EXCEPT !.sameReg = TRUE], Instr(4, Movzx), [Instr(4, Movzx) EXCEPT !.lowAlias = TRUE],
   [Instr(3, Zeroing) EXCEPT !.sameReg = TRUE, !.zeroIdiom = TRUE], [Instr(3, AddMem) EXCEPT !.indexed = TRUE],
   [Instr(5, Rmw) EXCEPT !.lcp = TRUE, !.indexed = TRUE], Instr(4, Rmw), Instr(8, Six), Instr(2, Micro),
   [Instr(1, Pop) EXCEPT !.rsp = 8], [Instr(2, Pop) EXCEPT !.rsp = 8, !.pop5C = TRUE],
   [Instr(2, Alu) EXCEPT !.high8 = TRUE], Instr(3, NoRecord), [Instr(2, NoRecord) EXCEPT !.jump = TRUE]}

-----------------------------------------------------------------------------
(* Registers: two that implicit operands use, and a byte register.         *)
MCNames == {<<"rax", 64>>, <<"rdx", 64>>, <<"rcx", 8>>}
MCAddressNames == {<<"rdx", 64>>, <<"rcx", 64>>}

-----------------------------------------------------------------------------
(* Records.                                                                *)
Reg(r, w) == [type |-> "reg", read |-> r, write |-> w]
Flag(r, w) == [type |-> "flags", read |-> r, write |-> w]
Mem(r, w, b, i) == [type |-> "mem", read |-> r, write |-> w, base |-> b, index |-> i]
Agen(b, i) == [type |-> "agen", base |-> b, index |-> i]

A == {"0", "1", "5"}
D == {"4"}
L == {"2", "3"}
S == {"2", "3", "7"}

\* computing on registers and flags or an address, one to three uops
RegPorts == {<<>>, <<A>>, <<A, {"0"}>>, <<A, A, {"5"}>>}
RegKinds == {Reg(TRUE, FALSE), Reg(TRUE, TRUE), Reg(FALSE, TRUE), Flag({"C"}, {"C", "SPAZO"}), Flag({}, {"SPAZO"}), Agen(TRUE, TRUE)}
RegCycles == {0, 1, 2}
Records(data, kinds, cycles, most, retireSlots, maybeEliminated) ==
  {[ports |-> p, kinds |-> kinds, cycles |-> cycles, maxOperands |-> most, slots |-> n, eliminable |-> e] :
     p \in data, n \in retireSlots, e \in maybeEliminated}

\* three operands, up to three latencies
ClassPorts == {<<A, {"0"}>>, <<A, A, {"5"}>>}
ClassKinds == {Reg(TRUE, TRUE), Flag({"C"}, {"C"})}

\* accessing memory: loads, stores, both, too many or too few of either
MemPorts == {<<L>>, <<A, L>>, <<A, A, L, D, S>>, <<D, L>>, <<A, D, D, L, S>>, <<D, D, S>>}
MemKinds == {Reg(TRUE, TRUE), Mem(TRUE, FALSE, TRUE, FALSE), Mem(FALSE, TRUE, TRUE, TRUE), Mem(TRUE, TRUE, TRUE, FALSE)}
MemCycles == {6, 9}
MCSetups ==
  Records(RegPorts, RegKinds, RegCycles, 2, {1, 3}, {FALSE, TRUE}) \cup Records(ClassPorts, ClassKinds, RegCycles, 3, {1}, {FALSE})
  \cup Records(MemPorts, MemKinds, MemCycles, 2, {4}, {FALSE})

-----------------------------------------------------------------------------
Facts    == INSTANCE InstrFacts WITH Instrs <- MCInstrs, Offsets <- {0, 58}
Operands == INSTANCE Operands WITH Names <- MCNames, AddressNames <- MCAddressNames
Plans    == INSTANCE UopPlans WITH Setups <- MCSetups
Groups   == INSTANCE UopGroups
Data     == INSTANCE MCData

NoFacts  == block = 0 /\ offset = 0 /\ noMicroFusion = 0 /\ noMacroFusion = 0
NoRows   == setup = 0 /\ rows = 0
NoGroups == /\ accesses = 0 /\ slots = 0 /\ width = 0 /\ unfused = 0 /\ phase = 0 /\ queue = 0 /\ round = 0
            /\ fused = 0 /\ laminated = 0
NoData   == pack = 0 /\ file = 0 /\ damaged = 0 /\ table = 0 /\ instr = 0 /\ left = 0 /\ stage = 0

Init ==
  /\ part \in Explored
  /\ \/ part = "facts" /\ Facts!Init /\ operands = 0 /\ address = 0 /\ NoRows /\ NoGroups /\ NoData
     \/ part = "operands" /\ Operands!Init /\ NoFacts /\ NoRows /\ NoGroups /\ NoData
     \/ part = "plans" /\ Plans!Init /\ NoFacts /\ address = 0 /\ NoGroups /\ NoData
     \/ part = "groups" /\ Groups!Init /\ NoFacts /\ operands = 0 /\ address = 0 /\ NoRows /\ NoData
     \/ part = "data" /\ Data!Init /\ NoFacts /\ operands = 0 /\ address = 0 /\ rows = 0 /\ NoGroups
Next ==
  \/ part = "facts" /\ Facts!Next /\ UNCHANGED <<part, operands, address, planVars, groupVars, dataVars>>
  \/ part = "operands" /\ Operands!Next /\ UNCHANGED <<part, factVars, planVars, groupVars, dataVars>>
  \/ part = "plans" /\ Plans!Next /\ UNCHANGED <<part, factVars, address, groupVars, dataVars>>
  \/ part = "groups" /\ Groups!Next /\ UNCHANGED <<part, factVars, operands, address, planVars, dataVars>>
  \/ part = "data" /\ Data!Next /\ UNCHANGED <<part, factVars, operands, address, rows, groupVars>>
Spec == Init /\ [][Next]_<<part, factVars, operands, address, planVars, groupVars, dataVars>>

(* A pack survives being written and read, its index finds every record,   *)
(* and damage to the file is refused or stays contained (encode_uipack,    *)
(* UiPackView, UiPackViewIndex; see UiPack).                               *)
PackSound == part = "data" => Data!PackSound

(* The record used is the best of those that fit the instruction           *)
(* (match_record; see Matcher).                                            *)
BestFits == part = "data" => Data!BestFits

(* The simulator and the analytical model derive the same facts from an    *)
(* instruction's record, and both map its operands to the registers the    *)
(* decoder found (populate_instr_instance_metadata,                        *)
(* mapped_record_operands, emit_lam_uops; see InstrFacts and Operands).    *)
InstructionsKnown == (part = "facts" => Facts!FactsSound) /\ (part = "operands" => Operands!OperandsExact)

(* The uops of an instruction read, write and take as long as its record   *)
(* says, and share slots as its counts say (compute_uop_plans_inner,       *)
(* emit_lam_uops; see UopPlans and UopGroups).                             *)
UopsAsRecorded == (part = "plans" => Plans!PlansSound) /\ (part = "groups" => Groups!GroupsSound)

(* A record's register resolves through the order of all operands, as      *)
(* uop_expand.rs:1402 says.                                                *)
ResolvesThroughOrder == part = "operands" => Operands!ResolvesThroughOrder
=============================================================================
