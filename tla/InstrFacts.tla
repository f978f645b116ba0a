----------------------------- MODULE InstrFacts -----------------------------
(***************************************************************************)
(* What is known of an instruction before it runs, derived from its record *)
(* twice: for the simulator by populate_instr_instance_metadata            *)
(* (frontend.rs), and for the analytical limits by the loop of             *)
(* simulate_with_decoded_data_internal (engine.rs).  Macro fusion is found *)
(* twice too.                                                              *)
(*                                                                         *)
(* The block grows instruction by instruction; everything else is a        *)
(* function of it.                                                         *)
(***************************************************************************)
EXTENDS Integers, Sequences, FiniteSets, FiniteSetsExt, TLC

CONSTANTS
  Instrs,      \* instructions to choose from, see InstrsOK
  MaxInstrs,
  Offsets,     \* alignment offsets
  NDecoders,
  MovzxHigh8AliasCanBeEliminated, Pop5CRequiresComplexDecoder, Pop5CEndsDecodeGroup

(* What the decoder says of an instruction, and the record it matched, if  *)
(* it did.  move: a MOV from one register to another one.  movzx: MOVZX    *)
(* from the low byte; lowAlias: of a register whose low byte the high one  *)
(* of another aliases.  zeroIdiom: XOR and the like that read nothing.  sr *)
(* and ix replace the fields of perf that they have: for equal register    *)
(* operands, and for an indexed address.                                   *)
NoRecord == [perf |-> <<>>]
PerfFields == {"uops", "slots", "mite", "ms", "complex", "simple", "ports"}
InstrsOK == \A f \in Instrs :
  /\ f.len \in 1..15 /\ f.rsp \in Int /\ {f.lcp, f.high8, f.jump, f.sameReg, f.indexed, f.lowAlias, f.pop5C, f.zeroIdiom} \subseteq BOOLEAN
  /\ f.rec # NoRecord => /\ DOMAIN f.rec.perf = PerfFields
                         /\ DOMAIN f.rec.sr \cup DOMAIN f.rec.ix \subseteq PerfFields
                         /\ {f.rec.eliminable, f.rec.move, f.rec.movzx, f.rec.lcp, f.rec.noFusion} \subseteq BOOLEAN

VARIABLES block, offset, noMicroFusion, noMacroFusion
vars == <<block, offset, noMicroFusion, noMacroFusion>>
Init == InstrsOK /\ block = <<>> /\ offset \in Offsets /\ noMicroFusion \in BOOLEAN /\ noMacroFusion \in BOOLEAN
Extend(f) == block' = Append(block, f) /\ UNCHANGED <<offset, noMicroFusion, noMacroFusion>>
Next == Len(block) < MaxInstrs /\ \E f \in Instrs : Extend(f)
Spec == Init /\ [][Next]_vars

Least(a, b) == IF a < b THEN a ELSE b
Most(a, b) == IF a > b THEN a ELSE b

-----------------------------------------------------------------------------
(* The variant of a record that applies (uop_expand.rs).                   *)
OperandVariants(f) ==
  LET same == IF f.sameReg THEN f.rec.sr @@ f.rec.perf ELSE f.rec.perf IN
  IF f.indexed THEN f.rec.ix @@ same ELSE same
MovzxSpecialCase(f) == ~MovzxHigh8AliasCanBeEliminated /\ f.rec.movzx /\ f.lowAlias
MayBeEliminated(f) == f.rec.eliminable \/ (f.rec.move /\ OperandVariants(f).uops = 0 /\ ~MovzxSpecialCase(f))
UsesMoveElimFallback(f) == MayBeEliminated(f) \/ MovzxSpecialCase(f)
SelectedPerf(f) == IF UsesMoveElimFallback(f) THEN f.rec.sr @@ OperandVariants(f) ELSE OperandVariants(f)

DecoderShape(f, p) ==
  [complex |-> p.complex \/ p.mite + p.ms > 1 \/ p.ms > 0 \/ (f.pop5C /\ Pop5CRequiresComplexDecoder),
   simple |-> IF f.pop5C /\ Pop5CEndsDecodeGroup THEN 0 ELSE p.simple]

\* Both places have this text for an instruction none of whose uops may be fused.
Unfuse(p, x) ==
  LET slots == Most(1, Most(p.uops, x.mite + x.ms))
      mite == Least(4, slots - x.ms)
      ms == slots - mite IN
  [x EXCEPT !.slots = slots, !.mite = mite, !.ms = ms, !.complex = @ \/ mite > 1,
            !.simple = IF mite > 1 THEN Least(@, Least(5 - mite, IF ms > 0 THEN 0 ELSE 3)) ELSE @]
Counts(f) ==
  LET p == SelectedPerf(f)
      d == DecoderShape(f, p)
      x == [slots |-> Most(1, p.slots), mite |-> p.mite, ms |-> p.ms, complex |-> d.complex, simple |-> d.simple] IN
  IF noMicroFusion THEN Unfuse(p, x) ELSE x

-----------------------------------------------------------------------------
(* For the simulator.  An unmatched instruction keeps the values of a new  *)
(* instance.                                                               *)
SimRSP(f) == IF f.rec = NoRecord \/ f.rsp # 0 THEN f.rsp ELSE f.rec.rsp
SimLSD(f) ==
  IF f.rec = NoRecord THEN f.rsp = 0
  ELSE /\ SelectedPerf(f).ms = 0 /\ SimRSP(f) = 0 /\ ~f.high8
       /\ Counts(f).ms = 0
SimNoFusion(f) == f.rec # NoRecord /\ (f.rec.noFusion \/ noMacroFusion)
SimWith(f) == IF f.rec = NoRecord \/ SimNoFusion(f) THEN {} ELSE f.rec.with
SimPorts(f) ==
  LET n == SelectedPerf(f).ports IN
  CASE f.zeroIdiom -> 0
    [] ~f.zeroIdiom /\ n = 0 /\ UsesMoveElimFallback(f) -> 1
    [] OTHER -> n
Unmatched == [slots |-> 1, mite |-> 1, ms |-> 0, complex |-> FALSE, simple |-> 4]
SimFacts(f) ==
  [counts |-> IF f.rec = NoRecord THEN Unmatched ELSE Counts(f),
   lcp |-> f.lcp \/ (f.rec # NoRecord /\ f.rec.lcp), lsd |-> SimLSD(f), with |-> SimWith(f), noFusion |-> SimNoFusion(f),
   eliminable |-> f.rec # NoRecord /\ MayBeEliminated(f), ports |-> IF f.rec = NoRecord THEN 0 ELSE SimPorts(f)]

(* For the limits.                                                         *)
LimitLSD(f) == f.rec = NoRecord \/ (Counts(f).ms = 0 /\ f.rsp = 0 /\ ~f.high8)
LimitNoFusion(f) == f.rec # NoRecord /\ (f.rec.noFusion \/ noMacroFusion)
LimitWith(f) == IF f.rec = NoRecord \/ LimitNoFusion(f) THEN {} ELSE f.rec.with
LimitPorts(f) ==
  LET n == SelectedPerf(f).ports IN
  CASE f.zeroIdiom -> 0
    [] ~f.zeroIdiom /\ n = 0 /\ MovzxSpecialCase(f) -> 1
    [] OTHER -> n
LimitFacts(f) ==
  [counts |-> IF f.rec = NoRecord THEN [Unmatched EXCEPT !.simple = NDecoders - 1] ELSE Counts(f),
   lcp |-> f.lcp \/ (f.rec # NoRecord /\ f.rec.lcp), lsd |-> LimitLSD(f), with |-> LimitWith(f), noFusion |-> LimitNoFusion(f),
   eliminable |-> f.rec # NoRecord /\ MayBeEliminated(f), ports |-> IF f.rec = NoRecord THEN 0 ELSE LimitPorts(f)]

-----------------------------------------------------------------------------
(* Macro fusion.                                                           *)
Address(i) == offset + (LET a[k \in 0..Len(block)] == IF k = 0 THEN 0 ELSE a[k - 1] + block[k].len IN a[i - 1])
Str(i) == IF block[i].rec = NoRecord THEN "" ELSE block[i].rec.str

\* recompute_macro_fusion_and_is_last
SimFusedWithPrev(i) ==
  /\ i > 1 /\ block[i].jump /\ ~SimNoFusion(block[i]) /\ ~SimNoFusion(block[i - 1])
  /\ Address(i) % 64 # 0
  /\ Str(i) \in SimWith(block[i - 1])
LastDecoded(i) == i = Len(block) \/ (i = Len(block) - 1 /\ SimFusedWithPrev(Len(block)))

\* facts_to_analytical_instructions
LimitFusedWithPrev(i) ==
  /\ i > 1 /\ block[i].jump /\ ~LimitNoFusion(block[i]) /\ ~LimitNoFusion(block[i - 1])
  /\ Str(i) \in LimitWith(block[i - 1])

-----------------------------------------------------------------------------
(* The simulator and the limits must be about the same instructions.       *)

Matched == {i \in DOMAIN block : block[i].rec # NoRecord}
\* The record knows no change of RSP that the decoder does not, and where a move goes that is not eliminated.
Complete(f) == f.rec.rsp \in {0, f.rsp} /\ (MayBeEliminated(f) => SelectedPerf(f).ports > 0)

\* Of a matched instruction the simulator and the limits know the same.
FactsAgree == \A i \in Matched : Complete(block[i]) => SimFacts(block[i]) = LimitFacts(block[i])

\* What a simple decoder takes becomes at most one uop, and a complex decoder never makes more than four when uops are
\* not fused; it then leaves only as many simple ones as are still useful, none when the microcode sequencer follows.
DecodersFit ==
  \A i \in Matched : LET x == Counts(block[i]) IN
    /\ ~x.complex => x.mite + x.ms <= 1
    /\ noMicroFusion /\ x.mite > 1 => x.mite <= 4 /\ x.mite + x.simple <= 5 /\ (x.ms > 0 => x.simple = 0)

\* Without micro fusion every uop of an instruction has an issue slot of its own, and the decoders and the microcode
\* sequencer together deliver one for each slot.
EachUopItsSlot ==
  noMicroFusion => \A i \in Matched : LET x == Counts(block[i]) IN
    x.slots >= SelectedPerf(block[i]).uops /\ x.mite + x.ms = x.slots

\* Of the instructions that still have uops of their own exactly the last one is marked as the last decoded.
LastMarked ==
  LET own == {i \in DOMAIN block : ~SimFusedWithPrev(i)} IN
  {i \in own : LastDecoded(i)} = {i \in own : \A j \in own : j <= i}

\* Where no jump begins a line both find the same pairs.
FusionAgrees ==
  (\A i \in DOMAIN block : Address(i) % 64 # 0) => \A i \in DOMAIN block : SimFusedWithPrev(i) <=> LimitFusedWithPrev(i)

\* What the decoders are told of an instruction, and the limits, is right and the same.
FactsSound == FactsAgree /\ DecodersFit /\ EachUopItsSlot /\ LastMarked /\ FusionAgrees
=============================================================================
