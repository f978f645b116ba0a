------------------------- MODULE FrontEndProperties -------------------------
(***************************************************************************)
(* What makes the front end correct.                                       *)
(***************************************************************************)
EXTENDS FrontEnd

Promise == INSTANCE Delivery

(* No source delivers more in a cycle than the width of the DSB, for which *)
(* HasRoom reserves: as wide are the decoders and the microcode sequencer  *)
(* (micro_arch.rs). An unrolled loop fits into the queue (lsd_unrolling).  *)
ASSUME WidthsAssumption ==
  \A s \in Setups :
    /\ s.arch.nDecoders <= s.arch.dsbWidth /\ MSWidth <= s.arch.dsbWidth
    /\ \A n \in DOMAIN s.arch.lsdUnrolling : n * s.arch.lsdUnrolling[n] <= s.arch.idqWidth

(* Simple decoders deliver one uop each (InstrFacts, DecodersFit); behind  *)
(* a complex instruction only so many of them are available that the group *)
(* is no wider than the DSB, as the instruction data has it.               *)
ASSUME DecodersAssumption ==
  \A s \in Setups : \A prog \in s.programs : \A i \in DOMAIN prog :
    IF prog[i].complex
    THEN prog[i].mite + Min({s.arch.nDecoders - 1, prog[i].simple}) <= s.arch.dsbWidth
    ELSE prog[i].mite + prog[i].ms <= 1

(* An instruction moves RSP by no more than the length of its memory       *)
(* operand (uica_xed_shim.c), within the range of the stack engine.        *)
ASSUME StackAssumption ==
  \A s \in Setups : \A prog \in s.programs : \A i \in DOMAIN prog :
    prog[i].rspDelta <= MaxRSPOffset

(* Whatever the way the uops take -- predecoder and decoders, DSB,         *)
(* microcode sequencer, with every change of source between them -- the    *)
(* renamer is handed the program's laminated uops in order, each exactly   *)
(* once. (sim/frontend.rs FrontEnd::cycle implements Delivery.)            *)
DeliversInOrder == Promise!Spec

(* The order alone, as a state predicate.                                  *)
InProgramOrder == Promise!InProgramOrder

(* The decode queue never holds more than its width; only stack            *)
(* synchronisations, for which FrontEnd::cycle does not reserve room, may  *)
(* exceed it. (The simple front end adds whole cache lines.)               *)
IDQWithinWidth ==
  ~SimpleFrontEnd => Cardinality({j \in DOMAIN idq : ~IsSync(idq[j])}) <= IDQWidth

(* The instruction queue never holds more than iq_width instructions, the  *)
(* group counted that the predecoder has cut but not yet handed over       *)
(* because a length-changing prefix stalls it (sim/predecoder.rs           *)
(* PreDecoder::cycle reserves the room before the stall, fills it after).  *)
IQWithinWidth == Len(iq) + Len(predecoder.preDecQueue) <= IQWidth

(* Each queue of the front end respects its width, though the cycle that   *)
(* tests for room is not the one that fills it.                            *)
QueuesWithinWidth == IDQWithinWidth /\ IQWithinWidth

(* An instruction that reads RSP is synchronised with the stack engine     *)
(* exactly if the pushes and pops since RSP was last known do not cancel   *)
(* out, whichever way and however far apart their uops came into the       *)
(* queue (sim/frontend.rs add_stack_sync_uop).                             *)
StackSynced ==
  LET firsts    == {j \in DOMAIN idq : idq[j].k = 1}
      synced(j) == j > 1 /\ IsSync(idq[j - 1])
      uses(j)   == code[idq[j].i].rspUse
      delta(j)  == code[idq[j].i].rspDelta
      known(j)  == synced(j) \/ code[idq[j].i].rspDef
      (* What place j leaves pending, if RSP is known there.               *)
      left(j)   == IF code[idq[j].i].rspDef \/ ~uses(j) THEN 0 ELSE delta(j)
  IN \A p, q \in firsts :
       /\ p < q /\ known(p) /\ uses(q)
       /\ \A j \in firsts : p < j /\ j < q => ~known(j)
       => (synced(q) <=> left(p) + MapThenSumSet(delta, {j \in firsts : p < j /\ j < q}) # 0)

(* The source changes from the decoders to the DSB only at the start of an *)
(* iteration, as the paper has it: what was decoded before is in the       *)
(* decode queue or with the microcode sequencer, and the uop behind it is  *)
(* the first of a round (sim/frontend.rs FrontEnd::cycle).                 *)
EntersDsbAtRoundStart ==
  [][source = "MITE" /\ source' = "DSB"
       => Behind(idq' \o ms'.queue, expected').i = 1]_vars

(* The front end never gets stuck with the renamer waiting: the uops of    *)
(* every round are delivered.                                              *)
RoundsKeepComing == []<>(expected.rnd = 0) /\ []<>(expected.rnd # 0)
=============================================================================
