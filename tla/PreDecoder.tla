----------------------------- MODULE PreDecoder -----------------------------
(***************************************************************************)
(* The legacy decode path: the predecoder (sim/predecoder.rs), which cuts  *)
(* 16-byte blocks into instructions and fills the instruction queue, and   *)
(* the decoders (sim/decoder.rs), which empty it. Each is a function from  *)
(* its state at the start of a cycle to its state at the end.              *)
(***************************************************************************)
EXTENDS CacheBlocks

IQWidth              == arch.iqWidth
PredecodeWidth       == arch.predecodeWidth
PredecodeBlockSize   == arch.predecodeBlockSize
PredecodeDecodeDelay == arch.predecodeDecodeDelay
NDecoders            == arch.nDecoders
MacroFusibleInstrCanBeDecodedAsLastInstr == arch.macroFusibleLast

ASSUME PreDecoderAssumption ==
  \A s \in Setups :
    /\ {s.arch.predecodeWidth, s.arch.nDecoders} \subseteq Nat \ {0}
    /\ s.arch.predecodeDecodeDelay \in Nat /\ s.arch.iqWidth \in Nat
    /\ s.arch.predecodeBlockSize \in {16, 32}
    /\ s.arch.macroFusibleLast \in BOOLEAN

VARIABLES
  predecoder,  (* struct PreDecoder                                        *)
  iq           (* The instruction queue: instances, each with the cycles   *)
               (* until predecoded + predecode_decode_delay has come.      *)

NoPreDecoder ==
  [b16BlockQueue |-> <<>>, curBlock |-> <<>>, nonStalled |-> 0,
   preDecQueue |-> <<>>, stalled |-> 0, partial |-> <<>>]

PreDecoderTypeOK ==
  /\ predecoder.b16BlockQueue \in Seq(Seq(Instances))
  /\ {predecoder.curBlock, predecoder.preDecQueue, predecoder.partial}
       \subseteq Seq(Instances)
  /\ Len(predecoder.partial) <= 1
  /\ {predecoder.nonStalled, predecoder.stalled} \subseteq Nat
  /\ iq \in Seq([inst : Instances, wait : 0..PredecodeDecodeDelay])

Crosses(x) ==
  (Address(x) % PredecodeBlockSize) + Size(x) > PredecodeBlockSize

-----------------------------------------------------------------------------
(* PreDecoder::cycle                                                       *)

B16PerBlock == PredecodeBlockSize \div 16

\* Mutant: the queue has to run empty first.
CanPreDecodeWhenDrained(p, queue) ==
  /\ p.preDecQueue = <<>>
  /\ p.partial # <<>> \/ p.b16BlockQueue # <<>>
  /\ queue = <<>>
(* There is something to predecode, and room for a full group of it.       *)
CanPreDecode(p, queue) ==
  /\ p.preDecQueue = <<>>
  /\ p.partial # <<>> \/ p.b16BlockQueue # <<>>
  /\ Len(queue) + PredecodeWidth <= IQWidth

(* The instruction that began in the block before completes.               *)
TakePartial(p) == [p EXCEPT !.preDecQueue = @ \o p.partial, !.partial = <<>>]

(* Mutant: the cycles spent on the block before are reset first.           *)
LoadBlockAfterReset(p) ==
  LET block == FlattenSeq(SubSeq(p.b16BlockQueue, 1, B16PerBlock))
  IN [p EXCEPT !.b16BlockQueue = SubSeq(@, B16PerBlock + 1, Len(@)),
               !.curBlock = block, !.nonStalled = 0,
               !.stalled = 3 * Cardinality({j \in DOMAIN block : code[block[j].i].lcp})]

(* Three cycles for each length-changing prefix, less those in which the   *)
(* block before was worked on.                                             *)
LoadBlock(p) ==
  LET block == FlattenSeq(SubSeq(p.b16BlockQueue, 1, B16PerBlock))
      lcps  == Cardinality({j \in DOMAIN block : code[block[j].i].lcp})
  IN [p EXCEPT !.b16BlockQueue = SubSeq(@, B16PerBlock + 1, Len(@)),
               !.curBlock = block, !.nonStalled = 0,
               !.stalled = Max({0, 3 * lcps - Max({0, p.nonStalled - 1})})]

TakeGroup(p) ==
  LET room   == PredecodeWidth - Len(p.preDecQueue)
      whole  == Max({n \in 0..Len(p.curBlock) :
                       \A j \in 1..n : ~Crosses(p.curBlock[j])})
      n      == Min({room, whole})
      rest   == SubSeq(p.curBlock, n + 1, Len(p.curBlock))
      begins == /\ Len(rest) = 1 /\ Crosses(rest[1])
                /\ \/ n < room
                   \/ (Address(rest[1]) % 16) + code[rest[1].i].opcode >= 16
  IN [p EXCEPT !.preDecQueue = @ \o SubSeq(p.curBlock, 1, n),
               !.partial  = IF begins THEN rest ELSE @,
               !.curBlock = IF begins THEN <<>> ELSE rest,
               !.nonStalled = @ + 1]

PreDecode(p, queue) ==
  LET taken   == TakePartial(p)
      starved == p.curBlock = <<>> /\ Len(p.b16BlockQueue) < B16PerBlock
      filled  == IF ~CanPreDecode(p, queue) THEN p
                 ELSE TakeGroup(IF p.curBlock = <<>> THEN LoadBlock(taken)
                                                     ELSE taken)
      queued  == [j \in DOMAIN filled.preDecQueue |->
                    [inst |-> filled.preDecQueue[j],
                     wait |-> PredecodeDecodeDelay]]
  IN CASE p.stalled > 0 ->
            [predecoder |-> [p EXCEPT !.stalled = @ - 1], iq |-> queue]
       [] p.stalled = 0 /\ CanPreDecode(p, queue) /\ starved ->
            [predecoder |-> taken, iq |-> queue]
       [] OTHER ->
            IF filled.stalled > 0
            THEN [predecoder |-> [filled EXCEPT !.stalled = @ - 1], iq |-> queue]
            ELSE [predecoder |-> [filled EXCEPT !.preDecQueue = <<>>],
                  iq |-> queue \o queued]

(* Mutant: the difference of the cycles is taken unchecked.                *)
AgedUnchecked(queue) ==
  [j \in DOMAIN queue |-> [queue[j] EXCEPT !.wait = @ - 1]]

(* The clock moves on: predecoded instructions come nearer to decoding.    *)
Aged(queue) ==
  [j \in DOMAIN queue |-> [queue[j] EXCEPT !.wait = Max({0, @ - 1})]]

-----------------------------------------------------------------------------
(* Decoder::cycle: the group of instructions decoded in one cycle, as the  *)
(* length of the prefix of the queue that is removed.                      *)

(* The places of the instructions among the first n that are decoded; the  *)
(* branch of a macro-fused pair is only removed.                           *)
DecodedAmong(queue, n) == {j \in 1..n : ~FusedWithPrev(queue[j].inst)}

(* The group ends before place j.                                          *)
NotYet(queue, j) ==
  LET c      == code[queue[j].inst.i]
      before == Cardinality(DecodedAmong(queue, j - 1))
  IN \/ queue[j].wait > 0
     \/ c.complex /\ before > 0
     \/ /\ c.fusible
        /\ \/ /\ ~MacroFusibleInstrCanBeDecodedAsLastInstr
              /\ before = NDecoders - 1
           \/ j = Len(queue)
           \/ queue[j + 1].wait > 0

(* Decoders left when place j has been decoded.                            *)
SlotsLeft(queue, j) ==
  LET group == DecodedAmong(queue, j)
      first == code[queue[Min(group)].inst.i]
      slots == IF first.complex THEN 1 + Min({NDecoders - 1, first.simple})
                                ELSE NDecoders
  IN slots - Cardinality(group)

(* The group ends with place j.                                            *)
EndsGroup(queue, j) ==
  LET x == queue[j].inst
  IN code[x.i].ms > 0 \/ SlotsLeft(queue, j) = 0 \/ code[x.i].branch \/ FusedWithNext(x)

GroupLength(queue) ==
  Max({n \in 0..Len(queue) :
         /\ \A j \in DecodedAmong(queue, n) : ~NotYet(queue, j)
         /\ \A j \in DecodedAmong(queue, n - 1) : ~EndsGroup(queue, j)})

DecodedGroup(queue) ==
  FlattenSeq([j \in 1..GroupLength(queue) |->
    IF FusedWithPrev(queue[j].inst) THEN <<>> ELSE <<queue[j].inst>>])

Decoded(queue) == SubSeq(queue, GroupLength(queue) + 1, Len(queue))
=============================================================================
