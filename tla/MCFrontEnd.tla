----------------------------- MODULE MCFrontEnd -----------------------------
(***************************************************************************)
(* Instructions, loops and straight-line code for the runs of the front    *)
(* end, whose configurations are those of three machines with the queues   *)
(* made shorter.                                                           *)
(***************************************************************************)
EXTENDS FrontEndProperties

(* An instruction of one uop and the given size.                           *)
Plain(size) ==
  [size |-> size, opcode |-> 1, lcp |-> FALSE, complex |-> FALSE, simple |-> 0,
   branch |-> FALSE, fusible |-> FALSE, pairs |-> FALSE, mite |-> 1, ms |-> 0,
   extra |-> FALSE, jcc |-> FALSE, lsd |-> TRUE,
   rspUse |-> FALSE, rspDef |-> FALSE, rspDelta |-> 0, offset |-> 0]

Branch(size) == [Plain(size) EXCEPT !.branch = TRUE]
JccErr(size) == [Branch(size) EXCEPT !.jcc = TRUE]
Cmp(size)    == [Plain(size) EXCEPT !.fusible = TRUE, !.pairs = TRUE]
Test(size)   == [Plain(size) EXCEPT !.fusible = TRUE]  (* pairs with nothing here *)
Lcp(size)    == [Plain(size) EXCEPT !.lcp = TRUE, !.opcode = 2]
LcpCmp(size) == [Lcp(size) EXCEPT !.fusible = TRUE]
Wide(size)   == [Plain(size) EXCEPT !.extra = TRUE]
High8(size)  == [Plain(size) EXCEPT !.lsd = FALSE]

(* Several uops from the first decoder, others free for simple ones.       *)
Complex(size, mite, simple) ==
  [Plain(size) EXCEPT !.mite = mite, !.complex = TRUE, !.simple = simple]
(* n uops of microcode behind those of the decoders.                       *)
Micro(size, mite, n) ==
  [Complex(size, mite, 0) EXCEPT !.ms = n, !.lsd = FALSE]

Stack(size, delta) == [Plain(size) EXCEPT !.rspDelta = delta, !.lsd = FALSE]
Pop     == Stack(1, 8)
Push    == Stack(1, -8)
RspLoad == [Plain(4) EXCEPT !.rspUse = TRUE]
RspAdd  == [Plain(4) EXCEPT !.rspUse = TRUE, !.rspDef = TRUE]

(* The configurations, with shorter queues: four uops a cycle from DSB     *)
(* blocks of 32 bytes; six, in pairs of blocks; six, from blocks of 64.    *)
Narrow ==
  [rounds |-> 6, alignmentOffset |-> 0, simpleFrontEnd |-> FALSE,
   iqWidth |-> 10, predecodeWidth |-> 5, predecodeBlockSize |-> 16,
   predecodeDecodeDelay |-> 3, nDecoders |-> 4, macroFusibleLast |-> FALSE,
   dsbWidth |-> 4, dsbBlockSize |-> 32, both32ByteBlocksMustBeCacheable |-> FALSE,
   dsbMSStall |-> 4, idqWidth |-> 10, issueWidth |-> 2,
   lsdEnabled |-> TRUE, lsdUnrolling |-> <<>>]
Paired ==
  [Narrow EXCEPT !.macroFusibleLast = TRUE, !.dsbWidth = 6,
     !.both32ByteBlocksMustBeCacheable = TRUE, !.dsbMSStall = 2, !.idqWidth = 12,
     !.lsdEnabled = FALSE]
Broad ==
  [Paired EXCEPT !.dsbBlockSize = 64, !.both32ByteBlocksMustBeCacheable = FALSE,
     !.issueWidth = 3, !.lsdEnabled = TRUE]

Times(n, c) == [j \in 1..n |-> c]

-----------------------------------------------------------------------------
(* 32-byte DSB blocks, four uops a cycle. Four instructions of four uops   *)
(* need more than the three blocks the DSB has for 32 bytes.               *)
Crowd == Times(4, Complex(3, 4, 0))

NarrowLoops == {
  (* The first 32 bytes from the DSB, the others from the decoders.        *)
  Times(4, Plain(8)) \o Crowd \o <<Plain(6), Cmp(3), Branch(2)>>,
  <<Micro(8, 0, 5), Wide(6), Plain(5), Plain(5), Complex(8, 3, 1)>>
    \o Crowd \o <<Micro(4, 0, 3), Lcp(5), Branch(2), Test(3), Branch(6)>>,
  (* Everything from the decoders.                                         *)
  Times(4, Micro(6, 1, 2)) \o <<Branch(2)>>,
  Crowd \o Times(7, Plain(1)) \o <<Lcp(5), Complex(6, 2, 1), Test(2), Branch(2), Plain(3), Branch(2)>>,
  (* Everything from the DSB.                                              *)
  <<Plain(4), Micro(6, 2, 3), Complex(6, 4, 0), Wide(10), Wide(6), Branch(2)>>,
  <<High8(3), Branch(2)>>,
  (* The loop stream detector.                                             *)
  <<Plain(3), Plain(4), Cmp(3), Branch(2)>>,
  <<Complex(4, 2, 2), Branch(2)>>}

(* Two rounds of three uops are unrolled into one.                         *)
Unrolling == [Narrow EXCEPT !.lsdUnrolling = (3 :> 2)]

(* The cached part ends in a microcoded instruction.                       *)
TailLoops ==
  {Times(3, Plain(8)) \o <<Micro(8, 1, 2)>> \o Crowd \o <<Branch(2)>>}

-----------------------------------------------------------------------------
(* 32-byte DSB blocks read in pairs, six uops a cycle; the two halves of a *)
(* cache line are cached together or not at all; branches that end at the  *)
(* end of a block stay out.                                                *)
PairedLoops == {
  Times(8, Plain(8)) \o <<Plain(5), JccErr(4)>>,
  Times(3, Complex(10, 2, 2)) \o <<Plain(2), Wide(10), Plain(6), Micro(6, 2, 4), Plain(10), Lcp(6), JccErr(2)>>,
  <<Plain(5), Plain(6), Plain(5), Complex(8, 3, 1), Plain(8), Branch(2)>>,
  <<Plain(15), Wide(15), Complex(6, 4, 0), Wide(12), Micro(5, 1, 3), Branch(2)>>,
  Times(3, LcpCmp(8)) \o <<LcpCmp(6), Branch(2)>>}

-----------------------------------------------------------------------------
(* 64-byte DSB blocks.                                                     *)
WideLoops == {
  Times(6, Complex(10, 4, 0)) \o <<Plain(4), Plain(8)>> \o Times(2, Crowd[1])
    \o Times(5, Wide(6)) \o <<Complex(8, 4, 0), Branch(2)>>,
  Times(5, Plain(12)) \o <<Plain(6)>> \o Times(7, Complex(5, 4, 0)) \o <<Cmp(3), Branch(2)>>,
  <<Micro(6, 1, 2), Plain(12), Plain(12), Plain(12), Complex(12, 3, 1), Plain(12), Wide(6), Cmp(3), Branch(2)>>,
  Times(7, Complex(9, 4, 0)) \o <<Plain(3), Branch(2)>>,
  <<Plain(10), Plain(12), Branch(2)>>}

-----------------------------------------------------------------------------
(* Code that is not a loop. Eight rounds fill cache lines exactly.         *)
StraightCode == {
  <<Pop, Plain(7), RspLoad, RspLoad>>,
  <<Pop, Pop, Pop, Micro(5, 0, 2), Push, RspAdd, Pop, Plain(2)>>,
  <<Pop, Plain(15)>>,
  <<Branch(2), Lcp(5), Plain(6), Cmp(3)>>,
  <<Plain(10), Branch(9), Complex(2, 2, 2), Test(3)>>}

-----------------------------------------------------------------------------
Straight == [Narrow EXCEPT !.rounds = 8]

MCSetups ==
  {[arch |-> Unrolling, programs |-> NarrowLoops], [arch |-> Paired, programs |-> PairedLoops],
   [arch |-> Broad, programs |-> WideLoops], [arch |-> Straight, programs |-> StraightCode],
   [arch |-> [Straight EXCEPT !.simpleFrontEnd = TRUE, !.issueWidth = 3],
    programs |-> StraightCode]}

TailSetups == {[arch |-> Unrolling, programs |-> TailLoops]}
=============================================================================
