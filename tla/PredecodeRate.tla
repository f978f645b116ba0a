---------------------------- MODULE PredecodeRate ----------------------------
(***************************************************************************)
(* The predecoder of sim/predecoder.rs on its own, with the code fed to it *)
(* again and again and nobody behind it to wait for: its rate against the  *)
(* predecoder limit engine.rs computes for the same code.                  *)
(***************************************************************************)
EXTENDS PreDecoder

VARIABLES cycles,   \* since the code was last fed
          feeds,    \* how often it was fed, up to MaxFeeds
          last      \* cycles between the two last feeds
vars == <<arch, code, predecoder, iq, cycles, feeds, last>>

CONSTANT MaxFeeds

L == INSTANCE Limits WITH block <- code, setup <- arch

\* the instances fed at once: as many copies as fill whole blocks
Fed == [n \in 1..L!Unroll(code, ~Unroll) * Len(code) |-> Later([rnd |-> 0, i |-> 1], n - 1)]
FedBlocks ==
  LET place(x) == (IF Linear THEN x.rnd * CodeSize ELSE 0) + code[x.i].offset IN
  [k \in 1..L!NumBlocks(code, ~Unroll) |-> SelectSeq(Fed, LAMBDA x : place(x) \div 16 = k - 1)]

Init ==
  /\ SetUp
  /\ predecoder = NoPreDecoder /\ iq = <<>>
  /\ cycles = 0 /\ feeds = 0 /\ last = 0

Feed ==
  /\ predecoder.b16BlockQueue = <<>> /\ feeds < MaxFeeds
  /\ predecoder' = [predecoder EXCEPT !.b16BlockQueue = FedBlocks]
  /\ cycles' = 0 /\ feeds' = feeds + 1 /\ last' = cycles
  /\ UNCHANGED <<arch, code, iq>>

\* the decoders take at once whatever comes
Cycle ==
  /\ predecoder.b16BlockQueue # <<>>
  /\ predecoder' = PreDecode(predecoder, iq).predecoder
  /\ cycles' = cycles + 1
  /\ UNCHANGED <<arch, code, iq, feeds, last>>

Next == Feed \/ Cycle
Spec == Init /\ [][Next]_vars

(* The predecoder limit of engine.rs is the rate at which the simulated    *)
(* predecoder takes the code, prefix stalls included, once it is past the  *)
(* first copies; unless the opcode of an instruction with a length-changing*)
(* prefix is in the block behind the one it begins in: the two then charge *)
(* its stall to different blocks.                                          *)
StraddlingPrefix ==
  \E j \in DOMAIN Fed :
    LET at == L!Start(code, Fed[j].i) + (IF Linear THEN Fed[j].rnd * CodeSize ELSE 0) IN
    code[Fed[j].i].lcp /\ (at % 16) + code[Fed[j].i].opcode >= 16
RateIsPredecodeLimit ==
  feeds > 3 /\ ~StraddlingPrefix => last = L!PredecodeLimit(code, ~Unroll, AlignmentOffset)[1]
=============================================================================
