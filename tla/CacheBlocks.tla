---------------------------- MODULE CacheBlocks ----------------------------
(***************************************************************************)
(* The analysed code as the front end sees it: the instruction instances   *)
(* of every round, their addresses, macro fusion, the laminated uops they  *)
(* carry, and the cutting of the stream into rounds, 64-byte cache lines   *)
(* and 32- and 16-byte blocks (sim/cache_blocks.rs, sim/types.rs).         *)
(*                                                                         *)
(* Code that ends in a branch is a loop, every round at the same           *)
(* addresses; other code is unrolled, one round behind the other. The      *)
(* front end compares round numbers and the addresses of unrolled code     *)
(* only with their neighbours', so both are kept modulo Rounds.            *)
(***************************************************************************)
EXTENDS Integers, SequencesExt

CONSTANT
  Setups      (* What is explored: records of an  arch  and of  programs,  *)
              (* the sequences of instructions analysed on it.             *)

VARIABLES
  arch,       (* MicroArchConfig and the options, fixed in a behaviour.    *)
  code        (* The instructions of one round, laid out.                  *)

Rounds          == arch.rounds    (* Round numbers are taken modulo this.  *)
AlignmentOffset == arch.alignmentOffset
SimpleFrontEnd  == arch.simpleFrontEnd

(* What the front end reads of an instruction.                             *)
Instr == [size    : 1..15,      (* length in bytes                         *)
          opcode  : 0..14,      (* pos_nominal_opcode                      *)
          lcp     : BOOLEAN,    (* lcp_stall                               *)
          complex : BOOLEAN,    (* complex_decoder                         *)
          simple  : 0..4,       (* n_available_simple_decoders             *)
          branch  : BOOLEAN,    (* is_branch_instr                         *)
          fusible : BOOLEAN,    (* is_macro_fusible_with_next              *)
          pairs   : BOOLEAN,    (* macro_fusible_with names the next       *)
          mite    : 0..4,       (* uops_mite                               *)
          ms      : Nat,        (* uops_ms                                 *)
          extra   : BOOLEAN,    (* a wide immediate: two DSB entries       *)
          jcc     : BOOLEAN,    (* cannot_be_in_dsb_due_to_jcc_erratum     *)
          lsd     : BOOLEAN,    (* can_be_used_by_lsd                      *)
          rspUse  : BOOLEAN,    (* reads RSP explicitly                    *)
          rspDef  : BOOLEAN,    (* writes RSP explicitly                   *)
          rspDelta: Int,        (* implicit_rsp_change                     *)
          offset  : Nat]        (* from the first instruction              *)

(* Code whose last instruction is no branch is unrolled.                   *)
Unroll == ~Last(code).branch

(* The addresses run on from round to round.                               *)
Linear == Unroll \/ SimpleFrontEnd

(* build_instruction_instances: every instruction with its offset from the *)
(* first.                                                                  *)
LaidOut(prog) ==
  [i \in DOMAIN prog |->
     [prog[i] EXCEPT !.offset = FoldLeft(LAMBDA n, c: n + c.size, 0, SubSeq(prog, 1, i - 1))]]

SizeOf(laid) == Last(laid).offset + Last(laid).size

CodeSize   == SizeOf(code)
RoundBytes == Rounds * CodeSize

ProgramOK(prog) ==
  /\ prog \in Seq(Instr) /\ prog # <<>>
  /\ \A i \in DOMAIN prog :
       /\ prog[i].mite + prog[i].ms > 0
       /\ prog[i].pairs => prog[i].fusible
       /\ prog[i].lsd => prog[i].ms = 0 /\ prog[i].rspDelta = 0

(* Unrolled code fills two cache lines or more, exactly, in Rounds rounds. *)
FillsLines(prog, rounds) ==
  LET bytes == rounds * SizeOf(LaidOut(prog)) IN bytes % 64 = 0 /\ bytes >= 128

ASSUME CacheBlocksAssumption ==
  \A s \in Setups :
    /\ s.arch.rounds \in Nat \ {0, 1} /\ s.arch.alignmentOffset \in Nat
    /\ s.arch.simpleFrontEnd \in BOOLEAN
    /\ \A prog \in s.programs :
         /\ ProgramOK(prog)
         /\ s.arch.simpleFrontEnd \/ ~Last(prog).branch => FillsLines(prog, s.arch.rounds)

SetUp ==
  \E s \in Setups : arch = s.arch /\ \E prog \in s.programs : code = LaidOut(prog)

-----------------------------------------------------------------------------
(* Instruction instances.                                                  *)

Instances == [rnd : 0..Rounds - 1, i : DOMAIN code]

(* The instance k places behind x.                                         *)
Later(x, k) ==
  LET place == x.rnd * Len(code) + (x.i - 1) + k
  IN [rnd |-> (place \div Len(code)) % Rounds, i |-> (place % Len(code)) + 1]

Following(x) == Later(x, 1)
Preceding(x) == Later(x, Rounds * Len(code) - 1)

Round(r) == [i \in DOMAIN code |-> [rnd |-> r, i |-> i]]

Size(x) == code[x.i].size

Address(x) ==
  LET base == AlignmentOffset + code[x.i].offset
  IN IF Linear THEN (base + x.rnd * CodeSize) % RoundBytes ELSE base

(* The branch of a macro-fused pair, which carries no uops of its own.     *)
FusedWithPrev(x) ==
  /\ code[x.i].branch /\ code[Preceding(x).i].pairs
  /\ Address(x) % 64 # 0
  /\ Linear \/ x.i > 1

FusedWithNext(x) == FusedWithPrev(Following(x))

(* is_last_decoded_instr                                                   *)
LastDecoded(x) ==
  x.i = Len(code) \/ (x.i = Len(code) - 1 /\ FusedWithNext(x))

-----------------------------------------------------------------------------
(* Laminated uops: the k-th of an instance. Place 0 is the stack           *)
(* synchronisation the front end inserts before the first.                 *)

UopCount(x) == IF FusedWithPrev(x) THEN 0 ELSE code[x.i].mite + code[x.i].ms

Uop(x, k) == [rnd |-> x.rnd, i |-> x.i, k |-> k]
IsSync(u) == u.k = 0

LamUops(x)  == [k \in 1..UopCount(x) |-> Uop(x, k)]

(* Those the decoders or the DSB deliver, and those of the microcode, of   *)
(* an instruction that is decoded.                                         *)
MiteUops(x) == [k \in 1..code[x.i].mite |-> Uop(x, k)]
MSUops(x)   == [k \in 1..code[x.i].ms |-> Uop(x, code[x.i].mite + k)]

Uops == [rnd : 0..Rounds - 1, i : DOMAIN code, k : Nat]

UopsOf(insts) == FlattenSeq([j \in DOMAIN insts |-> LamUops(insts[j])])

-----------------------------------------------------------------------------
(* Cutting the stream.                                                     *)

(* The instances by the block of w bytes they start in; addresses ascend   *)
(* in what is cut.                                                         *)
PutInBlock(blocks, x, w) ==
  IF blocks # <<>> /\ Address(Last(Last(blocks))) \div w = Address(x) \div w
  THEN [blocks EXCEPT ![Len(blocks)] = Append(@, x)]
  ELSE Append(blocks, <<x>>)

Blocks(insts, w) == FoldLeft(LAMBDA blocks, x: PutInBlock(blocks, x, w), <<>>, insts)

(* CacheBlockGenerator, unrolled: the rest of the cache line x is in.      *)
LineFrom(x) ==
  LET line(y) == Address(y) \div 64
      length  == CHOOSE k \in 1..64 :
                   /\ line(Later(x, k)) # line(x)
                   /\ \A j \in 1..k - 1 : line(Later(x, j)) = line(x)
  IN [j \in 1..length |-> Later(x, j - 1)]

(* What the generator in use yields when it has come to x: a round of a    *)
(* loop, a cache line of unrolled code.                                    *)
Generated(x) == IF Linear THEN LineFrom(x) ELSE Round(x.rnd)
=============================================================================
