----------------------------- MODULE MCAnalysis -----------------------------
(***************************************************************************)
(* What is reported, on small instances: the throughput of a simulation,   *)
(* and the analytical limits against what they are limits of, against the  *)
(* predecoder of the simulation and against the loop executed round after  *)
(* round.  A behaviour is about one of the four parts; the variables of    *)
(* the others stand still.                                                 *)
(***************************************************************************)
EXTENDS Throughput, TLC

CONSTANTS MaxFeeds, MaxRounds

VARIABLES setup, analysed, arch, code, predecoder, iq, cycles, feeds, last, loop, graph, done, rounds, mark
blockVars == <<setup, analysed>>
codeVars  == <<arch, code, predecoder, iq, cycles, feeds, last>>
loopVars  == <<setup, loop, graph, done, rounds, mark>>

-----------------------------------------------------------------------------
(* Simulations: blocks of one to four fused uops, some added by the        *)
(* renamer, and short periodic retirements.                                *)
U(i, kind, even, odd, div) == [instr |-> i, kind |-> kind, port |-> <<even, odd>>, div |-> div]
One == [length |-> 1, fused |-> FALSE, uops |-> <<U(1, "own", "0", "1", 0)>>]
FusedPair == [length |-> 3, fused |-> TRUE, uops |-> <<U(1, "own", "0", "0", 4), U(2, "own", "6", "0", 0)>>]
Merged == [length |-> 2, fused |-> FALSE,
           uops |-> <<U(1, "own", "1", "1", 0), U(2, "merge", "0", "1", 0), U(2, "own", "none", "none", 0)>>]
Synced == [length |-> 2, fused |-> FALSE,
           uops |-> <<U(1, "own", "2", "3", 0), U(2, "sync", "0", "1", 0), U(2, "merge", "1", "1", 0), U(2, "own", "1", "0", 3)>>]

AnyPattern == {p \in UNION {[1..n -> 0..RetireWidth] : n \in 1..3} : \E k \in DOMAIN p : p[k] > 0}
AllBlocks == {One, FusedPair, Merged, Synced}

-----------------------------------------------------------------------------
(* Blocks: port combinations, kinds of decoding, lengths and high bytes.   *)
None == [r \in {"A", "B"} |-> {}]
Fact == [str |-> "add", with |-> {}, size |-> 3, opcode |-> 1, slots |-> 1, mite |-> 1, ms |-> 0, simple |-> 3,
          jump |-> FALSE, complex |-> FALSE, lsd |-> TRUE, lcp |-> FALSE, noFusion |-> FALSE, eliminable |-> FALSE,
          ports |-> ({0, 1, 5, 6} :> 1), acts |-> None]
On(p, n) == [Fact EXCEPT !.ports = p :> n]
Cmp == [Fact EXCEPT !.with = {"jz"}]
Jz == [Fact EXCEPT !.str = "jz", !.jump = TRUE, !.ports = {0, 6} :> 1]

BlockSetup(length, fusible, facts) ==
  [part |-> "block", facts |-> facts, maxLength |-> length, registers |-> {"A", "B"}, issueWidth |-> 4, nDecoders |-> 4,
   macroFusibleLast |-> fusible, idqWidth |-> 64, lsdEnabled |-> TRUE,
   lsdUnrolling |-> (1 :> 8) @@ (2 :> 8) @@ (3 :> 8) @@ (5 :> 6), fusedPorts |-> {6}]
BlockSetups == {
  BlockSetup(3, TRUE,
    {On({0}, 1), On({1, 5}, 2), On({0, 6}, 1), On({0, 1, 5}, 1), Cmp, Jz, [Jz EXCEPT !.noFusion = TRUE], [Fact EXCEPT !.eliminable = TRUE],
     [Fact EXCEPT !.ports = ({2, 3} :> 1) @@ ({0, 1, 5, 6} :> 1), !.slots = 2]}),
  BlockSetup(4, FALSE,
    {Fact, Cmp, Jz} \cup {[Fact EXCEPT !.complex = TRUE, !.simple = n, !.mite = 4 - n] : n \in 0..2}),
  BlockSetup(3, TRUE,
    {[Fact EXCEPT !.size = z[1], !.opcode = z[2]] : z \in {<<2, 0>>, <<7, 1>>}} \cup {[Fact EXCEPT !.size = 5, !.opcode = 2, !.lcp = TRUE]}
      \cup {[Fact EXCEPT !.acts = [r \in {"A", "B"} |-> IF r = "A" THEN {a} ELSE {}]] : a \in {"high read", "high write", "wide"}})}

-----------------------------------------------------------------------------
(* Code: short and long instructions, with and without a length-changing   *)
(* prefix.                                                                 *)
CodeInstr == [size |-> 1, opcode |-> 0, lcp |-> FALSE, complex |-> FALSE, simple |-> 3, branch |-> FALSE, fusible |-> FALSE,
              pairs |-> FALSE, mite |-> 1, ms |-> 0, extra |-> FALSE, jcc |-> FALSE, lsd |-> TRUE,
              rspUse |-> FALSE, rspDef |-> FALSE, rspDelta |-> 0, offset |-> 0]
CodeInstrs == {[CodeInstr EXCEPT !.size = z[1], !.opcode = z[2], !.lcp = z[3]] :
                 z \in {<<1, 0, FALSE>>, <<2, 0, FALSE>>, <<5, 1, TRUE>>, <<9, 4, FALSE>>, <<7, 0, TRUE>>}}
Straight == UNION {[1..n -> CodeInstrs] : n \in 1..3}
Loops == {Append(p, [CodeInstr EXCEPT !.size = 2, !.branch = TRUE]) : p \in UNION {[1..n -> CodeInstrs] : n \in 1..3}}
CodeSetups == {
  [programs |-> Straight \cup Loops,
   arch |-> [rounds |-> 128, alignmentOffset |-> 0, simpleFrontEnd |-> FALSE, iqWidth |-> 25, predecodeWidth |-> 5,
             predecodeBlockSize |-> 16, predecodeDecodeDelay |-> 0, nDecoders |-> 4, macroFusibleLast |-> TRUE]]}

-----------------------------------------------------------------------------
(* Loops: loads that chase a pointer, stores, pushes and pops, moves that  *)
(* may be eliminated, steps through memory, and plain results.             *)
A == <<"A">>
RSP == <<"RSP">>
B == <<"B">>
Nop == [inputs |-> <<>>, outputs |-> <<>>, values |-> <<>>, how |-> "other", imm |-> 0, latency |-> <<>>, addressPaths |-> {},
          pointerLoad |-> FALSE, elim |-> FALSE, move32 |-> FALSE, from |-> "none", uops |-> 1, stack |-> FALSE,
          explicit |-> {}, jcc |-> FALSE]
At(r, d) == <<r, "none", d>>

\* to := from op to; to := to + imm
Op(to, from, n) == [Nop EXCEPT !.inputs = <<from, to>>, !.outputs = <<to>>, !.values = <<from[1]>>, !.explicit = {from, to},
                                 !.latency = (<<from, to>> :> n) @@ (<<to, to>> :> 1)]
Step(r, d) == [Nop EXCEPT !.inputs = <<r>>, !.outputs = <<r>>, !.values = <<r[1]>>, !.how = "add", !.imm = d,
                            !.explicit = {r}, !.latency = <<r, r>> :> 1]
Move(to, from, narrow) == [Nop EXCEPT !.inputs = <<from>>, !.outputs = <<to>>, !.values = <<from[1]>>, !.how = "copy",
                             !.explicit = {from}, !.latency = <<from, to>> :> 1, !.elim = TRUE, !.from = from[1], !.move32 = narrow]
LoadFrom(to, base, d) == [Nop EXCEPT !.inputs = <<base, At(base[1], d)>>, !.outputs = <<to>>, !.pointerLoad = TRUE, !.explicit = {base},
                             !.latency = (<<base, to>> :> 5) @@ (<<At(base[1], d), to>> :> 2), !.addressPaths = {<<base, to>>}]
Store(base, d, from) == [Nop EXCEPT !.inputs = <<base, from>>, !.outputs = <<At(base[1], d)>>, !.explicit = {base, from},
                             !.latency = (<<base, At(base[1], d)>> :> 4) @@ (<<from, At(base[1], d)>> :> 3)]
Exchange(base) == [Nop EXCEPT !.inputs = <<base, At(base[1], 0)>>, !.outputs = <<At(base[1], 0), base>>, !.explicit = {base},
                             !.latency = (<<base, base>> :> 1) @@ (<<At(base[1], 0), base>> :> 4) @@ (<<base, At(base[1], 0)>> :> 3)]
Push(from) == [Nop EXCEPT !.inputs = <<from, RSP>>, !.outputs = <<At("RSP", 0)>>, !.stack = TRUE,
                             !.latency = (<<from, At("RSP", 0)>> :> 2) @@ (<<RSP, At("RSP", 0)>> :> 11)]
Pop(to) == [Nop EXCEPT !.inputs = <<RSP, At("RSP", 0)>>, !.outputs = <<to>>, !.stack = TRUE, !.pointerLoad = TRUE,
                             !.latency = (<<RSP, to>> :> 5) @@ (<<At("RSP", 0), to>> :> 2), !.addressPaths = {<<RSP, to>>}]

LoopSetup(length, policy, instrs) ==
  [part |-> "loop", instrs |-> instrs, length |-> length, registers |-> {"A", "B", "RSP"}, fastPointerChasing |-> TRUE,
   initPolicy |-> policy]
LoopSetups == {
  LoopSetup(3, "diff",
    {LoadFrom(A, A, 0), LoadFrom(B, A, 0), Exchange(A), Store(A, 0, B), Store(A, 16, B), LoadFrom(B, A, 8), Step(A, 8), Op(B, A, 3),
     Op(A, B, 1), Move(A, B, FALSE)}),
  LoopSetup(3, "stack",
    {Push(A), Pop(A), Pop(B), Step(RSP, -8), Op(A, B, 1), Op(B, A, 4), Op(A, A, 2), Move(B, A, TRUE), LoadFrom(A, B, 0)})}

-----------------------------------------------------------------------------
Block == INSTANCE Limits WITH Setups <- BlockSetups, block <- analysed
Code  == INSTANCE PredecodeRate WITH Setups <- CodeSetups
Loop  == INSTANCE LatencyRate WITH Setups <- LoopSetups

NoBlock == analysed = <<>>
NoCode  == arch = 0 /\ code = 0 /\ predecoder = 0 /\ iq = 0 /\ cycles = 0 /\ feeds = 0 /\ last = 0
NoLoop  == loop = <<>> /\ graph = 0 /\ done = 0 /\ rounds = 0 /\ mark = 0
\* a simulation that has ended before its first cycle
NoSimulation ==
  /\ block = One /\ pattern = <<1>> /\ minIterations = 1 /\ minCycles = 0
  /\ clock = 0 /\ retired = 0 /\ rnd = 0 /\ uopsForRound = <<>> /\ ended = TRUE

MCInit ==
  \/ Init /\ setup = [part |-> "simulation"] /\ NoBlock /\ NoCode /\ NoLoop
  \/ NoSimulation /\ Block!Init /\ NoCode /\ NoLoop
  \/ NoSimulation /\ Code!Init /\ setup = [part |-> "code"] /\ NoBlock /\ NoLoop
  \/ NoSimulation /\ Loop!RateInit /\ NoBlock /\ NoCode
MCNext ==
  \/ Cycle /\ UNCHANGED <<blockVars, codeVars, loopVars>>
  \/ setup.part = "block" /\ Block!Next /\ UNCHANGED <<vars, codeVars, loop, graph, done, rounds, mark>>
  \/ setup.part = "code" /\ Code!Next /\ UNCHANGED <<vars, blockVars, loopVars>>
  \/ setup.part = "loop" /\ Loop!ExecuteRound /\ UNCHANGED <<vars, analysed, codeVars>>
MCSpec == MCInit /\ [][MCNext]_<<vars, analysed, codeVars, loopVars>> /\ WF_vars(Cycle)

(* The limits computed for a block are those of what they are limits of    *)
(* (analytical.rs; see Limits).                                            *)
LimitsExact == setup.part = "block" => Block!LimitsExact

(* The analytical predecode limit is the rate of the simulated predecoder  *)
(* (engine.rs and sim/predecoder.rs; see PredecodeRate).                   *)
RateIsPredecodeLimit == setup.part = "code" => Code!RateIsPredecodeLimit

(* The latency graph has the loop's dependencies, and its largest cycle is *)
(* the rate at which they let the loop run (analytical.rs; see             *)
(* LatencyRate).                                                           *)
DependenciesExact == setup.part = "loop" => Loop!DependenciesExact
=============================================================================
