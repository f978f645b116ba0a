------------------------------- MODULE Limits -------------------------------
(***************************************************************************)
(* The analytical limits (analytical.rs) and how engine.rs turns them into *)
(* the limits and bottlenecks of a result.  All are functions of the facts *)
(* about the instructions of a block; the block grows one instruction at a *)
(* time.  A limit is a fraction <<numerator, denominator>>; rounded, it is *)
(* a number of hundredths.                                                 *)
(***************************************************************************)
EXTENDS Integers, Sequences, FiniteSets, SequencesExt, FiniteSetsExt, Functions, Folds

CONSTANT Setups   \* what is explored: records of the facts to choose from (see FactsOK), the length of a block and a core

VARIABLES
  setup,   \* fixed in a behaviour
  block

IssueWidth == setup.issueWidth
NDecoders  == setup.nDecoders
IDQWidth   == setup.idqWidth
LSDEnabled == setup.lsdEnabled
MacroFusibleInstrCanBeDecodedAsLastInstr == setup.macroFusibleLast
LSDUnrolling == setup.lsdUnrolling   \* number of uops -> how often the LSD unrolls them
FusedPorts   == setup.fusedPorts     \* ports of a macro-fused pair
Registers    == setup.registers      \* those with a high byte

(* jump: a conditional one.  str names the instruction, with holds the     *)
(* names of the jumps it fuses with, ports how many uops go to each set of *)
(* ports.  acts is what it does to registers with a high byte: "high read",*)
(* "high write" or "wide".                                                 *)
FactsOK(facts, fusedPorts) == \A f \in facts :
  /\ f.size \in Nat \ {0} /\ f.opcode \in 0..f.size - 1 /\ {f.slots, f.mite, f.ms, f.simple} \subseteq Nat
  /\ {f.jump, f.complex, f.lsd, f.lcp, f.noFusion, f.eliminable} \subseteq BOOLEAN
  /\ \A p \in DOMAIN f.ports : p # {} /\ f.ports[p] \in Nat
  /\ Cardinality({p \in DOMAIN f.ports : fusedPorts \subseteq p}) <= 1

Init == setup \in Setups /\ FactsOK(setup.facts, FusedPorts) /\ block = <<>>
Extend(f) == block' = Append(block, f) /\ UNCHANGED setup
Next == Len(block) < setup.maxLength /\ \E f \in setup.facts : Extend(f)
Spec == Init /\ [][Next]_<<setup, block>>

-----------------------------------------------------------------------------
(* Fractions.                                                              *)
Less(a, b) == a[1] * b[2] < b[1] * a[2]
Largest(S) == CHOOSE a \in S : \A b \in S : ~Less(a, b)
CeilDiv(a, b) == (a + b - 1) \div b

\* round2, to even when in the middle
Round2(q) ==
  LET lower == (100 * q[1]) \div q[2]  rest == (100 * q[1]) % q[2] IN
  CASE 2 * rest = q[2] -> lower + (lower % 2)
    [] 2 * rest < q[2] -> lower
    [] OTHER -> lower + 1

-----------------------------------------------------------------------------
(* Macro fusion, as facts_to_analytical_instructions sees it.              *)
FusedWithPrev(b, i) == /\ i > 1 /\ b[i].jump /\ ~b[i].noFusion /\ ~b[i - 1].noFusion
                       /\ b[i].str \in b[i - 1].with
FusedWithNext(b, i) == i < Len(b) /\ FusedWithPrev(b, i + 1)
Counted(b) == {i \in DOMAIN b : ~FusedWithPrev(b, i)}

\* a macro-fused pair is executed where the branch is
PortsOf(b, i) ==
  LET p == b[i].ports  old == {s \in DOMAIN p : FusedPorts \subseteq s} IN
  IF FusedWithNext(b, i) /\ old # {}
  THEN [s \in (DOMAIN p \ old) \cup {FusedPorts} |-> IF s = FusedPorts THEN p[CHOOSE o \in old : TRUE] ELSE p[s]]
  ELSE p

-----------------------------------------------------------------------------
(* Issue and ports.                                                        *)
IssueSlots(b) == MapThenSumSet(LAMBDA i : b[i].slots, Counted(b))
IssueLimit(b) == <<IssueSlots(b), IssueWidth>>

\* The uops of the counted instructions, port combination by port combination; and, summed up,
\* the number of uops that may only go to a set of ports.
PortLists(b) == [i \in Counted(b) |-> PortsOf(b, i)]
Summed(lists) ==
  [s \in UNION {DOMAIN lists[i] : i \in DOMAIN lists} |->
     MapThenSumSet(LAMBDA i : lists[i][s], {i \in DOMAIN lists : s \in DOMAIN lists[i]})]
Usage(b) == Summed(PortLists(b))
Inside(u, c) == MapThenSumSet(LAMBDA s : u[s], {s \in DOMAIN u : s \subseteq c})
PortLimitOf(u) ==
  Largest({<<0, 1>>} \cup {<<Inside(u, s \cup t), Cardinality(s \cup t)>> : s \in DOMAIN u, t \in DOMAIN u})
PortLimit(b) == PortLimitOf(Usage(b))

\* compute_python_runtime_port_usage_limit: a move counts for the average number of its uops that were not
\* eliminated in the relevant rounds (every set of ports gets it), an eliminable one never seen for nothing
RuntimeUsage(b, executed, lists) ==
  LET d == FoldSet(LAMBDA i, acc : acc * (IF b[i].eliminable THEN executed[i][2] ELSE 1), 1, DOMAIN lists) IN
  <<Summed([i \in DOMAIN lists |->
      [s \in DOMAIN lists[i] |-> IF b[i].eliminable THEN (d * executed[i][1]) \div executed[i][2] ELSE d * lists[i][s]]]), d>>
Scaled(q, d) == <<q[1], q[2] * d>>
RuntimeLimitOf(u) == Scaled(PortLimitOf(u[1]), u[2])
RuntimePortLimit(b, executed) ==
  RuntimeLimitOf(RuntimeUsage(b, executed, Restrict(PortLists(b), {i \in Counted(b) : b[i].eliminable => executed[i] # <<0, 0>>})))

-----------------------------------------------------------------------------
(* Decoders: which decoder takes each instruction, over round after round  *)
(* of the block, until a round's first one goes where one went before.     *)
Group(b, s, i) ==
  LET f == b[i] IN
  CASE f.complex -> [dec |-> 0, avail |-> f.simple]
    [] ~f.complex /\ (s.avail = 0 \/ (s.dec + 1 = NDecoders - 1 /\ f.with # {} /\ ~MacroFusibleInstrCanBeDecodedAsLastInstr))
         -> [dec |-> 0, avail |-> NDecoders - 1]
    [] OTHER -> [dec |-> s.dec + 1, avail |-> s.avail - 1]
Decode(b, s, i) == [Group(b, s, i) EXCEPT !.avail = IF b[i].jump \/ FusedWithNext(b, i) THEN 0 ELSE @]

\* decoder and decoders left after each of the instructions of n rounds
Decoding(b, n) ==
  LET c == SetToSortSeq(Counted(b), <)
      f[k \in 0..n * Len(c)] == IF k = 0 THEN [dec |-> NDecoders - 1, avail |-> 0]
                               ELSE Decode(b, f[k - 1], c[((k - 1) % Len(c)) + 1])
  IN f
FirstOf(b, run, r) == run[r * Cardinality(Counted(b)) + 1]
\* groups begun in rounds p..q-1, per round
GroupRate(b, run, p, q) ==
  LET m == Cardinality(Counted(b)) IN <<Cardinality({k \in p * m + 1..q * m : run[k].dec = 0}), q - p>>
\* Mutant: the period is taken to begin with the first round.
DecodersFromStart(b, run) ==
  GroupRate(b, run, 0, CHOOSE r \in 1..NDecoders : \E p \in 0..r - 1 : FirstOf(b, run, p).dec = FirstOf(b, run, r).dec)
\* the first round that begins where an earlier one did, and that one
DecodersOnceRepeated(b, run) ==
  LET repeats(p, q) == FirstOf(b, run, p).dec = FirstOf(b, run, q).dec
      q == CHOOSE r \in 1..NDecoders : (\E p \in 0..r - 1 : repeats(p, r)) /\ \A x \in 1..r - 1, p \in 0..r - 1 : p < x => ~repeats(p, x)
  IN GroupRate(b, run, CHOOSE p \in 0..q - 1 : repeats(p, q), q)
DecoderLimit(b) == DecodersOnceRepeated(b, Decoding(b, NDecoders + 1))

-----------------------------------------------------------------------------
(* The decoded stream buffer and the loop stream detector.                 *)
DsbLimit(b, offset) ==
  LET n == MapThenSumSet(LAMBDA i : b[i].mite, Counted(b))
      length == MapThenSumSet(LAMBDA i : b[i].size, 1..Len(b) - 1) IN
  IF (length + offset) \div 32 = offset \div 32 THEN <<CeilDiv(n, 6), 1>> ELSE <<n, 6>>

LsdUops(b) == MapThenSumSet(LAMBDA i : b[i].mite + b[i].ms, Counted(b))
HasLsdLimit(b) == LSDEnabled /\ (\A i \in DOMAIN b : b[i].lsd) /\ LsdUops(b) \in 1..IDQWidth
LsdLimit(b) == LET u == IF LsdUops(b) \in DOMAIN LSDUnrolling THEN LSDUnrolling[LsdUops(b)] ELSE 1
               IN <<CeilDiv(LsdUops(b) * u, IssueWidth), u>>

-----------------------------------------------------------------------------
(* The predecoder: 16-byte blocks of the code, repeated until it fills     *)
(* whole blocks.  Copies are counted from 0; copy 0 starts offset bytes    *)
(* into the block in front of block 0, if the code is not aligned.         *)
Size(b) == MapThenSumSet(LAMBDA i : b[i].size, DOMAIN b)
Start(b, i) == MapThenSumSet(LAMBDA j : b[j].size, 1..i - 1)
RECURSIVE Gcd(_, _)
Gcd(x, y) == IF y = 0 THEN x ELSE Gcd(y, x % y)
Unroll(b, loop) == IF loop THEN 1 ELSE 16 \div Gcd(Size(b), 16)
NumBlocks(b, loop) == CeilDiv(Unroll(b, loop) * Size(b), 16)

\* the instructions looked at, each with its address: they start before the last block ends
Places(b, loop, offset) ==
  LET first == IF offset % 16 = 0 THEN 0 ELSE (offset % 16) - 16
      stop == Unroll(b, loop) * Size(b) IN
  {<<i, first + k * Size(b) + Start(b, i)>> : i \in DOMAIN b, k \in 0..(stop - first) \div Size(b)} \cap ((DOMAIN b) \X (-16..stop - 1))
EndBlock(b, x) == (x[2] + b[x[1]].size - 1) \div 16
OpcodeBlock(b, x) == (x[2] + b[x[1]].opcode) \div 16
EndsIn(b, places, k) == {x \in places : EndBlock(b, x) = k}
CrossesFrom(b, places, k) == {x \in places : OpcodeBlock(b, x) = k /\ EndBlock(b, x) # k}
\* cycles to predecode block k, and those that prefixes cost that were not hidden behind the block before
BlockCycles(b, places, k) == CeilDiv(Cardinality(EndsIn(b, places, k)) + Cardinality(CrossesFrom(b, places, k)), 5)
Stalls(b, places, k, n) ==
  LET lcps == Cardinality({x \in places : OpcodeBlock(b, x) = k /\ b[x[1]].lcp})
      before == BlockCycles(b, places, IF k = 0 THEN n - 1 ELSE k - 1) IN
  Max({0, 3 * lcps - Max({0, before - 1})})
PredecodeLimit(b, loop, offset) ==
  LET n == NumBlocks(b, loop)  places == Places(b, loop, offset) IN
  <<MapThenSumSet(LAMBDA k : BlockCycles(b, places, k) + Stalls(b, places, k, n), 0..n - 1), Unroll(b, loop)>>

-----------------------------------------------------------------------------
(* High bytes: which of them are clean when the loop comes round, and what *)
(* a read of a clean one costs.                                            *)
CleanAfter(b, clean, i) ==
  [r \in Registers |-> CASE "high write" \in b[i].acts[r] -> FALSE
                         [] "wide" \in b[i].acts[r] /\ "high write" \notin b[i].acts[r] -> TRUE
                         [] OTHER -> clean[r]]
CleanThrough(b, clean, n) == FoldLeft(LAMBDA c, i : CleanAfter(b, c, i), clean, [i \in 1..n |-> i])
AllClean == [r \in Registers |-> TRUE]
Penalty(b, i) ==
  {r \in Registers : "high read" \in b[i].acts[r] /\ CleanThrough(b, CleanThrough(b, AllClean, Len(b)), i - 1)[r]}

-----------------------------------------------------------------------------
(* The limits of a result, by the sources instructions were delivered from *)
(* and the latency of its dependencies; and the bottlenecks they make.     *)
Limits(b, sources, loop, offset, executed, dependencies) ==
  LET has == {"issue", "ports", "dependencies"}
             \cup (IF "mite" \in sources THEN {"decoder"} ELSE {}) \cup (IF sources = {"mite"} THEN {"predecoder"} ELSE {})
             \cup (IF "dsb" \in sources THEN {"dsb"} ELSE {}) \cup (IF "lsd" \in sources /\ HasLsdLimit(b) THEN {"lsd"} ELSE {}) IN
  [name \in has |-> Round2(
     CASE name = "issue" -> IssueLimit(b)
       [] name = "ports" -> RuntimePortLimit(b, executed)
       [] name = "decoder" -> DecoderLimit(b)
       [] name = "predecoder" -> PredecodeLimit(b, loop, offset)
       [] name = "dsb" -> DsbLimit(b, offset)
       [] name = "lsd" -> LsdLimit(b)
       [] OTHER -> dependencies)]

\* within two percent
Bottlenecks(limits, throughput) == {name \in DOMAIN limits : 100 * limits[name] >= 98 * throughput}

\* compute_loop_model: the prediction for a loop before it is simulated
LoopLimitsOf(limits, ports) ==
  [name \in {n \in DOMAIN limits : n = "dependencies" => limits[n] > 0} |-> IF name = "ports" THEN Round2(ports) ELSE limits[name]]
LoopLimits(b, dependencies) ==
  LoopLimitsOf(Limits(b, {"mite", "dsb", "lsd"}, TRUE, 0, [i \in DOMAIN b |-> <<0, 0>>], dependencies), PortLimit(b))
LoopThroughput(limits) == IF \E l \in Range(limits) : l > 0 THEN Max(Range(limits)) ELSE 100
EstimatedIterations(cycles, throughput, least) ==
  IF throughput = 0 THEN least ELSE Max({least, Max({0, 100 * (cycles - 8)}) \div throughput})

-----------------------------------------------------------------------------
(***************************************************************************)
(* What the analytical limits mean: each is compared with what it is a     *)
(* limit of, computed another way.                                         *)
(***************************************************************************)

\* a <= b, a = b as fractions
AtMost(a, b) == ~Less(b, a)
Same(a, b) == a[1] * b[2] = b[1] * a[2]

(* Uops one by one, each with the ports it may go to.                      *)
UopList(u) == FoldSet(LAMBDA s, l : l \o [j \in 1..u[s] |-> s], <<>>, DOMAIN u)
Assignments(l) == {a \in [DOMAIN l -> UNION Range(l)] : \A k \in DOMAIN l : a[k] \in l[k]}
Load(a, p) == Cardinality({k \in DOMAIN a : a[k] = p})

(* No assignment of the uops of an iteration to ports is better than the   *)
(* limit: some port always gets at least that many.                        *)
SoundFor(l, limit) ==
  l # <<>> => \A a \in Assignments(l) : \E p \in UNION Range(l) : AtMost(limit, <<Load(a, p), 1>>)
PortLimitSound == SoundFor(UopList(Usage(block)), PortLimit(block))

(* The limit looks at pairs of port combinations only.  With at most two   *)
(* of them it is the best bound there is, that over all sets of ports.     *)
BestPortBound(u) == Largest({<<0, 1>>} \cup {<<Inside(u, c), Cardinality(c)>> : c \in SUBSET (UNION DOMAIN u) \ {{}}})
ExactForTwo(u) == Cardinality(DOMAIN u) <= 2 => Same(PortLimitOf(u), BestPortBound(u))
PortLimitExactForTwo == ExactForTwo(Usage(block))

(* Fusing two instructions never loses or invents a uop on the ports.      *)
UopsOn(ports) == MapThenSumSet(LAMBDA s : ports[s], DOMAIN ports)
FusionKeepsUops == \A i \in DOMAIN block : UopsOn(PortsOf(block, i)) = UopsOn(block[i].ports)

(* A move that was executed every time counts as it does statically if it  *)
(* has one uop; the two port limits then agree.                            *)
RuntimeLimitAgrees ==
  (\A i \in DOMAIN block : UopsOn(block[i].ports) = 1) =>
    Same(RuntimePortLimit(block, [i \in DOMAIN block |-> <<3, 3>>]), PortLimit(block))

(* The decoder limit stops at the first round whose first instruction goes *)
(* to a decoder for the second time.  That decoders then repeat for ever:  *)
(* it is the exact rate of groups over the long run, though the number of  *)
(* decoders still available, which the test leaves out, is part of what    *)
(* the next round depends on.                                              *)
RepeatsExactly(run, limit) ==
  LET q == CHOOSE r \in 1..NDecoders * NDecoders :
             \E p \in 0..r - 1 : FirstOf(block, run, p) = FirstOf(block, run, r)
      p == CHOOSE x \in 0..q - 1 : FirstOf(block, run, x) = FirstOf(block, run, q)
  IN Same(limit, GroupRate(block, run, p, q))
DecoderLimitExact ==
  block # <<>> => RepeatsExactly(Decoding(block, NDecoders * NDecoders + 1), DecoderLimit(block))

(* Unrolled until it fills whole blocks, every instruction ends in exactly *)
(* one block per copy, wherever the code starts.                           *)
PredecodeCountsAll ==
  \A offset \in {0, 1, 7, 15, 17} : block # <<>> =>
    \A places \in {Places(block, FALSE, offset)} :
      MapThenSumSet(LAMBDA k : Cardinality(EndsIn(block, places, k)), 0..NumBlocks(block, FALSE) - 1) = Unroll(block, FALSE) * Len(block)

(* Aligned code starts where code one block further on starts.             *)
PredecodePeriodic ==
  \A offset \in {0, 1, 6}, loop \in BOOLEAN : block # <<>> =>
    PredecodeLimit(block, loop, offset) = PredecodeLimit(block, loop, offset + 16)

(* The LSD unrolls to issue at full width, but never beats the width, and  *)
(* loses less than a cycle per unrolled iteration.                         *)
LsdLimitTight ==
  HasLsdLimit(block) /\ block # <<>> =>
    /\ AtMost(<<LsdUops(block), IssueWidth>>, LsdLimit(block))
    /\ Less(LsdLimit(block), <<LsdUops(block) + IssueWidth, IssueWidth>>)

(* One round over the block is enough to know which high bytes are clean   *)
(* when the loop comes round: a second one changes nothing.                *)
HighBytesSteady ==
  LET through(clean) == CleanThrough(block, clean, Len(block)) IN
  \A i \in DOMAIN block : \A twice \in {through(through(AllClean))} :
    Penalty(block, i) = {r \in Registers : "high read" \in block[i].acts[r] /\ CleanThrough(block, twice, i - 1)[r]}

(* A rounded limit is within half a hundredth of the limit, and among the  *)
(* two nearest the even one is taken, as Python does.                      *)
Fair(q, rounded) ==
  LET off == 2 * (rounded * q[2] - 100 * q[1]) IN
  off \in -q[2]..q[2] /\ (off \in {-q[2], q[2]} => rounded % 2 = 0)
FairlyRounded(q) == Fair(q, Round2(q))
RoundingFair == block # <<>> => FairlyRounded(PredecodeLimit(block, FALSE, 0))

(* Every loop gets a bottleneck, and none of its limits is above the       *)
(* throughput predicted.                                                   *)
BoundAt(limits, throughput) ==
  /\ \A name \in DOMAIN limits : limits[name] <= throughput
  /\ (\E name \in DOMAIN limits : limits[name] > 0) => Bottlenecks(limits, throughput) # {}
Bound(limits) == BoundAt(limits, LoopThroughput(limits))
LoopIsBound ==
  block # <<>> => \A latency \in {<<0, 1>>, <<1, 1>>, <<7, 2>>} : Bound(LoopLimits(block, latency))

(* The limits are what they are called: none is above what can be, and the *)
(* ones of the decoders, the predecoder and the LSD are reached.           *)
LimitsExact ==
  /\ PortLimitSound /\ PortLimitExactForTwo /\ FusionKeepsUops /\ RuntimeLimitAgrees
  /\ DecoderLimitExact /\ LsdLimitTight
  /\ PredecodeCountsAll /\ PredecodePeriodic
  /\ HighBytesSteady /\ RoundingFair /\ LoopIsBound
=============================================================================
