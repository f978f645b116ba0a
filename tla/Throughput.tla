----------------------------- MODULE Throughput -----------------------------
(***************************************************************************)
(* From what retires to what is reported (engine.rs): the simulation loop  *)
(* and when it stops, the log of the fused uops retired in each round, the *)
(* rounds that are looked at, the throughput, the report's rows and the    *)
(* bottlenecks that are seen only in the simulation.                       *)
(*                                                                         *)
(* What retires when is left to the pipeline (module Pipeline): here a     *)
(* pattern, repeated, of how many fused uops retire in a cycle.  Rounds    *)
(* are numbered from 0.  Throughputs are fractions.                        *)
(***************************************************************************)
EXTENDS Integers, Sequences, FiniteSets, SequencesExt, FiniteSetsExt, Functions

CONSTANTS
  SimulatedBlocks,   \* see BlockAssumption
  Patterns, RetireWidth,
  MinIterations, MinCycles, MoreCycles   \* sets of the options; cycles simulated at most beyond MinCycles

\* uops: the fused uops of an iteration, in order, with the instruction each belongs to, whether it is its own, a
\* register merge or a stack synchronisation, the port it takes ("none" for none) in even and in odd rounds, and the
\* cycles it occupies the divider
Kinds == {"own", "merge", "sync"}
ASSUME BlockAssumption == \A b \in SimulatedBlocks :
  /\ b.length \in Nat \ {0} /\ b.fused \in BOOLEAN /\ (b.fused => b.length > 1)
  /\ b.uops \in Seq([instr : 1..b.length, kind : Kinds, port : [1..2 -> STRING], div : Nat])
  /\ {u.instr : u \in {x \in Range(b.uops) : x.kind = "own"}} = 1..(IF b.fused THEN b.length - 1 ELSE b.length)
ASSUME OptionAssumption ==
  RetireWidth \in Nat /\ MinIterations \subseteq Nat /\ MinCycles \subseteq Nat /\ MoreCycles \in Nat
ASSUME PatternAssumption == \A p \in Patterns : p \in Seq(0..RetireWidth) /\ \E k \in DOMAIN p : p[k] > 0

VARIABLES
  block, pattern, minIterations, minCycles,   \* what is simulated
  clock,
  retired,         \* number of fused uops retired
  rnd,             \* round of the last one
  uopsForRound,    \* of each round the uops retired: which, when, and its place among those of the cycle
  ended
given == <<block, pattern, minIterations, minCycles>>
vars == <<block, pattern, minIterations, minCycles, clock, retired, rnd, uopsForRound, ended>>

Init ==
  /\ block \in SimulatedBlocks /\ pattern \in Patterns /\ minIterations \in MinIterations /\ minCycles \in MinCycles
  /\ clock = 0 /\ retired = 0 /\ rnd = 0 /\ uopsForRound = <<>> /\ ended = FALSE

N == Len(block.uops)
RoundOf(k) == (k - 1) \div N
UopOf(k) == ((k - 1) % N) + 1

\* drain_retire_queue, for the k-th uop
Logged(log, k, place) ==
  LET r == RoundOf(k) + 1
      long == IF Len(log) < r THEN log \o [j \in 1..r - Len(log) |-> <<>>] ELSE log IN
  [long EXCEPT ![r] = Append(@, [uop |-> UopOf(k), retired |-> clock, place |-> place])]

Batch == pattern[(clock % Len(pattern)) + 1]
LogOfCycle == FoldLeft(LAMBDA log, j : Logged(log, retired + j, j - 1), uopsForRound, [j \in 1..Batch |-> j])
Finished(r) == r >= minIterations /\ clock > minCycles
\* Mutant: the loop waits for something to retire.
CycleStuckWhenIdle ==
  /\ ~ended /\ Batch > 0
  /\ retired' = retired + Batch
  /\ uopsForRound' = LogOfCycle
  /\ rnd' = RoundOf(retired + Batch) /\ ended' = Finished(rnd') /\ clock' = clock + 1
  /\ UNCHANGED given
Cycle ==
  /\ ~ended
  /\ retired' = retired + Batch
  /\ uopsForRound' = LogOfCycle
  /\ rnd' = IF Batch > 0 THEN RoundOf(retired + Batch) ELSE rnd
  /\ ended' = (Finished(rnd') \/ clock >= minCycles + MoreCycles)
  /\ clock' = IF Finished(rnd') THEN clock ELSE clock + 1
  /\ UNCHANGED given

Next == Cycle
Spec == Init /\ [][Next]_vars /\ WF_vars(Next)

-----------------------------------------------------------------------------
(* The relevant rounds.                                                    *)
Monus(a, b) == Max({0, a - b})

\* python_last_applicable_instr_id
LastApplicable == IF block.fused THEN block.length - 1 ELSE block.length

\* last_retired_fused_for_round: nothing, or one
LastRetired(r) ==
  LET log == IF r < Len(uopsForRound) THEN uopsForRound[r + 1] ELSE <<>>
      own == {k \in DOMAIN log : block.uops[log[k].uop].instr = LastApplicable} IN
  IF own = {} THEN {} ELSE {log[Max(own)]}

\* Mutant: the last round, which need not be complete, is looked at too.
LastCandidateAll == Monus(Len(uopsForRound), 1)
LastCandidate == Monus(Len(uopsForRound), 2)
FirstRelevant == Min({LastCandidate, Len(uopsForRound) \div 2})

\* a round among the last ones whose last uop retires in the same place of its cycle
AlignedRounds ==
  {r \in Monus(LastCandidate, 4)..LastCandidate :
     \E e \in LastRetired(r), f \in LastRetired(FirstRelevant) : e.place = f.place}
HasWindow == LastCandidate - FirstRelevant > 10 => LastRetired(FirstRelevant) # {}
LastRelevant ==
  IF LastCandidate - FirstRelevant > 10 /\ AlignedRounds # {} THEN Max(AlignedRounds) ELSE LastCandidate

\* compute_simulated_throughput: none, or one
Throughput ==
  {IF FirstRelevant = LastRelevant THEN <<f.retired, 1>> ELSE <<e.retired - f.retired, LastRelevant - FirstRelevant>> :
     e \in LastRetired(LastRelevant), f \in LastRetired(FirstRelevant)}

-----------------------------------------------------------------------------
(* The report of the relevant rounds, and the bottlenecks of the execution.*)
Relevant == FirstRelevant..LastRelevant
PortIn(u, r) == block.uops[u].port[(r % 2) + 1]
PortNames == UNION {Range(u.port) : u \in Range(block.uops)} \ {"none"}

\* a row for each instruction and for the uops added to it, a macro-fused branch's own left empty; what a row holds
\* here is the total over its instances, which the code divides by their number
Row(i, kind) ==
  LET mine == {u \in 1..N : block.uops[u].instr = i /\ block.uops[u].kind = kind} IN
  [issued |-> Cardinality(mine) * Cardinality(Relevant),
   ports |-> [p \in PortNames |-> Cardinality({x \in mine \X Relevant : PortIn(x[1], x[2]) = p})],
   div |-> MapThenSumSet(LAMBDA u : block.uops[u].div, mine) * Cardinality(Relevant)]
\* Mutant: rows of added uops are left out.
RowsOwnOnly == {<<i, "own">> : i \in 1..LastApplicable}
Rows == {<<u.instr, u.kind>> : u \in {x \in Range(block.uops) : x.kind # "own"}} \cup {<<i, "own">> : i \in 1..LastApplicable}
TotalIssued == MapThenSumSet(LAMBDA x : Row(x[1], x[2]).issued, Rows)
TotalOnPort(p) == MapThenSumSet(LAMBDA x : Row(x[1], x[2]).ports[p], Rows)
TotalDiv == MapThenSumSet(LAMBDA x : Row(x[1], x[2]).div, Rows)

\* append_python_runtime_bottlenecks: all that was executed in these rounds on a port and in the divider
PortUsage(p) == Cardinality({x \in (1..N) \X Relevant : PortIn(x[1], x[2]) = p})
DivUsage == MapThenSumSet(LAMBDA x : block.uops[x[1]].div, (1..N) \X Relevant)
AtLeast(percent, usage, tp) == 100 * usage * tp[2] >= percent * tp[1] * Cardinality(Relevant)
SchedulingBound(tp) == \E p \in PortNames : AtLeast(98, PortUsage(p), tp)
DividerBound(tp) == AtLeast(99, DivUsage, tp)

-----------------------------------------------------------------------------
(* What the reported throughput and the rows of the report rest on.        *)
\* Rounds are logged in order; only the last one may still miss uops.
LogOrdered ==
  /\ block \in SimulatedBlocks /\ pattern \in Patterns /\ clock \in 0..minCycles + MoreCycles + 1
  /\ retired \in Nat /\ rnd \in Nat /\ ended \in BOOLEAN
  /\ \A r \in DOMAIN uopsForRound : \A k \in DOMAIN uopsForRound[r] : uopsForRound[r][k].uop = k

Reported == ended /\ Len(uopsForRound) > 1
Rounds == LastRelevant - FirstRelevant

\* Every round that is looked at has retired completely: a throughput never stops in the middle of an iteration, and
\* a row never counts uops without a port.
WindowIsComplete == Reported => \A r \in Relevant : Len(uopsForRound[r + 1]) = N

\* With at least five rounds the throughput is a difference between two rounds, not the cycle one of them retired in.
NeverAbsolute == Reported /\ minIterations >= 4 /\ Finished(rnd) => HasWindow /\ FirstRelevant < LastRelevant /\ Throughput # {}

\* No block is reported to be faster than its uops retire; the window's ends may lie anywhere in their cycles, which
\* is worth less than one cycle's uops, and nothing when they lie at the same place.
NeverFasterThanRetire ==
  Reported /\ FirstRelevant < LastRelevant =>
    LET aligned == \E e \in LastRetired(LastRelevant), f \in LastRetired(FirstRelevant) : e.place = f.place IN
    \A tp \in Throughput :
      tp[1] * RetireWidth * Rounds >= tp[2] * (N * Rounds - IF aligned THEN 0 ELSE RetireWidth - 1)

\* With a periodic retirement the throughput is the long-run one, up to what one period can hide.
Uops == FoldLeft(+, 0, pattern)
ThroughputIsAverage ==
  Reported /\ FirstRelevant < LastRelevant =>
    \A tp \in Throughput :
      LET d == tp[1] * Rounds * Uops - tp[2] * N * Rounds * Len(pattern) IN
      d \in -(tp[2] * Len(pattern) * Uops)..(tp[2] * Len(pattern) * Uops)

\* A long window ends at a round that retires as its first one does, if one of its last five does.
LongWindowAligned ==
  Reported /\ LastCandidate - FirstRelevant > 10 =>
    \/ \E e \in LastRetired(LastRelevant), f \in LastRetired(FirstRelevant) : e.place = f.place
    \/ \A r \in LastCandidate - 4..LastCandidate : \A e \in LastRetired(r), f \in LastRetired(FirstRelevant) : e.place # f.place

\* The window and the throughput measured over it are all that the report takes them for.
WindowSound ==
  LogOrdered /\ WindowIsComplete /\ NeverAbsolute /\ NeverFasterThanRetire /\ ThroughputIsAverage /\ LongWindowAligned

\* The two ways a simulation is looked at agree: the rows of the report add up to what the runtime bottlenecks count.
ReportAgreesWithBottlenecks ==
  Reported =>
    /\ TotalIssued = N * Cardinality(Relevant)
    /\ \A tp \in Throughput :
         /\ SchedulingBound(tp) <=> \E p \in PortNames : AtLeast(98, TotalOnPort(p), tp)
         /\ DividerBound(tp) <=> AtLeast(99, TotalDiv, tp)

\* The simulation ends, also when nothing gets it to the iterations it was asked for.
Ends == <>ended
=============================================================================
