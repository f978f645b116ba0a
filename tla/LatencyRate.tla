----------------------------- MODULE LatencyRate -----------------------------
(***************************************************************************)
(* What the latency graph and its largest cycle mean, by references that   *)
(* follow the code round after round instead: the last writer of every     *)
(* input in an endless run, and the loop executed as early as its graph    *)
(* allows, against the dependencies limit.                                 *)
(***************************************************************************)
EXTENDS LatencyGraph

P == LatencyInstrs(loop)
N == Len(P)
GraphNodes == Nodes(P)
GraphEdges == Edges(P)

(* Values of the registers in front of step k of an endless run.           *)
Instr(k) == P[((k - 1) % N) + 1]
RoundOf(k) == (k - 1) \div N
Trace(n) ==
  LET f[k \in 1..n] ==
        IF k = 1 THEN [r \in Registers |-> InitialValue(r)]
        ELSE [r \in Registers |-> IF <<r>> \in Range(Instr(k - 1).outputs)
                                  THEN ResultValue([value |-> f[k - 1]], Instr(k - 1), <<0, k - 1, r>>) ELSE f[k - 1][r]]
  IN [k \in 1..n |-> f[k]]
\* where operand o of step k is, in the run
Place(trace, k, o) == Key([value |-> trace[k]], o)

(* An input of the loop depends on the instruction that wrote its register *)
(* or its memory last, in the sense of the abstract values: edges come     *)
(* from there and from nowhere else, take an iteration exactly if that was *)
(* in an earlier one, and are there if the result takes any time.          *)
EdgesFromLastWriters ==
  N > 0 =>
    LET trace == Trace(3 * N)  edges == GraphEdges IN
    \A i \in 1..N : \A o \in Range(P[i].inputs) :
      LET k == 2 * N + i
          writes(j, out) == out \in Range(Instr(j).outputs) /\ Place(trace, j, out) = Place(trace, k, o)
          writers == {j \in 1..k - 1 : \E out \in Range(Instr(j).outputs) : writes(j, out)}
          last == Max(writers)
          into == {e \in edges : e.target = <<i, o>>} IN
      /\ \A e \in into : /\ writers # {}
                         /\ e.source[1] = ((last - 1) % N) + 1
                         /\ e.time = (IF RoundOf(last) = 2 THEN 0 ELSE 1)
      /\ writers # {} /\ (\E path \in DOMAIN Instr(last).latency : writes(last, path[2])) => into # {}

(* A register carried round the loop is carried by one iteration.          *)
RegistersCarriedOnce ==
  \A e \in GraphEdges : ~IsMem(e.target[2]) => (e.time = 0 <=> e.source[1] < e.target[1])

(* Nothing depends on itself in no time: whatever goes round in the graph  *)
(* takes at least an iteration, so that a ratio exists for it.             *)
Reached(edges) ==
  LET through(m, S) == S \cup {<<a[1], b[2]>> : a \in {x \in S : x[2] = m}, b \in {x \in S : x[1] = m}}
  IN FoldSet(through, {<<e.source, e.target>> : e \in edges}, GraphNodes)
EveryCycleTakesTime == LET r == Reached({e \in GraphEdges : e.time = 0}) IN \A n \in GraphNodes : <<n, n>> \notin r

(* The components are the classes of nodes that reach each other.          *)
ComponentsExact ==
  LET edges == GraphEdges
      r == Reached(edges)
      together(a, b) == a = b \/ (<<a, b>> \in r /\ <<b, a>> \in r)
  IN Components(GraphNodes, edges) = {{b \in GraphNodes : together(a, b)} : a \in GraphNodes}

-----------------------------------------------------------------------------
CONSTANTS Setups, MaxRounds

VARIABLES graph,   \* the edges, and the limit computed from them
          done,    \* node -> when what it reads was there in the last round
          rounds,
          mark     \* the latest of done six rounds before the end
rateVars == <<setup, loop, graph, done, rounds, mark>>

RateInit ==
  /\ setup \in Setups /\ InstrsOK
  /\ loop \in UNION {[1..n -> setup.instrs] : n \in 1..setup.length}
  /\ graph = [edges |-> GraphEdges, limit |-> DependenciesLimit(loop)]
  /\ done = [n \in GraphNodes |-> 0]
  /\ rounds = 0 /\ mark = 0

Latest == Max({0} \cup Range(done))

\* an input of instruction i is there once all that it depends on is, this round or the last
Executed(d, i) ==
  [n \in DOMAIN d |-> IF n[1] # i THEN d[n]
     ELSE Max({0} \cup {e.cost + (IF e.time = 1 THEN done[e.source] ELSE d[e.source]) : e \in {x \in graph.edges : x.target = n}})]
ExecuteRound ==
  /\ rounds < MaxRounds
  /\ done' = FoldLeft(Executed, done, [i \in 1..N |-> i])
  /\ rounds' = rounds + 1
  /\ mark' = IF rounds = MaxRounds - 6 THEN Latest ELSE mark
  /\ UNCHANGED <<setup, loop, graph>>
RateSpec == RateInit /\ [][ExecuteRound]_rateVars

(* Executed as early as its inputs allow, the loop runs at the dependencies*)
(* limit: once it is under way, six more rounds take six times the limit,  *)
(* whatever goes round in it and however many iterations that takes (up to *)
(* three here).                                                            *)
DataflowRunsAtLimit ==
  rounds = MaxRounds => (Latest - mark) * graph.limit[2] = 6 * graph.limit[1]

(* The graph is that of the code, and the limit that of the graph.         *)
DependenciesExact ==
  /\ rounds = 0 => EdgesFromLastWriters /\ RegistersCarriedOnce /\ EveryCycleTakesTime /\ ComponentsExact
  /\ DataflowRunsAtLimit
=============================================================================
