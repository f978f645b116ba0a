---------------------------- MODULE LatencyGraph ----------------------------
(***************************************************************************)
(* The dependencies limit (analytical.rs): the latency graph of a loop,    *)
(* its strongly connected components and the cycle of the largest latency  *)
(* per iteration.  All functions of the instructions of the loop.          *)
(*                                                                         *)
(* An operand is a register <<r>> or a memory operand <<base, index, disp>>*)
(* (base and index a register or "none").  An abstract value is a pair of  *)
(* what it comes from and an offset.                                       *)
(***************************************************************************)
EXTENDS Integers, Sequences, FiniteSets, SequencesExt, FiniteSetsExt, Functions, Folds

VARIABLES
  setup,   \* fixed in a behaviour: the instructions to choose from (see InstrsOK), how many, and the options
  loop     \* the instructions of the loop

Registers == setup.registers
FastPointerChasing == setup.fastPointerChasing
InitPolicy == setup.initPolicy   \* of the registers' values: all different, all the same, or so but for the stack's

\* how computes what a register result is, imm what it adds; latency is partial; from is the register a move that
\* may be eliminated reads (or "none")
InstrsOK == \A f \in setup.instrs :
  /\ Range(f.values) \subseteq Registers /\ f.how \in {"copy", "add", "other"}
  /\ DOMAIN f.latency \subseteq Range(f.inputs) \X Range(f.outputs)
  /\ {f.pointerLoad, f.elim, f.move32, f.stack, f.jcc} \subseteq BOOLEAN

\* facts_to_latency_instructions
LatencyInstrs(b) == SelectSeq(b, LAMBDA f : ~f.jcc)

IsMem(o) == Len(o) = 3
RSP == <<"RSP">>

-----------------------------------------------------------------------------
(* Abstract values and what is written to where.  A state of the walk over *)
(* the instructions has the registers' values, the last write to each key, *)
(* and whether RSP was last changed implicitly.                            *)
InitialValue(r) ==
  IF InitPolicy = "diff" \/ (InitPolicy = "stack" /\ r \in {"RSP", "RBP"}) THEN <<<<"initially", r>>, 0>>
  ELSE <<<<"initially", "any">>, 0>>
Start == [value |-> [r \in Registers |-> InitialValue(r)], writes |-> <<>>, rspImplicit |-> FALSE]

Key(s, o) ==
  LET value(r) == IF r = "none" THEN <<>> ELSE s.value[r] IN
  IF IsMem(o) THEN <<"memory", value(o[1]), value(o[2]), o[3]>> ELSE o

\* fresh names the k-th result of instruction i in this round
ResultValue(s, f, fresh) ==
  IF f.values = <<>> \/ f.how = "other" THEN <<fresh, 0>>
  ELSE LET v == s.value[f.values[1]] IN IF f.how = "copy" THEN v ELSE <<v[1], v[2] + f.imm>>

\* python_prev_write_for_move: the last write before, from the round before if there is none in this
PrevWriteForMove(p, i) ==
  LET writers == {j \in DOMAIN p : <<p[i].from>> \in Range(p[j].outputs)}
      before == {j \in writers : j < i} IN
  IF writers = {} THEN 0 ELSE Max(IF before # {} THEN before ELSE writers)

\* resolve_python_non_eliminated_move_writer: the instruction behind moves, and whether one of them was 32 bits wide;
\* none if there is only a circle of moves
RECURSIVE Resolve(_, _, _, _)
Resolve(p, i, seen, narrow) ==
  IF i = 0 \/ i \in seen THEN [i |-> 0, narrow |-> narrow]
  ELSE IF ~p[i].elim THEN [i |-> i, narrow |-> narrow]
  ELSE Resolve(p, PrevWriteForMove(p, i), seen \cup {i}, narrow \/ p[i].move32)

FastPtrChasing(p, s, f) ==
  LET mems == SelectSeq(f.inputs, IsMem)
      m == mems[1]
      written(r) == <<r>> \in DOMAIN s.writes
      by(r) == Resolve(p, s.writes[<<r>>].i, {}, FALSE) IN
  /\ FastPointerChasing /\ mems # <<>> /\ m[3] \in 0..2047 /\ m[1] # "none"
  /\ written(m[1]) /\ by(m[1]).i # 0 /\ ~by(m[1]).narrow /\ p[by(m[1]).i].pointerLoad
  /\ m[2] # "none" => written(m[2]) /\ by(m[2]).i # 0 /\ p[by(m[2]).i].uops = 0

\* iteration is 0 in the two rounds before the one that is looked at, round tells these apart
ProcessOutputs(p, s, i, iteration, round) ==
  LET f == p[i]  fast == FastPtrChasing(p, s, f) IN
  [value |-> [r \in Registers |-> IF <<r>> \in Range(f.outputs) THEN ResultValue(s, f, <<round, i, r>>) ELSE s.value[r]],
   writes |-> FoldLeft(LAMBDA w, o : (Key(s, o) :> [i |-> i, out |-> o, fast |-> fast, it |-> iteration]) @@ w,
                       s.writes, f.outputs),
   rspImplicit |-> f.stack \/ (s.rspImplicit /\ RSP \notin f.explicit \cup Range(f.outputs))]

-----------------------------------------------------------------------------
(* The graph.  A node is an instruction with one of its inputs.            *)
Nodes(p) == UNION {{<<i, o>> : o \in Range(p[i].inputs)} : i \in DOMAIN p}

\* cost of an edge from input from of the producer, by write w, to input to of instruction i; -1 if there is none
Cost(p, s, i, to, w, from) ==
  LET f == p[w.i]  path == <<from, w.out>> IN
  CASE f.elim \/ (~IsMem(from) /\ IsMem(to)) -> 0
    [] ~(f.elim \/ (~IsMem(from) /\ IsMem(to))) /\ (path \notin DOMAIN f.latency \/ f.latency[path] <= 0) -> -1
    [] OTHER -> f.latency[path]
                + CASE w.fast /\ path \in f.addressPaths /\ (\E o \in Range(f.inputs) : IsMem(o)) -> -1
                    [] ~(w.fast /\ path \in f.addressPaths /\ (\E o \in Range(f.inputs) : IsMem(o)))
                         /\ s.rspImplicit /\ w.i = i /\ from = RSP /\ RSP \in p[i].explicit -> 1
                    [] OTHER -> 0

EdgesInto(p, s, i) ==
  UNION {LET w == s.writes[Key(s, o)] IN
         {[source |-> <<w.i, from>>, target |-> <<i, o>>, cost |-> Cost(p, s, i, o, w, from), time |-> 1 - w.it] :
            from \in {x \in Range(p[w.i].inputs) : Cost(p, s, i, o, w, x) >= 0}} :
         o \in {x \in Range(p[i].inputs) : Key(s, x) \in DOMAIN s.writes}}

Round(p, s, n) == FoldLeft(LAMBDA t, i : ProcessOutputs(p, t, i, 0, n), s, [i \in DOMAIN p |-> i])
\* Mutant: a single round before the edges are drawn.
EdgesAfterOneRound(p) ==
  FoldLeft(LAMBDA a, i : [state |-> ProcessOutputs(p, a.state, i, 1, 2), edges |-> a.edges \cup EdgesInto(p, a.state, i)],
           [state |-> Start, edges |-> {}], [i \in DOMAIN p |-> i]).edges
\* generate_latency_graph: two rounds to know the writes, then one for the edges
Edges(p) ==
  FoldLeft(LAMBDA a, i : [state |-> ProcessOutputs(p, a.state, i, 1, 3), edges |-> a.edges \cup EdgesInto(p, a.state, i)],
           [state |-> Round(p, Round(p, Start, 1), 2), edges |-> {}], [i \in DOMAIN p |-> i]).edges

-----------------------------------------------------------------------------
(* Strongly connected components, Tarjan's way.                            *)
RECURSIVE Connect(_, _, _)
PopComponent(t, v) ==
  LET k == CHOOSE k \in DOMAIN t.stack : t.stack[k] = v IN
  [t EXCEPT !.stack = SubSeq(@, 1, k - 1), !.components = @ \cup {Range(SubSeq(t.stack, k, Len(t.stack)))}]
Visit(edges, t, v, to) ==
  IF to \notin DOMAIN t.index
  THEN LET u == Connect(edges, t, to) IN [u EXCEPT !.low[v] = Min({@, u.low[to]})]
  ELSE IF to \in Range(t.stack) THEN [t EXCEPT !.low[v] = Min({@, t.index[to]})] ELSE t
Connect(edges, t, v) ==
  LET n == Cardinality(DOMAIN t.index)
      entered == [t EXCEPT !.index = (v :> n) @@ @, !.low = (v :> n) @@ @, !.stack = Append(@, v)]
      done == FoldSet(LAMBDA to, u : Visit(edges, u, v, to), entered, {e.target : e \in {x \in edges : x.source = v}})
  IN IF done.low[v] = done.index[v] THEN PopComponent(done, v) ELSE done
Components(nodes, edges) ==
  FoldSet(LAMBDA v, t : IF v \in DOMAIN t.index THEN t ELSE Connect(edges, t, v),
          [index |-> <<>>, low |-> <<>>, stack |-> <<>>, components |-> {}], nodes).components

-----------------------------------------------------------------------------
(* The largest latency per iteration, as <<latency, iterations>>.          *)
Less(a, b) == a[1] * b[2] < b[1] * a[2]
CostOf(path) == FoldLeft(LAMBDA n, e : n + e.cost, 0, path)
TimeOf(path) == FoldLeft(LAMBDA n, e : n + e.time, 0, path)

\* the closed walks maximum_cycle_ratio looks at: from start along edges, not to a node left before
RECURSIVE WalksFrom(_, _, _, _)
WalksFrom(edges, start, node, path) ==
  UNION {LET next == Append(path, e) IN
         IF e.target = start /\ TimeOf(next) > 0 THEN {next}
         ELSE IF e.target \in {path[k].source : k \in DOMAIN path} THEN {}
         ELSE WalksFrom(edges, start, e.target, next) :
         e \in {x \in edges : x.source = node}}
CycleRatios(edges, start) == {<<CostOf(w), TimeOf(w)>> : w \in WalksFrom(edges, start, start, <<>>)}

\* compute_maximum_latency_for_graph
MaximumLatency(nodes, edges) ==
  LET inside(c) == {e \in edges : e.source \in c /\ e.target \in c}
      ratios == {<<0, 1>>} \cup UNION {UNION {CycleRatios(inside(c), v) : v \in c} : c \in Components(nodes, edges)} IN
  CHOOSE q \in ratios : \A r \in ratios : ~Less(q, r)
DependenciesLimit(b) == LET p == LatencyInstrs(b) IN MaximumLatency(Nodes(p), Edges(p))
=============================================================================
