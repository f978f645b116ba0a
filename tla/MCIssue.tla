------------------------------ MODULE MCIssue -------------------------------
(***************************************************************************)
(* The issue stage: register merges, serializing instructions, uops that   *)
(* need no port, eliminated moves, micro-fused and multi-uop laminated     *)
(* uops, with the decode queue, the scheduler and the reorder buffer full. *)
(***************************************************************************)
EXTENDS PipelineProperties, MCStreams

MCPorts == <<0, 1>>

Slow == [Alu({0}, <<>>) EXCEPT !.outputs = {1, 4}]
Nop  == [Alu({}, <<>>) EXCEPT !.outputs = {}]
Move == [Alu({0, 1}, <<>>) EXCEPT !.eliminated = TRUE]
Serial(l) == [l EXCEPT !.serializing = TRUE]
Sync(l)   == [l EXCEPT !.sync = TRUE]

Fused1 == <<<<1>>, <<2>>, <<3>>, <<4>>, <<5>>>>
Fused2 == <<<<1>>, <<2, 3>>, <<4>>, <<5>>>>

One(l)    == Lam(l - 1, l - 1, l)
Single(n) == [l \in 1..n |-> One(l)]

(* How the five fused uops are laminated.                                  *)
Laminations ==
  <<Single(5),
    <<One(1), Lam(1, 2, 3), One(4), One(5)>>,                      (* one merge     *)
    <<One(1), Lam(1, 3, 4), Lam(4, 4, 5)>>,                        (* two merges    *)
    <<Lam(0, 1, 2), Lam(2, 3, 4), One(5)>>,                        (* merges twice  *)
    <<Lam(0, 0, 2), Lam(2, 2, 4), One(5)>>,                        (* pairs         *)
    <<One(1), One(2), Serial(One(3)), One(4), One(5)>>,
    <<One(1), Serial(Lam(1, 2, 4)), Serial(One(5))>>,
    <<Lam(0, 1, 2), Sync(One(3)), Serial(Lam(3, 3, 5))>>>>       (* synchronised  *)

Mixes ==
  <<<<Slow, Alu({0}, <<From(1, 4)>>), Alu({0, 1}, <<>>), Alu({1}, <<From(1, 1)>>), Nop>>,
    <<Slow, Nop, Move, Alu({0, 1}, <<From(1, 4)>>), Alu({0}, <<>>)>>,
    <<Nop, Slow, Alu({0}, <<From(2, 4)>>), Alu({0}, <<>>), Move>>>>

Choices == Cross(Cross(<< <<>> >>, Mixes), Laminations)

Laminated(c) == Parts(c[1], Fused1, c[2])

(* Uops 2 and 3 micro-fused.                                               *)
MicroFused(mix) == Parts(mix, Fused2, <<One(1), Lam(1, 1, 3), Serial(One(4))>>)

MCPrograms == Over(StreamOf, Over(Laminated, Choices) \o Over(MicroFused, Mixes))
=============================================================================
