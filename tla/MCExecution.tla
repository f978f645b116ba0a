---------------------------- MODULE MCExecution -----------------------------
(***************************************************************************)
(* Streams of five uops for the back end:                                  *)
(*   - dependency patterns: which older uop (or pair of uops) each one     *)
(*     reads, one or three cycles of latency, one port or a choice of two, *)
(*     separate or micro-fused;                                            *)
(*   - stores and loads: a load that reads an earlier store, with the      *)
(*     address or the data late, and pairs of stores and of 256-bit        *)
(*     accesses that compete for the store-data ports 4 and 9 and the load *)
(*     ports 2 and 3;                                                      *)
(*   - load, store and full fences between accesses whose operands become  *)
(*     available in any order, and fences right after fences;              *)
(*   - uops that need the divider, in competition with the other uops of   *)
(*     port 0 and with instructions of limited throughput.                 *)
(***************************************************************************)
EXTENDS PipelineProperties, MCStreams

MCPorts == <<0, 1, 2, 3, 4, 9>>

One(l)    == Lam(l - 1, l - 1, l)
Fused1    == <<<<1>>, <<2>>, <<3>>, <<4>>, <<5>>>>
Five      == <<One(1), One(2), One(3), One(4), One(5)>>
Four      == <<One(1), One(2), One(3), One(4)>>

Slow(latency) == [Alu({0}, <<>>) EXCEPT !.outputs = {1, latency}]

Now == <<>>

(***************************************************************************)
(* Dependencies.  Uop 1 has a result after one cycle and one after three.  *)
(***************************************************************************)
Second == <<<<From(1, 1)>>, <<From(1, 3)>>>>
Third  == <<<<From(1, 3)>>, <<From(2, 1)>>>>
Fourth == <<<<From(2, 1)>>, <<From(1, 3), From(3, 1)>>, <<From(2, 1), From(3, 1)>>>>

Shapes ==
  <<[fused |-> Fused1, lams |-> Five],
    [fused |-> <<<<1>>, <<2, 3>>, <<4>>, <<5>>>>,
     lams |-> <<One(1), Lam(1, 1, 3), One(4)>>]>>

Dependencies ==
  Cross(Cross(Cross(Cross(<<Now>>, Second), Third), Fourth), Shapes)

Dependent(c) ==
  Parts(<<Slow(3), Alu({0}, c[1]), Alu({0, 1}, c[2]), Alu({1}, c[3]), Alu({0, 1}, Now)>>,
        c[4].fused, c[4].lams)

(***************************************************************************)
(* Memory.  A store (uops 2 and 3), the load that reads it and a consumer: *)
(* the inputs of the address, of the data and of the load.                 *)
(***************************************************************************)
Forwards ==
  Cross(Cross(Cross(<<Now>>, <<Now, <<From(1, 8)>>>>), <<Now, <<From(1, 1)>>, <<From(1, 8)>>>>),
        <<Now, <<From(1, 1)>>>>)

Forwarding(c) ==
  Parts(<<Slow(8), StoreAddress({2, 3}, c[1], 2, 0), StoreData({4}, c[2], 2),
          Load({2, 3}, c[3], 2), Alu({0}, <<From(4, 5)>>)>>,
        <<<<1>>, <<2, 3>>, <<4>>, <<5>>>>, Four)

(* The load is a prefetch: it has no result.                               *)
Prefetch ==
  LET late == Forwarding(<<<<From(1, 8)>>, Now, Now>>)
  IN  [late EXCEPT !.uops = [@ EXCEPT ![4].outputs = {}, ![5].inputs = Now]]

(* Two stores, of the given displacements, the first perhaps wide, and a   *)
(* third uop on a store port; four loads.                                  *)
TwoStores == <<<<0, 8, FALSE>>, <<0, 64, FALSE>>, <<64, 0, TRUE>>, <<72, 9, FALSE>>, <<0, 8, TRUE>>>>

Stores(c) ==
  Parts(<<StoreAddress({2, 3}, Now, 1, c[1]), [StoreData({4}, Now, 1) EXCEPT !.m256 = c[3]],
          StoreAddress({2, 3}, Now, 3, c[2]), StoreData({4, 9}, Now, 3), Alu({4}, Now)>>,
        <<<<1, 2>>, <<3, 4>>, <<5>>>>, <<One(1), One(2), One(3)>>)

Loads(wide) ==
  Parts(<<[Load({2, 3}, Now, None) EXCEPT !.m256 = wide],
          [Load({2, 3}, Now, None) EXCEPT !.m256 = TRUE],
          [Load({2}, <<From(1, 5)>>, None) EXCEPT !.m256 = TRUE],
          [Load({3}, <<From(1, 5)>>, None) EXCEPT !.m256 = wide], Alu({0}, Now)>>,
        <<<<1>>, <<2>>, <<3, 4>>, <<5>>>>, Four)

(***************************************************************************)
(* Fences: between a load and a store, each perhaps late; of two uops      *)
(* behind a store; and two fences, the first one perhaps late, with        *)
(* accesses between and behind.                                            *)
(***************************************************************************)
Kinds == <<{"load"}, {"store"}, {"load", "store"}>>
Times == <<Now, <<From(1, 4)>>>>

Fence(kinds, inputs) == [Alu({0}, inputs) EXCEPT !.fences = kinds]

Around(c) ==
  Parts(<<Slow(4), Load({2}, c[2], None), Fence(c[1], c[3]),
          StoreAddress({2}, Now, 4, 0), StoreData({4}, Now, 4)>>,
        <<<<1>>, <<2>>, <<3>>, <<4, 5>>>>, Four)

Behind(kinds) ==
  Parts(<<StoreAddress({2}, Now, 1, 0), StoreData({4}, Now, 1), Fence(kinds, Now),
          [Fence(kinds, Now) EXCEPT !.first = FALSE], Load({2}, Now, None)>>,
        <<<<1, 2>>, <<3>>, <<4>>, <<5>>>>, Four)

Twice(c) ==
  Parts(<<Slow(4), Fence(c[1], c[3]), Load({2}, Now, None), Fence(c[2], Now), Load({2}, Now, None)>>,
        Fused1, Five)

Arounds == Cross(Cross(Cross(<<Now>>, Kinds), Times), Times)
Twices  == Cross(Cross(Cross(<<Now>>, Kinds), Kinds), Times)

(***************************************************************************)
(* The divider.  The middle uop may be created late: the ready queues then *)
(* take it for younger than the uops that follow.                          *)
(***************************************************************************)
Divide(cycles, inputs) == [Alu({0}, inputs) EXCEPT !.div = cycles]

Throttled(tp, inputs) == [Alu({0, 1}, inputs) EXCEPT !.instr = "throttled", !.tp = tp]

Divisions ==
  Cross(Cross(Cross(<<Now>>, <<Now>> \o Third), <<Now, <<From(2, 1)>>, <<From(3, 1)>>>>),
        <<0, 9>>)

Mixed(c) ==
  Parts(<<[Alu({0, 1}, Now) EXCEPT !.outputs = {1, 3}], [Divide(2, Now) EXCEPT !.outputs = {1, 3}],
          [Divide(3, c[1]) EXCEPT !.queueIdx = c[3]], Alu({0}, c[2]), Divide(1, Now)>>,
        Fused1, <<One(1), One(2), One(3), Lam(3, 3, 5)>>)

Throttling ==
  Parts(<<Alu({0, 1}, Now), Throttled(3, Now),
          [Throttled(3, <<From(1, 1)>>) EXCEPT !.div = 2, !.ports = {0}],
          Alu({0}, Now), [Throttled(3, Now) EXCEPT !.first = FALSE]>>,
        <<<<1>>, <<2>>, <<3>>, <<4, 5>>>>, Four)

MCPrograms ==
  Over(StreamOf,
       Over(Dependent, Dependencies) \o Over(Forwarding, Forwards) \o Over(Stores, TwoStores)
       \o Over(Loads, <<TRUE, FALSE>>) \o Over(Around, Arounds) \o Over(Twice, Twices)
       \o Over(Behind, Kinds) \o Over(Mixed, Divisions) \o <<Throttling, Prefetch>>)

(* What the theorems about the divider and about 256-bit accesses suppose  *)
(* of the streams.                                                         *)
ASSUME UnitsAssumption == DividerOnPort0 /\ LoadsOnTwoPorts
=============================================================================
