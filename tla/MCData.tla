------------------------------- MODULE MCData --------------------------------
(***************************************************************************)
(* The data of the instructions: packs of two records that are written,    *)
(* damaged and read, and the choice of a record from tables of up to       *)
(* three.  A behaviour is about one of the two; the other's variables      *)
(* stand still.                                                            *)
(***************************************************************************)
EXTENDS Integers, Sequences, FiniteSets, TLC

CONSTANTS Unknown, JE, JZ, LEA, MEM, AGEN, RM, ADD, B_D8, OPS, NoForm, REP, S1, S2

VARIABLES setup, pack, file, damaged, table, instr, left, stage
packVars == <<setup, pack, file, damaged>>
matchVars == <<table, instr, left, stage>>

-----------------------------------------------------------------------------
(* Packs.                                                                  *)
a == <<11>>
b == <<12, 13>>
Lists == {<<>>, <<a, b>>}
OneList == {<<a>>}
DamageCells == {0, 1, 24, 99, -1}
None9 == <<<<>>, <<>>, <<>>, <<>>, <<>>, <<>>, <<>>, <<>>, <<>>>>
Some9 == <<<<0>>, <<3>>, <<0>>, <<1>>, <<<<0, 0>>>>, <<(a :> 0)>>, <<7>>, <<FALSE>>, <<0>>>>
Ports9 == [None9 EXCEPT ![6] = <<(a :> 2) @@ (b :> 0)>>, ![8] = <<TRUE>>]
NoPorts9 == [None9 EXCEPT ![5] = <<<<1, 2>>>>, ![6] = <<<<>>>>]

Plain == [arch |-> <<5>>, iform |-> <<60, 1>>, string |-> <<60>>, ports |-> a :> 1, numbers |-> <<1, 1, 1, 0, 0, 4, -8>>, tp |-> <<>>,
          flags |-> {2, 9}, operands |-> <<>>, latencies |-> <<>>, variants |-> <<>>, fusible |-> <<>>, attrs |-> <<>>]
Operand == <<a, b, {1}, <<>>, <<>>, <<>>, <<>>, <<>>, <<>>, <<>>, <<>>>>
Operands == {<<Operand>>, <<Operand, [Operand EXCEPT ![3] = {}]>>,
             <<[Operand EXCEPT ![4] = <<a, b>>, ![5] = <<b>>, ![6] = <<a>>]>>,
             <<[Operand EXCEPT ![7] = <<b>>, ![9] = <<0>>, ![10] = <<<<-1, -1>>>>, ![11] = <<<<14>>>>]>>,
             <<[Operand EXCEPT ![8] = <<a>>, ![9] = <<8>>, ![10] = <<<<0, 0>>>>]>>}
Latency == <<a, b, 5, <<<<>>, <<>>, <<>>, <<>>>>>>
Latencies == {<<Latency>>, <<Latency, <<b, a, 0, <<<<0>>, <<>>, <<6>>, <<>>>>>>>>, <<<<a, a, 1, <<<<>>, <<2>>, <<>>, <<0>>>>>>>>}
Variants == {a :> None9, a :> Some9, (b :> Ports9) @@ (a :> NoPorts9)}

\* one record with one field other than usual, or two
Varied ==
  {Plain} \cup {[Plain EXCEPT !.operands = o] : o \in Operands} \cup {[Plain EXCEPT !.latencies = l] : l \in Latencies}
  \cup {[Plain EXCEPT !.variants = v] : v \in Variants} \cup {[Plain EXCEPT !.fusible = l] : l \in Lists}
  \cup {[Plain EXCEPT !.attrs = f] : f \in {a :> b, (a :> a) @@ (b :> a)}}
  \cup {[Plain EXCEPT !.tp = t] : t \in {<<<<0, 0>>>>, <<<<5, 6>>>>}} \cup {[Plain EXCEPT !.ports = f] : f \in {<<>>, (b :> 3) @@ (a :> 0)}}
  \cup {[Plain EXCEPT !.flags = {}], [Plain EXCEPT !.arch = <<6>>]}
  \cup {[Plain EXCEPT !.operands = <<Operand>>, !.latencies = <<Latency>>, !.variants = a :> Some9, !.fusible = <<a>>, !.attrs = a :> b]}
  \cup {[Plain EXCEPT !.iform = i, !.string = s] : i \in {<<60, 1>>, <<61>>}, s \in {<<62, 3>>, <<60>>, <<>>}}

\* two different records, with every part
Whole == [Plain EXCEPT !.operands = <<Operand>>, !.latencies = <<Latency>>, !.variants = a :> Some9, !.fusible = <<a>>, !.attrs = a :> b, !.tp = <<<<5, 6>>>>]
Wholes == {Plain, Whole}

\* records that differ in what the index and the tables shared by all records are made of
Sharing ==
  Wholes \cup {[Plain EXCEPT !.arch = <<6>>], [Plain EXCEPT !.operands = <<Operand, [Operand EXCEPT ![3] = {}]>>],
              [Plain EXCEPT !.variants = (b :> Ports9) @@ (a :> NoPorts9)], [Plain EXCEPT !.ports = (b :> 3) @@ (a :> 0)]}
  \cup {[Plain EXCEPT !.iform = i, !.string = s] : i \in {<<60, 1>>, <<61>>}, s \in {<<62, 3>>, <<60>>, <<>>}}

Setup(records, portLists, most, damages) == [records |-> records, portLists |-> portLists, maxRecords |-> most, damages |-> damages]
MCSetups == {Setup(Varied, Lists, 1, {}), Setup(Sharing, OneList, 2, {}), Setup(Wholes, OneList, 2, DamageCells)}

-----------------------------------------------------------------------------
(* Tables and instructions.                                                *)
Row == [iform |-> <<ADD, OPS, S1>>, name |-> ADD, sizes |-> {8}, agen |-> NoForm, mask |-> FALSE, high8s |-> <<>>,
        attrs |-> <<>>, immZero |-> FALSE]
Attr(k, v) == [x \in {k} |-> v]
SameName ==
  {Row, [Row EXCEPT !.sizes = {4}, !.immZero = TRUE], [Row EXCEPT !.immZero = TRUE, !.attrs = Attr(REP, {0})],
   [Row EXCEPT !.sizes = {}, !.high8s = <<TRUE, FALSE>>], [Row EXCEPT !.sizes = {1}, !.high8s = <<FALSE, FALSE>>],
   [Row EXCEPT !.high8s = <<TRUE>>, !.mask = TRUE], [Row EXCEPT !.mask = TRUE, !.attrs = Attr(RM, {1, 2})]}
Rows ==
  SameName \cup
  {[Row EXCEPT !.iform = <<LEA, AGEN, S2>>, !.name = B_D8, !.agen = B_D8], [Row EXCEPT !.iform = <<LEA, AGEN, S2>>, !.name = LEA],
   [Row EXCEPT !.iform = <<JZ, OPS, S1>>, !.name = JE], [Row EXCEPT !.iform = <<ADD, OPS, S1>>, !.name = JZ, !.immZero = TRUE]}
MCTables == UNION {[1..n -> Rows] : n \in 0..2} \cup [1..3 -> SameName]

Decoded == [name |-> ADD, iform |-> <<ADD, OPS, S1>>, signature |-> Unknown, size |-> 8, agen |-> Unknown, mask |-> FALSE,
          high8s |-> <<>>, usesHigh8 |-> FALSE, attrs |-> <<>>, imm |-> Unknown]
DecodedOnes ==
  {Decoded, [Decoded EXCEPT !.imm = 0], [Decoded EXCEPT !.size = 4, !.imm = 1, !.mask = TRUE],
   [Decoded EXCEPT !.size = 1, !.high8s = <<TRUE, FALSE>>, !.usesHigh8 = TRUE], [Decoded EXCEPT !.size = Unknown, !.usesHigh8 = TRUE],
   [Decoded EXCEPT !.size = Unknown, !.imm = 0], [Decoded EXCEPT !.attrs = Attr(REP, 1), !.imm = 0], [Decoded EXCEPT !.attrs = Attr(RM, 3), !.mask = TRUE],
   [Decoded EXCEPT !.name = LEA, !.iform = Unknown, !.signature = MEM, !.agen = B_D8],
   [Decoded EXCEPT !.name = JE, !.iform = Unknown, !.signature = OPS], [Decoded EXCEPT !.name = JZ, !.iform = Unknown, !.imm = 0]}

-----------------------------------------------------------------------------
Packs   == INSTANCE UiPack WITH Setups <- MCSetups
Matches == INSTANCE Matcher WITH Tables <- MCTables, Instructions <- DecodedOnes

NoPack  == setup = 0 /\ pack = 0 /\ file = 0 /\ damaged = 0
NoMatch == table = 0 /\ instr = 0 /\ left = 0 /\ stage = 0

Init == (Packs!Init /\ NoMatch) \/ (Matches!Init /\ NoPack)
Next ==
  \/ stage = 0 /\ Packs!Next /\ UNCHANGED matchVars
  \/ stage # 0 /\ Matches!Next /\ UNCHANGED packVars
Spec == Init /\ [][Next]_<<packVars, matchVars>>

(* A pack survives being written and read, its index finds every record,   *)
(* and damage to the file is refused or stays contained (encode_uipack,    *)
(* UiPackView, UiPackViewIndex; see UiPack).                               *)
PackSound == stage = 0 => Packs!PackSound

(* The record used is the best of those that fit the instruction           *)
(* (match_record; see Matcher).                                            *)
BestFits == stage # 0 => Matches!BestFits
=============================================================================
