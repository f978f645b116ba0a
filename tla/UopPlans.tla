------------------------------ MODULE UopPlans ------------------------------
(***************************************************************************)
(* The uops of one instruction (uop_expand.rs): compute_uop_plans_inner    *)
(* and compute_non_mem_uop_plans.  The ports of its record say how many    *)
(* uops there are, its operands and their latencies what each of them      *)
(* reads and writes.  What flows between its uops are pseudo operands.     *)
(*                                                                         *)
(* The record grows operand by operand, each with its latencies to and     *)
(* from those before it; the uops are a function of the record.            *)
(***************************************************************************)
EXTENDS Integers, Sequences, FiniteSets, SequencesExt, FiniteSetsExt, Functions, Folds, TLC

CONSTANT Setups   \* see SetupOK

(* A register is read or written, or only a latency starts at it; flags    *)
(* are two operands, C and SPAZO; a memory operand has a base, an index or *)
(* both; agen is the address of a LEA.                                     *)
Flags == <<"C", "SPAZO">>
OperandOK(o) ==
  CASE o.type = "reg" -> {o.read, o.write} \subseteq BOOLEAN
    [] o.type = "flags" -> o.read \cup o.write \subseteq Range(Flags)
    [] o.type = "mem" -> {o.read, o.write, o.base, o.index} \subseteq BOOLEAN
    [] OTHER -> o.type = "agen" /\ {o.base, o.index} \subseteq BOOLEAN

\* ports of the uops, slots to retire in, operands and latencies to choose from, and how many operands
SetupOK(s) == (\A o \in s.kinds : OperandOK(o)) /\ s.cycles \subseteq Nat /\ s.slots \in Nat /\ s.eliminable \in BOOLEAN

VARIABLES
  setup,      \* one of Setups, fixed in a behaviour
  operands,   \* of the record, in order
  rows        \* <<<<operand, part>>, operand>> -> latency; a row may be missing
vars == <<setup, operands, rows>>
ports == setup.ports
slots == setup.slots
eliminable == setup.eliminable

\* the parts of an operand that have latencies of their own
Parts(o) ==
  CASE o.type = "mem" -> {q \in {"mem", "base", "index"} : CASE q = "mem" -> o.read [] q = "base" -> o.base [] OTHER -> o.index}
    [] o.type = "agen" -> {q \in {"base", "index", "agen"} :
                            CASE q = "agen" -> ~(o.base \/ o.index) [] q = "base" -> o.base [] OTHER -> o.index}
    [] OTHER -> {o.type}
IsWritten(o) == IF o.type = "flags" THEN o.write # {} ELSE o.type # "agen" /\ o.write
Init == setup \in Setups /\ SetupOK(setup) /\ operands = <<>> /\ rows = <<>>
\* one flags operand at most, and no other address beside that of a LEA
Fits(o) == \A k \in DOMAIN operands : LET t == operands[k].type IN
  ~(o.type = t /\ t \in {"flags", "agen"}) /\ {o.type, t} # {"mem", "agen"}
NewRows(ops) ==
  {r \in ((DOMAIN ops) \X {"reg", "flags", "mem", "base", "index", "agen"}) \X (DOMAIN ops) :
     /\ Len(ops) \in {r[1][1], r[2]} /\ r[1][2] \in Parts(ops[r[1][1]]) /\ IsWritten(ops[r[2]])
     /\ r[1][1] # r[2] \/ r[1][2] \in {"base", "index"}}
AddOperand(o, t) ==
  /\ operands' = Append(operands, o) /\ rows' = t @@ rows
  /\ UNCHANGED setup
Next == Len(operands) < setup.maxOperands /\ \E o \in setup.kinds :
  Fits(o) /\ \E some \in SUBSET NewRows(Append(operands, o)) : \E t \in [some -> setup.cycles] : AddOperand(o, t)
Spec == Init /\ [][Next]_vars

Most(a, b) == IF a > b THEN a ELSE b
Least(a, b) == IF a < b THEN a ELSE b
LargestOf(S, default) == IF S = {} THEN default ELSE Max(S)

-----------------------------------------------------------------------------
(* Operands: <<its number in the record, which part of it>>.               *)
Concat(PartsOf(_)) == FlattenSeq([k \in DOMAIN operands |-> [j \in DOMAIN PartsOf(k) |-> <<k, PartsOf(k)[j]>>]])
FlagParts(S) == SelectSeq(Flags, LAMBDA f : f \in S)
Starts(k) == \E r \in DOMAIN rows : r[1][1] = k
One(p, part) == IF p THEN <<part>> ELSE <<>>

OutRegs == Concat(LAMBDA k : LET o == operands[k] IN One(o.type = "reg" /\ o.write, "reg"))
OutFlags == Concat(LAMBDA k : LET o == operands[k] IN IF o.type = "flags" THEN FlagParts(o.write) ELSE <<>>)
OutMems == Concat(LAMBDA k : LET o == operands[k] IN One(o.type = "mem" /\ o.write, "mem"))
InMems == Concat(LAMBDA k : LET o == operands[k] IN One(o.type = "mem" /\ o.read, "mem"))
\* flags that nothing reads but a latency starts at are all read
InFlags ==
  Concat(LAMBDA k : LET o == operands[k] IN
    IF o.type # "flags" THEN <<>> ELSE IF o.read = {} /\ Starts(k) THEN FlagParts(o.write) ELSE FlagParts(o.read))
Agens ==
  Concat(LAMBDA k : LET o == operands[k] IN
    IF o.type # "agen" THEN <<>> ELSE IF o.base \/ o.index THEN One(o.base, "base") \o One(o.index, "index") ELSE <<"agen">>)
MemAddrs ==
  Concat(LAMBDA k : LET o == operands[k] IN IF o.type = "mem" THEN One(o.base, "base") \o One(o.index, "index") ELSE <<>>) \o Agens

\* the latency from one operand to another, where the record has one
RowPart(i) == IF i[2] \in Range(Flags) THEN "flags" ELSE i[2]
Latency(i, o, default) ==
  LET r == <<<<i[1], RowPart(i)>>, o[1]>> IN IF r \in DOMAIN rows THEN rows[r] ELSE default

\* A register all of whose latencies are zero is no input, unless the move may be eliminated.
InRegsAll == Concat(LAMBDA k : LET o == operands[k] IN One(o.type = "reg" /\ (o.read \/ Starts(k)), "reg"))
InRegs ==
  LET outs == Range(OutRegs) \cup Range(OutFlags) \cup Range(OutMems) IN
  SelectSeq(InRegsAll, LAMBDA i : eliminable \/ \E o \in outs : Latency(i, o, 1) # 0)

\* these lists, which everything below is about
Lists ==
  [outRegs |-> OutRegs, outFlags |-> OutFlags, outMems |-> OutMems, inRegs |-> InRegs, inFlags |-> InFlags, inMems |-> InMems,
   agens |-> Agens, memAddrs |-> MemAddrs]

-----------------------------------------------------------------------------
(* Uops by their ports.                                                    *)
IsStoreAddress(p) == p \cap {"7", "8"} # {}
IsLoad(p) == ~IsStoreAddress(p) /\ p \cap {"2", "3"} # {}
IsStoreData(p) == ~IsStoreAddress(p) /\ ~IsLoad(p) /\ p \cap {"4", "9"} # {}
IsOther(p) == ~IsStoreAddress(p) /\ ~IsLoad(p) /\ ~IsStoreData(p)

\* without ports, a move that may be eliminated goes to any ALU
AluPorts == {"0", "1", "5", "6"}
PortList == IF ports = <<>> /\ eliminable THEN <<AluPorts>> ELSE ports

\* Store data that has no address takes a load's ports for it, from the last one, or is dropped.
Balanced ==
  LET a == SelectSeq(PortList, IsStoreAddress)  loads == SelectSeq(PortList, IsLoad)  d == SelectSeq(PortList, IsStoreData)
      excess == Most(0, Len(d) - Len(a))
      moved == Least(excess, Len(loads)) IN
  [load |-> SubSeq(loads, 1, Len(loads) - moved),
   address |-> a \o Reverse(SubSeq(loads, Len(loads) - moved + 1, Len(loads))),
   data |-> SubSeq(d, 1, Len(d) - (excess - moved)),
   other |-> SelectSeq(PortList, IsOther)]

-----------------------------------------------------------------------------
(* Plans: what a uop does and where, which operands it reads and writes,   *)
(* after how many cycles it writes each, and which memory operand is meant *)
(* (counted from 0).                                                       *)
Plan(kind, p, ins, lat, mem) == [kind |-> kind, ports |-> p, ins |-> ins, lat |-> lat, mem |-> mem]
WithLatency(outs, n) == [o \in Range(outs) |-> n]
NoMem == -1
Pseudo(n, what) == <<n, what>>   \* "load", "store", "class", "shift"
IsPseudo(o) == o[2] \in {"load", "store", "class", "shift"}

Loads(l, b) ==
  [i \in DOMAIN b.load |->
     Plan("load", b.load[i], <<>>, WithLatency(IF b.other # <<>> THEN <<Pseudo(i, "load")>> ELSE l.outRegs, 5), i - 1)]
LoadPseudos(b) == IF b.other = <<>> THEN <<>> ELSE [i \in DOMAIN b.load |-> Pseudo(i, "load")]

Pairs(b) == 1..Least(Len(b.address), Len(b.data))
StoreAddress(b, i) == Plan("address", b.address[i], <<>>, <<>>, i - 1)
StoreData(l, b, i) == Plan("data", b.data[i], IF b.other # <<>> THEN <<Pseudo(i, "store")>> ELSE l.inRegs \o l.inFlags, <<>>, NoMem)
Stores(l, b) == FlattenSeq([i \in Pairs(b) |-> <<StoreAddress(b, i), StoreData(l, b, i)>>])
StorePseudos(b) == IF b.other = <<>> THEN <<>> ELSE [i \in Pairs(b) |-> Pseudo(i, "store")]

-----------------------------------------------------------------------------
(* The uops that do not access memory.                                     *)

\* SHL (R64, CL) and the like: one uop for the registers, one for the flags, one merges the new flags with the old
SplitsShift(l, b) ==
  /\ Len(b.other) = 3
  /\ l.inMems = <<>> /\ l.outMems = <<>> /\ l.memAddrs = <<>>
  /\ l.inRegs # <<>> /\ l.outRegs # <<>> /\ l.inFlags # <<>> /\ l.outFlags # <<>>
  /\ b.load = <<>> /\ Pairs(b) = {}
  /\ \A i \in Range(l.inRegs) : /\ \A o \in Range(l.outRegs) : Latency(i, o, 1) = 1
                              /\ \A o \in Range(l.outFlags) : Latency(i, o, 2) = 2
  /\ \A i \in Range(l.inFlags) : /\ \A o \in Range(l.outRegs) : Latency(i, o, 0) = 0
                               /\ \A o \in Range(l.outFlags) : Latency(i, o, 2) = 2
Shift(l, b) ==
  <<Plan("other", b.other[1], l.inRegs, WithLatency(Append(l.outRegs, Pseudo(1, "shift")), 1), NoMem),
    Plan("other", b.other[2], l.inFlags, WithLatency(<<Pseudo(2, "shift")>>, 1), NoMem),
    Plan("other", b.other[3], <<Pseudo(1, "shift"), Pseudo(2, "shift")>>, WithLatency(l.outFlags, 1), NoMem)>>

Outs(l, b) == l.outRegs \o l.outFlags \o StorePseudos(b)
Ins(l, b) == l.inRegs \o l.inFlags \o (IF l.agens # <<>> THEN l.memAddrs ELSE <<>>) \o LoadPseudos(b)

\* The part of a latency that is neither the load's (5) nor the store's (4).  Of several addresses the last one counts.
Adjusted(l, i, o) ==
  CASE ~IsPseudo(i) /\ ~IsPseudo(o) -> Latency(i, o, 1)
    [] ~IsPseudo(i) /\ IsPseudo(o) -> LargestOf({Most(1, Latency(i, m, 1) - 4) : m \in Range(l.outMems)}, 1)
    [] IsPseudo(i) /\ ~IsPseudo(o) -> IF l.agens = <<>> /\ l.memAddrs # <<>> THEN Most(1, Latency(Last(l.memAddrs), o, 1) - 5) ELSE 1
    [] OTHER -> LargestOf({Most(1, Latency(m, n, 1) - 5) : m \in Range(l.inMems), n \in Range(l.outMems)}, 1)

\* Inputs are in classes, by the largest latency to an output.  The lowest class is read by the base uop, which writes all
\* outputs; each further uop takes a class and hands it on to the base uop later.  Uops left over write nothing; classes
\* left over are read by the base uop too.
Level(l, i, outs) == LargestOf({Adjusted(l, i, o) : o \in Range(outs)}, 1)
Classes(l, b) ==
  LET outs == Outs(l, b)
      level == [i \in Range(Ins(l, b)) |-> Level(l, i, outs)]
      levels == SetToSortSeq(Range(level), <) IN
  [k \in DOMAIN levels |-> [level |-> levels[k], ins |-> SelectSeq(Ins(l, b), LAMBDA i : level[i] = levels[k])]]
ClassUop(c, k, p) == Plan("other", p, c[k].ins, WithLatency(<<Pseudo(k, "class")>>, c[k].level - c[1].level), NoMem)
BaseLatency(l, c, o) == IF c = <<>> THEN 1 ELSE LargestOf({Adjusted(l, i, o) : i \in Range(c[1].ins)}, 1)
\* Mutant: no uop waits for the memory operand.
BaseUopOnly(l, b, c, n) ==
  Plan("other", b.other[1], IF c = <<>> THEN <<>> ELSE c[1].ins \o [k \in 1..n |-> Pseudo(k + 1, "class")],
       [o \in Range(Outs(l, b)) |-> BaseLatency(l, c, o)], NoMem)
BaseUop(l, b, c, n) ==
  Plan("other", b.other[1],
       IF c = <<>> THEN <<>>
       ELSE c[1].ins \o [k \in 1..n |-> Pseudo(k + 1, "class")] \o FlattenSeq([k \in 1..Len(c) - n - 1 |-> c[n + 1 + k].ins]),
       [o \in Range(Outs(l, b)) |-> BaseLatency(l, c, o)], NoMem)
Others(l, b, c) ==
  LET n == Most(0, Least(Len(c), Len(b.other)) - 1) IN   \* classes that get a uop of their own
  CASE b.other = <<>> -> <<>>
    [] b.other # <<>> /\ SplitsShift(l, b) -> Shift(l, b)
    [] OTHER -> Reverse([k \in 1..n |-> ClassUop(c, k + 1, b.other[k + 1])]) \o <<BaseUop(l, b, c, n)>>
                \o [k \in 1..Len(b.other) - n - 1 |-> Plan("other", b.other[n + 1 + k], Ins(l, b), <<>>, NoMem)]

-----------------------------------------------------------------------------
Padding(n, outs) == [k \in 1..Most(0, n) |-> Plan("none", {}, <<>>, WithLatency(outs, 0), NoMem)]
Plans(l, b, c) ==
  LET uops == Loads(l, b) \o Others(l, b, c) \o Stores(l, b) IN
  IF b.other = <<>> /\ b.load = <<>> /\ b.address = <<>> THEN Padding(Most(1, slots), l.outRegs)
  ELSE uops \o Padding(slots - Len(uops), <<>>)

-----------------------------------------------------------------------------
(* Addresses (emit_lam_uops): the memory operand a uop accesses, as the    *)
(* decoder counts them, and which parts of an address it reads.            *)
MemOperands == SelectSeq([k \in DOMAIN operands |-> k], LAMBDA k : operands[k].type \in {"mem", "agen"})
ReadsGeneric(p) == \E i \in Range(p.ins) : i[2] = "agen"
ReadsPart(p, part) == p.kind \in {"load", "address"} \/ ReadsGeneric(p) \/ \E i \in Range(p.ins) : i[2] = part
AddressOperand(p) ==
  IF MemOperands = <<>> \/ ~(ReadsPart(p, "base") \/ ReadsPart(p, "index")) THEN {}
  ELSE {MemOperands[Least(Most(p.mem, 0), Len(MemOperands) - 1) + 1]}
AddressReadsBase(p) ==
  {<<k, "base">> : k \in {x \in AddressOperand(p) : ReadsPart(p, "base") /\ operands[x].base}}
AddressReads(p) ==
  AddressReadsBase(p) \cup {<<k, "index">> : k \in {x \in AddressOperand(p) : ReadsPart(p, "index") /\ operands[x].index}}

-----------------------------------------------------------------------------
(* The uops of an instruction together do what its record says.            *)

Reads(p, o) == o \in Range(p.ins)
Writes(p, o) == o \in DOMAIN p.lat

\* What a uop hands on to another of its instruction is written exactly once, before it is read, and never in vain: the
\* renamer, which takes the uops in order, would otherwise wait for a value nobody produces.
WellLinked(p) ==
  /\ \A k \in DOMAIN p : \A i \in Range(p[k].ins) : IsPseudo(i) =>
       \E j \in 1..k - 1 : \A x \in DOMAIN p : Writes(p[x], i) <=> x = j
  /\ \A k \in DOMAIN p : \A o \in DOMAIN p[k].lat : IsPseudo(o) => \E j \in k + 1..Len(p) : Reads(p[j], o)

\* When an instruction computes anything, all of its inputs are read and each of its outputs is written by one uop.
NothingLost(l, b, p) ==
  b.other # <<>> =>
    /\ \A i \in Range(l.inRegs \o l.inFlags \o l.agens) : \E k \in DOMAIN p : Reads(p[k], i)
    /\ \A o \in Range(l.outRegs \o l.outFlags) : Cardinality({k \in DOMAIN p : Writes(p[k], o)}) = 1

\* How long after input i each output is written when everything else is ready: the uops in order, each after the latest
\* of what it reads that comes from i.
Arrivals(p, i) ==
  LET after(t, q) == LET from == Range(q.ins) \cap DOMAIN t IN
        IF from = {} THEN t ELSE [o \in DOMAIN q.lat |-> q.lat[o] + Max({t[x] : x \in from})] @@ t
  IN FoldLeft(after, i :> 0, p)
\* The longest latency of every input is the one the record gives, as far as there are uops to tell the inputs apart; an
\* input that got no uop of its own is never later than that.
LongestLatencyExact(l, b, c, p) ==
  LET outs == Outs(l, b) IN
  b.other # <<>> /\ ~SplitsShift(l, b) /\ outs # <<>> =>
    \A i \in Range(Ins(l, b)) :
      LET t == Arrivals(p, i)
          longest == Max({t[o] : o \in Range(outs) \cap DOMAIN t})
          own == \E k \in 1..Least(Len(c), Len(b.other)) : i \in Range(c[k].ins) IN
      IF own THEN longest = Level(l, i, outs) ELSE longest <= Level(l, i, outs)

\* The split shift has exactly the latencies it is recognised by.
ShiftLatencyExact(l, b, p) ==
  b.other # <<>> /\ SplitsShift(l, b) =>
    /\ \A i \in Range(l.inRegs) : LET t == Arrivals(p, i) IN
         (\A o \in Range(l.outRegs) : t[o] = 1) /\ (\A o \in Range(l.outFlags) : t[o] = 2)
    /\ \A i \in Range(l.inFlags) : LET t == Arrivals(p, i) IN
         (\A o \in Range(l.outRegs) : o \notin DOMAIN t) /\ (\A o \in Range(l.outFlags) : t[o] = 2)

\* Store data comes right behind its address, which the renamer and the scheduler rely on.
StoresPaired(p) ==
  \A k \in DOMAIN p :
    /\ p[k].kind = "address" => k < Len(p) /\ p[k + 1].kind = "data"
    /\ p[k].kind = "data" => k > 1 /\ p[k - 1].kind = "address"

\* Where every store has an address and its data there is a uop for each of the record's ports, and in any case one for
\* each slot in which the instruction retires.
PortsKept(p) ==
  LET count(q(_)) == Cardinality({k \in DOMAIN PortList : q(PortList[k])})
      stores == count(IsStoreData) IN
  /\ Len(p) >= slots
  /\ count(IsStoreAddress) <= stores /\ stores <= count(IsStoreAddress) + count(IsLoad) =>
       \A q \in Range(PortList) : Cardinality({k \in DOMAIN p : p[k].ports = q}) = Cardinality({k \in DOMAIN PortList : PortList[k] = q})

\* Loads and store addresses wait for the whole address; a LEA reads each part of its own in some uop.
AddressesRead(l, b, p) ==
  LET all(k) == {<<k, q>> : q \in Parts(operands[k]) \cap {"base", "index"}} IN
  /\ \A k \in DOMAIN p : p[k].kind \in {"load", "address"} => AddressReads(p[k]) = UNION {all(x) : x \in AddressOperand(p[k])}
  /\ b.other # <<>> => \A i \in Range(l.agens) : i[2] # "agen" => \E k \in DOMAIN p : i \in AddressReads(p[k])

\* The uops of an instruction are what its record asks for.
PlansSound ==
  \A l \in {Lists}, b \in {Balanced} : \A c \in {Classes(l, b)} : \A p \in {Plans(l, b, c)} :
    /\ WellLinked(p) /\ NothingLost(l, b, p) /\ StoresPaired(p) /\ PortsKept(p) /\ AddressesRead(l, b, p)
    /\ LongestLatencyExact(l, b, c, p) /\ ShiftLatencyExact(l, b, p)
=============================================================================
