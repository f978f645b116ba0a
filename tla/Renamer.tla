------------------------------ MODULE Renamer ------------------------------
(***************************************************************************)
(* Register renaming (sim/renamer.rs), with the register merges the front  *)
(* end finds (add_reg_merge_uops in sim/frontend.rs).  A step is one call  *)
(* of Renamer::cycle on as many laminated uops as the idq happens to hold. *)
(* Pipeline takes the result, the operands of every uop, as a constant:    *)
(* here they are computed.                                                 *)
(***************************************************************************)
EXTENDS Integers, Sequences, FiniteSets, SequencesExt, Functions, FiniteSetsExt

CONSTANTS
  Setups,           \* what is explored: records of an arch and of programs
  GPRs, SIMDs, Others,   \* canonical registers: general purpose, vector, flags and the rest
  NoSlots, Unlimited     \* for the slots of move elimination

VARIABLES
  arch,             \* MicroArchConfig and the options, fixed in a behaviour
  stream            \* the program and what the front end prepares of it, fixed as well

IssueWidth         == arch.issueWidth
GPRSlots           == arch.gprSlots
SIMDSlots          == arch.simdSlots
PipelineLength     == arch.pipelineLength      \* move_elim_pipeline_length
FastPointerChasing == arch.fastPointerChasing
InitPolicy         == arch.initPolicy          \* "diff", "same" or "stack"
AllAliasesMustBeOverwritten == arch.allAliasesMustBeOverwritten
High8RenamedSeparately      == arch.high8RenamedSeparately

Program == stream.instrs
Lams    == stream.lams      \* laminated uops in program order, as <<instruction, place>>
Merges  == stream.merges    \* the registers merged in front of each instruction

Regs == GPRs \cup SIMDs \cup Others
High8Regs == {"RAX", "RBX", "RCX", "RDX"}

(* Operands of uops: registers (flags among them) and pseudo operands.     *)
R(r) == [kind |-> "reg", name |-> r]
P(n) == [kind |-> "pseudo", name |-> n]
NoAddr == [base |-> "none", index |-> "none", disp |-> 0]

(* An instruction: the uops of each of its laminated uops, its kind as far *)
(* as the abstract values and the chasing of pointers ask for it, the      *)
(* registers it names, and those of its registers that are written or read *)
(* as a high byte or wider than a byte.                                    *)
Wide(S) == {x[1] : x \in {y \in S : y[2] = "wide"}}
High(S) == {x[1] : x \in {y \in S : y[2] = "high"}}
AddressRegs(instr) == UNION {{u.addr.base, u.addr.index} : u \in UNION {Range(l.uops) : l \in Range(instr.lams)}} \ {"none"}

ProgramOK(program, width) == \A i \in DOMAIN program :
  /\ DOMAIN program[i] = {"lams", "op", "imm", "args", "eliminable", "narrow", "serializing", "pointer", "reads", "writes"}
  /\ program[i].lams # <<>>
  /\ \A l \in Range(program[i].lams) : /\ l.fused \in 1..width /\ l.uops # <<>> /\ l.sync \in BOOLEAN
                                       /\ \A u \in Range(l.uops) : DOMAIN u = {"ins", "outs", "ports", "kind", "addr"}
ASSUME ProgramAssumption == \A s \in Setups : \A p \in s.programs : ProgramOK(p, s.arch.issueWidth)

(* A sequence given by a function expression, as a tuple: TLC would        *)
(* evaluate the expression anew each time an element is looked up.         *)
Tuple(f) == f \o <<>>

-----------------------------------------------------------------------------
(* Register merges: found when an instruction comes into the idq, which is *)
(* in program order.  dirty holds the registers that are not clean.        *)

ToMerge(instr, dirty) ==
  IF High8RenamedSeparately THEN (Wide(instr.reads) \cup AddressRegs(instr)) \cap High8Regs \cap dirty ELSE {}
DirtyAfter(dirty, instr) ==
  (dirty \ (Wide(instr.reads) \cup Wide(instr.writes) \cup AddressRegs(instr))) \cup (High(instr.writes) \cap High8Regs)
DirtyBefore(program, i) == FoldLeft(DirtyAfter, {}, SubSeq(program, 1, i - 1))

Prepared(program) ==
  [instrs |-> program,
   lams   |-> FlattenSeq([i \in DOMAIN program |-> [k \in DOMAIN program[i].lams |-> <<i, k>>]]),
   \* sorted by name in the code; the order is immaterial, as each reads and writes its own register
   merges |-> Tuple([i \in DOMAIN program |-> SetToSeq(ToMerge(program[i], DirtyBefore(program, i)))])]

Fused(n) == Program[Lams[n][1]].lams[Lams[n][2]].fused
\* uops are named <<instruction, place of the laminated uop (0: a merge), place in it>>
UopsOf(n) == LET l == Lams[n] IN [k \in DOMAIN Program[l[1]].lams[l[2]].uops |-> <<l[1], l[2], k>>]
MergeUops(i) == [k \in DOMAIN Merges[i] |-> <<i, 0, k>>]

Uop(u) ==
  IF u[2] = 0
  THEN LET r == R(Merges[u[1]][u[3]]) IN [ins |-> <<r>>, outs |-> <<r>>, ports |-> TRUE, kind |-> "alu", addr |-> NoAddr]
  ELSE Program[u[1]].lams[u[2]].uops[u[3]]
IsMerge(u) == u[2] = 0
\* a stack synchronisation is a laminated uop of the instruction behind it, but its first and its
\* last uop as well, neither serializing nor eliminable
IsSync(u) == u[2] # 0 /\ Program[u[1]].lams[u[2]].sync
IsLast(u) == \/ IsMerge(u)
             \/ /\ u[3] = Len(Program[u[1]].lams[u[2]].uops)
                /\ u[2] = Len(Program[u[1]].lams) \/ IsSync(u)
\* is_first_uop_of_instr of the first uop of laminated uop n
IsFirst(n) == Lams[n][2] = 1 \/ IsSync(<<Lams[n][1], Lams[n][2] - 1, 1>>)

-----------------------------------------------------------------------------
VARIABLES
  position,    \* number of laminated uops taken from the idq
  lastMerge,   \* last_reg_merge_issued: the laminated uop that was the head when merges went out
  dict,        \* rename_dict: register -> operand it stands for, and whether by a 32-bit eliminated move
  pending,     \* pending_commits (with pending_commit_eliminated) of the instruction in progress
  pseudo,      \* cur_instr_pseudo_op_dict
  aliases,     \* multi_use_gpr_dict and multi_use_simd_dict: operand -> registers that share it
  moves,       \* n_*_move_elim_in_cycle for the last PipelineLength cycles, the last one first
  pressure,    \* multi_use_*_dict_use_in_cycle, likewise
  values,      \* abs_val_gen: values, cur_instr_values and next_value
  stores,      \* store_buffer_entry_dict, and cur_store_buffer_entry
  renamed      \* what is written to the storage: uop -> operands, entry, eliminated, latency reduced

vars == <<arch, stream, position, lastMerge, dict, pending, pseudo, aliases, moves, pressure, values, stores, renamed>>

Nobody == <<0, 0, 0>>
\* A renamed operand is identified by the uop and the operand it was made for.  The code makes the
\* one for an initial value at the first use of the register; nothing depends on when.
Operand(u, o) == [uop |-> u, of |-> o]
Empty == [x \in {} |-> x]

\* abstract values: <<who made it, offset>>
InitValue(r) == CASE InitPolicy = "diff" -> <<<<"register", r>>, 0>>
                  [] InitPolicy = "stack" /\ r \in {"RSP", "RBP"} -> <<<<"register", r>>, 0>>
                  [] OTHER -> <<<<"shared", 0>>, 0>>
NoValue == <<<<"none", 0>>, 0>>

Init ==
  /\ \E s \in Setups : arch = s.arch /\ \E program \in s.programs : stream = Prepared(program)
  /\ position = 0 /\ lastMerge = 0
  /\ dict = [r \in Regs |-> [op |-> Operand(Nobody, R(r)), elim32 |-> FALSE]]
  /\ pending = Empty /\ pseudo = Empty
  /\ aliases = [gpr |-> Empty, simd |-> Empty]
  /\ moves = [c \in {"gpr", "simd"} |-> [k \in 1..PipelineLength |-> 0]]
  /\ pressure = moves
  /\ values = [reg |-> [r \in Regs |-> InitValue(r)], current |-> Empty, next |-> 0]
  /\ stores = [of |-> Empty, current |-> Nobody]
  /\ renamed = Empty

-----------------------------------------------------------------------------
(* The issue loop: which laminated uops, or merges, leave the idq.         *)

\* the merges are those of the instruction: they are looked up for its synchronisation, and again for
\* the laminated uop behind that
HasMerges(n) == IsFirst(n) /\ Merges[Lams[n][1]] # <<>>
MergesDue(n) == HasMerges(n) /\ lastMerge # n
Serializing(n) == IsFirst(n) /\ Program[Lams[n][1]].serializing /\ ~IsSync(<<Lams[n][1], Lams[n][2], 1>>)
\* merges are only issued first in a cycle
MayTake(n, first, robEmpty) ==
  /\ HasMerges(n) => first /\ lastMerge = n
  /\ Serializing(n) => robEmpty

FusedIn(from, to) == FoldFunctionOnSet(LAMBDA x, y : x + y, 0, [n \in from..to |-> Fused(n)], from..to)
BatchSize(available, robEmpty) ==
  Max({k \in 0..available : /\ \A j \in 1..k : MayTake(position + j, j = 1, robEmpty)
                            /\ FusedIn(position + 1, position + k) <= IssueWidth})

-----------------------------------------------------------------------------
(* Move elimination: decided for the whole batch before it is renamed.     *)

Class(r) == CASE r \in GPRs -> "gpr" [] r \in SIMDs -> "simd" [] OTHER -> "none"
Slots(c) == IF c = "gpr" THEN GPRSlots ELSE SIMDSlots
SumOf(s, n) == FoldFunctionOnSet(LAMBDA x, y : x + y, 0, s, 1..n)

\* move_elim_slots_available > 0
EliminationPossible(c, used) ==
  CASE Slots(c) = NoSlots -> FALSE
    [] Slots(c) = Unlimited -> TRUE
    [] OTHER -> Slots(c) > used + SumOf(moves[c], PipelineLength - 1) + pressure[c][PipelineLength]

Candidate(u) == Program[u[1]].eliminable /\ ~IsMerge(u) /\ ~IsSync(u) /\ Uop(u).ins # <<>> /\ Uop(u).ins[1].kind = "reg"
MoveClass(u) == Class(Uop(u).ins[1].name)

\* the eliminated uops of a batch, by class
Eliminated(batch) ==
  FoldSeq(LAMBDA u, e : LET c == MoveClass(u) IN
            IF Candidate(u) /\ c # "none" /\ EliminationPossible(c, Cardinality(e[c]))
            THEN [e EXCEPT ![c] = @ \cup {u}] ELSE e,
          [gpr |-> {}, simd |-> {}], batch)

OnlyShared(f) == Restrict(f, {o \in DOMAIN f : Cardinality(f[o]) > 1})
Pruned(e) ==
  [gpr |-> IF e.gpr = {} /\ ~AllAliasesMustBeOverwritten THEN OnlyShared(aliases.gpr) ELSE aliases.gpr,
   simd |-> IF e.simd = {} THEN OnlyShared(aliases.simd) ELSE aliases.simd]

-----------------------------------------------------------------------------
(* Renaming.  s is the state in the middle of a batch: the fields dict,    *)
(* pending, pseudo, aliases, values, stores and renamed.                   *)

With(f, k, v) == (k :> v) @@ f
Merged(f, g) == g @@ f

\* Mutant: the writes of the same instruction are seen.
InputOfSeeingPending(s, o) ==
  CASE o \in DOMAIN s.pseudo -> s.pseudo[o]
    [] o.kind = "reg" -> IF o.name \in DOMAIN s.pending THEN s.pending[o.name].op ELSE s.dict[o.name].op
    [] OTHER -> Operand(Nobody, o)
InputOf(s, o) ==
  CASE o \in DOMAIN s.pseudo -> s.pseudo[o]
    [] o \notin DOMAIN s.pseudo /\ o.kind = "reg" -> s.dict[o.name].op
    [] OTHER -> Operand(Nobody, o)

\* Mutant: SUB leaves the value as it is.
ComputeValueIgnoringSub(s, i) ==
  LET v == s.values.reg[Program[i].args[1]] IN
  IF Program[i].args # <<>> /\ Program[i].op # "other"
  THEN <<IF Program[i].op = "add" THEN <<v[1], v[2] + Program[i].imm>> ELSE v, s.values.next>>
  ELSE <<<<<<"new", s.values.next>>, 0>>, s.values.next + 1>>
\* compute_abstract_value for instruction i: <<value, next_value>>
ComputeValue(s, i) ==
  LET v == s.values.reg[Program[i].args[1]] IN
  IF Program[i].args # <<>> /\ Program[i].op # "other"
  THEN <<CASE Program[i].op = "mov" -> v
           [] Program[i].op = "add" -> <<v[1], v[2] + Program[i].imm>>
           [] OTHER -> <<v[1], v[2] - Program[i].imm>>, s.values.next>>
  ELSE <<<<<<"new", s.values.next>>, 0>>, s.values.next + 1>>

\* the operand output k of u stands for
OutputOf(s, u, k, eliminated) ==
  LET uop == Uop(u)
      ins == Tuple([j \in DOMAIN uop.ins |-> InputOf(s, uop.ins[j])]) IN
  CASE eliminated -> s.dict[uop.ins[1].name].op
    [] ~eliminated /\ ~uop.ports /\ ins # <<>> -> IF k \in DOMAIN ins THEN ins[k] ELSE ins[1]
    [] OTHER -> Operand(u, uop.outs[k])

\* renamed_op_for_eliminated_move: the registers of a move share an operand from now on
Shared(s, u, o) ==
  LET uop == Uop(u)  c == IF MoveClass(u) = "gpr" THEN "gpr" ELSE "simd"  op == s.dict[uop.ins[1].name].op
      old == IF op \in DOMAIN s.aliases[c] THEN s.aliases[c][op] ELSE {} IN
  [s.aliases EXCEPT ![c] = With(@, op, old \cup {uop.ins[1].name, o.name})]

Elim32(u, eliminated) == eliminated /\ Program[u[1]].narrow

WriteOutput(s, u, k, eliminated) ==
  LET o == Uop(u).outs[k]  op == OutputOf(s, u, k, eliminated)  v == ComputeValue(s, u[1])
      t == IF eliminated /\ o.kind = "reg" THEN [s EXCEPT !.aliases = Shared(s, u, o)] ELSE s IN
  IF o.kind = "pseudo" THEN [t EXCEPT !.pseudo = With(@, o, op)]
  ELSE [t EXCEPT !.pending = With(@, o.name, [op |-> op, elim32 |-> Elim32(u, eliminated), eliminated |-> eliminated]),
                 !.values = [@ EXCEPT !.current = With(@, o.name, v[1]), !.next = v[2]]]

\* lat_reduced_due_to_fast_ptr_chasing
Producer(s, r) == s.dict[r].op.uop
LatencyReduced(s, u) ==
  LET a == Uop(u).addr IN
  /\ Uop(u).kind = "load" /\ FastPointerChasing
  /\ a.disp \in 0..2047 /\ a.base # "none"
  /\ ~s.dict[a.base].elim32
  /\ Producer(s, a.base) # Nobody /\ Program[Producer(s, a.base)[1]].pointer
  /\ a.index # "none" => Producer(s, a.index) # Nobody /\ ~Uop(Producer(s, a.index)).ports

ValueOf(s, r) == IF r = "none" THEN NoValue ELSE s.values.reg[r]
Key(s, u) == <<ValueOf(s, Uop(u).addr.base), ValueOf(s, Uop(u).addr.index), Uop(u).addr.disp>>

\* update_store_buffer_for_uop; an entry is named after its store-address uop
StoresAfter(s, u) ==
  IF Uop(u).kind = "sta" THEN [of |-> With(s.stores.of, Key(s, u), u), current |-> u] ELSE s.stores
EntryOf(s, u) ==
  CASE Uop(u).kind = "sta" -> u
    [] Uop(u).kind = "std" -> s.stores.current
    [] Uop(u).kind = "load" /\ Key(s, u) \in DOMAIN s.stores.of -> s.stores.of[Key(s, u)]
    [] OTHER -> Nobody

StaysMapped(old, new) == new.eliminated /\ old.op = new.op

\* Mutant: alias lists are never emptied.
OverwrittenNever(s) == s.aliases
\* remove_overwritten_multi_use_aliases
Overwritten(s) ==
  LET gone(c, r) == Class(r) = c /\ ~StaysMapped(s.dict[r], s.pending[r])
      kept(c) == [op \in DOMAIN s.aliases[c] |->
                    s.aliases[c][op] \ {r \in DOMAIN s.pending : gone(c, r) /\ s.dict[r].op = op}] IN
  [gpr |-> kept("gpr"), simd |-> kept("simd")]

Commit(s) ==
  [s EXCEPT !.aliases = Overwritten(s),
            !.dict = Merged(@, [r \in DOMAIN s.pending |-> [op |-> s.pending[r].op, elim32 |-> s.pending[r].elim32]]),
            !.pending = Empty, !.pseudo = Empty,
            !.values = [@ EXCEPT !.reg = Merged(@, s.values.current), !.current = Empty]]

\* the body of the loop of rename_uops for one uop
RenameUop(s, u, eliminated) ==
  LET uop == Uop(u)
      ins == Tuple([j \in DOMAIN uop.ins |-> InputOf(s, uop.ins[j])])
      reduced == LatencyReduced(s, u)
      entry == EntryOf(s, u)
      written == FoldLeft(LAMBDA t, k : WriteOutput(t, u, k, eliminated), [s EXCEPT !.stores = StoresAfter(s, u)],
                          [k \in DOMAIN uop.outs |-> k])
      \* a uop that is renamed again gets further operands
      before == IF u \in DOMAIN s.renamed THEN s.renamed[u].ins ELSE <<>>
      done == [written EXCEPT !.renamed = With(@, u, [ins |-> before \o ins, entry |-> entry, reduced |-> reduced,
                                                      eliminated |-> eliminated])] IN
  IF IsLast(u) THEN Commit(done) ELSE done

Now == [dict |-> dict, pending |-> pending, pseudo |-> pseudo, aliases |-> aliases, values |-> values,
        stores |-> stores, renamed |-> renamed]
\* group_finished: a last uop of the youngest instruction is in the batch, its synchronisation perhaps
Finished(batch) == \E u \in Range(batch) : u[1] = Last(batch)[1] /\ IsLast(u)
RenameUops(s, batch, e) ==
  [FoldLeft(LAMBDA t, u : RenameUop(t, u, u \in e.gpr \cup e.simd), s, batch)
     EXCEPT !.pseudo = IF Finished(batch) THEN Empty ELSE @]

-----------------------------------------------------------------------------
NonEmpty(f) == Restrict(f, {o \in DOMAIN f : f[o] # {}})
Shifted(h, n) == [k \in 1..PipelineLength |-> IF k = 1 THEN n ELSE h[k - 1]]

\* apply_move_elimination, rename_uops and finish_move_elim_cycle_bookkeeping
Issue(batch) ==
  LET e == Eliminated(batch)
      s == RenameUops([Now EXCEPT !.aliases = Pruned(e)], batch, e)
      left == [gpr |-> NonEmpty(s.aliases.gpr), simd |-> NonEmpty(s.aliases.simd)] IN
  /\ dict' = s.dict /\ pending' = s.pending /\ pseudo' = s.pseudo
  /\ values' = s.values /\ stores' = s.stores /\ renamed' = s.renamed
  /\ aliases' = left
  /\ moves' = [c \in {"gpr", "simd"} |-> Shifted(moves[c], Cardinality(e[c]))]
  /\ pressure' = [c \in {"gpr", "simd"} |-> Shifted(pressure[c], Cardinality(DOMAIN left[c]))]

IssueMerges(available) ==
  /\ available > 0 /\ MergesDue(position + 1)
  /\ Issue(MergeUops(Lams[position + 1][1]))
  /\ lastMerge' = position + 1
  /\ UNCHANGED position

IssueLams(available, robEmpty) ==
  /\ available > 0 => ~MergesDue(position + 1)
  /\ LET n == BatchSize(available, robEmpty) IN
     /\ Issue(FlattenSeq([j \in 1..n |-> UopsOf(position + j)]))
     /\ position' = position + n
  /\ UNCHANGED lastMerge

\* the idq holds any number of the laminated uops that follow
Cycle ==
  /\ UNCHANGED <<arch, stream>>
  /\ \E available \in 0..Min({Len(Lams) - position, IssueWidth}) : \E robEmpty \in BOOLEAN :
       \/ IssueMerges(available)
       \/ IssueLams(available, robEmpty)

Spec == Init /\ [][Cycle]_vars
=============================================================================
