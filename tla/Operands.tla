------------------------------ MODULE Operands ------------------------------
(***************************************************************************)
(* From the operands of a record to registers.  The decoder                *)
(* (rust/uica-xed) hands over lists of register names; a record names its  *)
(* operands REG0, REG1, ...  Two places put them together:                 *)
(* mapped_record_operands (engine.rs), for the latency graph, and          *)
(* emit_lam_uops (uop_expand.rs), for the uops.                            *)
(*                                                                         *)
(* An instruction grows operand by operand, the explicit ones first, as    *)
(* XED lists them.  A name is a register of some width, <<register,        *)
(* width>>; only the register is left of it in canonical form.             *)
(***************************************************************************)
EXTENDS Naturals, Sequences, FiniteSets, SequencesExt, Functions

CONSTANTS Names, AddressNames, MaxOperands
NamesOK == \A n \in Names \cup AddressNames : Len(n) = 2

(* What is done to an operand: "r" read, "w" written, "rw" both.  "cw" is  *)
(* written under a condition: XED counts it as read and the record does    *)
(* not.  "lw" is only written, but latencies of the record start at it, as *)
(* they do at "cw".                                                        *)
Access == {"r", "w", "rw", "cw", "lw"}

VARIABLES
  operands,   \* register operands, in order
  address     \* base and index of the memory operand: a sequence of up to two names
vars == <<operands, address>>

Init == NamesOK /\ operands = <<>> /\ address \in {<<>>} \cup {<<b>> : b \in AddressNames} \cup {<<b, i>> : b, i \in AddressNames}
\* an instruction has no register twice among its implicit operands
AddOperand(n, acc, explicit) ==
  /\ \A k \in DOMAIN operands : IF explicit THEN operands[k].explicit ELSE operands[k].explicit \/ operands[k].name[1] # n[1]
  /\ operands' = Append(operands, [name |-> n, access |-> acc, explicit |-> explicit])
  /\ UNCHANGED address
Next == Len(operands) < MaxOperands /\ \E n \in Names, acc \in Access, explicit \in BOOLEAN : AddOperand(n, acc, explicit)
Spec == Init /\ [][Next]_vars

-----------------------------------------------------------------------------
(* The decoder's lists.                                                    *)
Canonical(n) == n[1]
PushUnique(seq, n) == IF Contains(seq, n) THEN seq ELSE Append(seq, n)
NamesWith(accesses) ==
  FoldLeft(LAMBDA acc, op : IF op.access \in accesses THEN PushUnique(acc, op.name) ELSE acc, <<>>, operands)
InputNames == FoldLeft(PushUnique, NamesWith({"r", "rw", "cw"}), address)
OutputNames == NamesWith({"w", "rw", "cw", "lw"})
InputRegs == [k \in DOMAIN InputNames |-> Canonical(InputNames[k])]
OutputRegs == [k \in DOMAIN OutputNames |-> Canonical(OutputNames[k])]

-----------------------------------------------------------------------------
(* The record's view of the operands.                                      *)
Reads(op) == op.access \in {"r", "rw"}
Writes(op) == op.access # "r"
IsInput(op) == Reads(op) \/ op.access \in {"cw", "lw"}

\* the element of a sequence at a place that may be beyond its end, as a set of at most one
At(seq, k) == {seq[j] : j \in {k} \cap DOMAIN seq}
ExplicitReg(op) == IF op.explicit THEN {Canonical(op.name)} ELSE {}
OrElse(S, T) == IF S # {} THEN S ELSE T

\* Both walk over the operands with a place in each of the two lists.  ins and outs: to what each operand was mapped,
\* a set of at most one register.
Start(inputs) == [inputs |-> inputs, outputs |-> OutputRegs, read |-> 1, write |-> 1, ins |-> <<>>, outs |-> <<>>]
One(p) == IF p THEN 1 ELSE 0
Step(w, op, in, skip) ==
  [w EXCEPT !.ins = Append(@, IF IsInput(op) THEN in ELSE {}), !.read = @ + One(IsInput(op) /\ skip),
            !.outs = Append(@, IF Writes(op) THEN OrElse(ExplicitReg(op), At(w.outputs, w.write)) ELSE {}),
            !.write = @ + One(Writes(op))]
SameHere(w) == At(w.inputs, w.read) # {} /\ At(w.inputs, w.read) = At(w.outputs, w.write)

\* mapped_record_operands
EngineStep(w, op) ==
  Step(w, op, OrElse(ExplicitReg(op), IF Reads(op) THEN At(w.inputs, w.read) ELSE At(w.outputs, w.write)), Reads(op) \/ SameHere(w))
EngineMap == FoldLeft(EngineStep, Start(InputRegs), operands)

\* emit_lam_uops: the registers of the address are taken out of the inputs first, one occurrence of each
StrippedInputs ==
  FoldLeft(LAMBDA seq, n : IF Contains(seq, Canonical(n)) THEN RemoveFirst(seq, Canonical(n)) ELSE seq, InputRegs, address)
\* Mutant: every operand is found by its position among the inputs.
ExpandStepByPosition(w, op) == Step(w, op, At(w.inputs, w.read), TRUE)
ExpandStep(w, op) ==
  IF op.explicit THEN Step(w, op, ExplicitReg(op), Reads(op) \/ At(w.inputs, w.read) = ExplicitReg(op))
  ELSE Step(w, op, IF Reads(op) THEN At(w.inputs, w.read) ELSE At(w.outputs, w.write), Reads(op) \/ SameHere(w))
ExpandMap == FoldLeft(ExpandStep, Start(StrippedInputs), operands)

\* What operand k of a uop with the inputs (outputs) listed becomes, mapped as x: its place in the list is the
\* fallback; what is still unresolved becomes the flags or keeps its placeholder.
Unresolved == "RFLAGS"
Place(k, list) == CHOOSE j \in DOMAIN list : list[j] = k
ResolveFrom(mapped, k, list, decoded) ==
  LET found == OrElse(mapped, At(decoded, Place(k, list))) IN
  IF found = {} THEN Unresolved ELSE CHOOSE r \in found : TRUE
ResolveInput(x, k, list) == ResolveFrom(x.ins[k], k, list, x.inputs)
ResolveOutput(x, k, list) == ResolveFrom(x.outs[k], k, list, x.outputs)

-----------------------------------------------------------------------------
Inputs == {k \in DOMAIN operands : IsInput(operands[k])}
Outputs == {k \in DOMAIN operands : Writes(operands[k])}
Register(k) == Canonical(operands[k].name)
\* the lists of inputs or outputs a uop may have: all of them in order, or one
Lists(K) == {<<k>> : k \in K} \cup {SetToSortSeq(K, <)}
InList(k, K) == {list \in Lists(K) : Contains(list, k)}

\* No two operands share a register, nor does one with the address.
RegistersApart ==
  /\ \A j, k \in DOMAIN operands : j # k => Register(j) # Register(k)
  /\ \A k \in DOMAIN operands, n \in Range(address) : Register(k) # Canonical(n)

\* When no register is named twice both places find the register of every operand, explicit or not, and in every list.
BothExact ==
  RegistersApart =>
    LET e == EngineMap  x == ExpandMap IN
    /\ \A k \in Inputs : e.ins[k] = {Register(k)} /\ \A list \in InList(k, Inputs) : ResolveInput(x, k, list) = Register(k)
    /\ \A k \in Outputs : e.outs[k] = {Register(k)} /\ \A list \in InList(k, Outputs) : ResolveOutput(x, k, list) = Register(k)

\* An explicit operand is found also when its register is named again, by the address or by another operand.
ExplicitExact ==
  LET e == EngineMap  x == ExpandMap IN
  \A k \in DOMAIN operands : operands[k].explicit =>
    /\ k \in Inputs => e.ins[k] = {Register(k)} /\ x.ins[k] = {Register(k)}
    /\ k \in Outputs => e.outs[k] = {Register(k)} /\ x.outs[k] = {Register(k)}

\* Where the record alone decides, both ways of mapping its operands give the registers the decoder found.
OperandsExact == BothExact /\ ExplicitExact

\* "XML REGn names must resolve through full instruction operand order, not through the local uop input/output list
\* (e.g. DIV REG2 remains EDX even when alone)", uop_expand.rs:1402
ResolvesThroughOrder ==
  LET x == ExpandMap IN \A k \in Inputs : \A list \in InList(k, Inputs) : ResolveInput(x, k, list) = Register(k)
=============================================================================
