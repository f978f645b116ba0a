------------------------- MODULE RenamerProperties -------------------------
(***************************************************************************)
(* What renaming promises, said of the stream of uops as a whole: an       *)
(* operand is traced back through older uops, where Renamer keeps a map of *)
(* the registers and moves it forward.                                     *)
(***************************************************************************)
EXTENDS Renamer

(* All uops in program order, merges in front of their instruction.        *)
Stream == FlattenSeq([n \in DOMAIN Lams |->
            (IF Lams[n][2] = 1 THEN MergeUops(Lams[n][1]) ELSE <<>>) \o UopsOf(n)])
(* Uops that see the registers as they were before all of them.            *)
Together(u, w) == u[1] = w[1] /\ (IsMerge(u) \/ IsMerge(w) => u = w) /\ (IsSync(u) \/ IsSync(w) => u[2] = w[2])
Outputs(u) == Range(Uop(u).outs)

(* Uops whose result the one at place n may read as o: of older            *)
(* instructions if o is a register, of its own if it is a pseudo operand.  *)
Writers(uops, n, o) ==
  {m \in 1..n - 1 : o \in Outputs(uops[m]) /\ (Together(uops[n], uops[m]) <=> o.kind = "pseudo")}
YoungestOf(S) == IF S = {} THEN 0 ELSE Max(S)
OutputPlace(w, o) == CHOOSE k \in DOMAIN Uop(w).outs : Uop(w).outs[k] = o

(* Addresses as the program means them: a register holds what the youngest *)
(* older instruction that names it as an output puts there.  Values[i] are *)
(* the registers' values in front of instruction i.                        *)
WritesOf(i) ==
  {r \in Regs : \E k \in DOMAIN Program[i].lams : ~Program[i].lams[k].sync
                  /\ \E u \in Range(Program[i].lams[k].uops) : R(r) \in Range(u.outs)}
Derived(before, i) ==
  LET arg == before[Program[i].args[1]]  op == IF Program[i].args = <<>> THEN "other" ELSE Program[i].op IN
  [r \in WritesOf(i) |->
    CASE op = "mov" -> arg
      [] op = "add" -> <<arg[1], arg[2] + Program[i].imm>>
      [] op = "sub" -> <<arg[1], arg[2] - Program[i].imm>>
      [] OTHER -> <<<<"result of", <<i, r>>>>, 0>>]
Values ==
  FoldLeft(LAMBDA vs, i : Append(vs, Merged(Last(vs), Derived(Last(vs), i))),
           <<[r \in Regs |-> InitValue(r)]>>, [i \in DOMAIN Program |-> i])
Addresses(uops) ==
  LET before == Values IN
  [n \in DOMAIN uops |->
    LET a == Uop(uops[n]).addr  v(r) == IF r = "none" THEN NoValue ELSE before[uops[n][1]][r] IN
    <<v(a.base), v(a.index), a.disp>>]

(* What the program asks for, in terms of places in the stream of uops; 0  *)
(* stands for none: the uop each input is written by, and the store a load *)
(* has to be linked with.                                                  *)
Meaning ==
  LET uops == Stream  address == Tuple(Addresses(uops))
      storesTo(n) == {m \in 1..n - 1 : Uop(uops[m]).kind = "sta" /\ address[m] = address[n]} IN
  [uops   |-> uops,
   writer |-> Tuple([n \in DOMAIN uops |->
                Tuple([j \in DOMAIN Uop(uops[n]).ins |-> YoungestOf(Writers(uops, n, Uop(uops[n]).ins[j]))])]),
   store  |-> Tuple([n \in DOMAIN uops |-> IF Uop(uops[n]).kind = "load" THEN YoungestOf(storesTo(n)) ELSE 0])]

VARIABLE meaning   \* fixed in a behaviour, like the stream it is found from

-----------------------------------------------------------------------------
Renamed(n) == meaning.uops[n] \in DOMAIN renamed
WasEliminated(n) == Renamed(n) /\ renamed[meaning.uops[n]].eliminated
Places == {n \in DOMAIN meaning.uops : Renamed(n)}

(* Origins[n][j] is the operand input j of the uop at place n comes from,  *)
(* given which moves were eliminated; found in program order.              *)
OriginsOf(earlier, n) ==
  [j \in DOMAIN meaning.writer[n] |->
    LET o == Uop(meaning.uops[n]).ins[j]  p == meaning.writer[n][j]  w == meaning.uops[p]  k == OutputPlace(w, o) IN
    CASE p = 0 -> Operand(Nobody, o)
      [] p # 0 /\ (WasEliminated(p) \/ (~Uop(w).ports /\ meaning.writer[p] # <<>>)) ->
           earlier[p][IF ~WasEliminated(p) /\ k \in DOMAIN meaning.writer[p] THEN k ELSE 1]
      [] OTHER -> Operand(w, o)]
Origins ==
  FoldLeft(LAMBDA earlier, n : Append(earlier, Tuple(OriginsOf(earlier, n))), <<>>, [n \in DOMAIN meaning.uops |-> n])

(* A renamed uop waits for exactly the uops its operands come from: the    *)
(* youngest older writers, seen through eliminated moves and uops without  *)
(* a port, whatever the grouping into issue cycles.                        *)
ProducersExact == LET origins == Origins IN \A n \in Places : renamed[meaning.uops[n]].ins = origins[n]

(* The registers an eliminated move left sharing an operand: while two or  *)
(* more are listed, all of them stand for it.  A register that was         *)
(* overwritten no longer holds a slot.                                     *)
AliasesExact == \A c \in DOMAIN aliases : \A o \in DOMAIN aliases[c] :
  \A r \in aliases[c][o] : dict[r].op = o \/ r \in DOMAIN pending

(* Conversely an operand shared through an eliminated move is listed for   *)
(* every register it was moved to, or it would be freed too early: no slot *)
(* is given back while two registers need it.                              *)
SharedAreListed ==
  pending = Empty =>
    \A r, q \in GPRs : r # q /\ dict[r].op = dict[q].op
                       /\ (\E u \in DOMAIN renamed : renamed[u].eliminated /\ renamed[u].ins[1] = dict[r].op)
      => dict[r].op \in DOMAIN aliases.gpr /\ {r, q} \subseteq aliases.gpr[dict[r].op]

(* In any PipelineLength cycles in a row no more moves are eliminated than *)
(* there are slots.                                                        *)
ElimWithinSlots == \A c \in DOMAIN moves : Slots(c) \in Nat /\ Slots(c) > 0 => SumOf(moves[c], PipelineLength) <= Slots(c)

(* The slots of move elimination are held exactly as long as registers     *)
(* share an operand, and never exceeded.                                   *)
SlotsExact == AliasesExact /\ SharedAreListed /\ ElimWithinSlots

(* A load is linked with the youngest older store to the same address, and *)
(* with no other, however the address was computed in between.             *)
ForwardedFromYoungest ==
  \A n \in Places : Uop(meaning.uops[n]).kind = "load" =>
    renamed[meaning.uops[n]].entry = (IF meaning.store[n] = 0 THEN Nobody ELSE meaning.uops[meaning.store[n]])

(* The latency of a load is only reduced if its base register, its first   *)
(* input, comes straight from a pointer load, through full width moves at  *)
(* most.                                                                   *)
FastOnlyBehindPointerLoad ==
  LET origins == Origins IN
  \A n \in {m \in Places : renamed[meaning.uops[m]].reduced} :
    LET p == meaning.writer[n][1] IN
    /\ p # 0 /\ Program[origins[n][1].uop[1]].pointer
    /\ WasEliminated(p) => ~Program[meaning.uops[p][1]].narrow

(* Loads get their data from the right place and in the right time.        *)
StoresForwarded == ForwardedFromYoungest /\ FastOnlyBehindPointerLoad

(* Merge uops that have been issued and renamed are not issued again: the  *)
(* head laminated uop is remembered "to avoid reinjecting next cycle"      *)
(* (renamer.rs:206).                                                       *)
MergesNotReinjected == [][\A u \in DOMAIN renamed : IsMerge(u) => renamed'[u] = renamed[u]]_vars

(* What an older uop of the same instruction left in a pseudo operand is   *)
(* found by the uops that read it, in later cycles as well: it "persists   *)
(* pseudo operands across rename cycles" (renamer.rs:149).                 *)
PseudoOperandsPersist ==
  \A n \in Places : \A j \in DOMAIN meaning.writer[n] :
    Uop(meaning.uops[n]).ins[j].kind = "pseudo" /\ meaning.writer[n][j] # 0
      => renamed[meaning.uops[n]].ins[j].uop # Nobody
=============================================================================
