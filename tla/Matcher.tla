------------------------------- MODULE Matcher --------------------------------
(***************************************************************************)
(* The choice of an instruction's data record (matcher.rs and              *)
(* InstructionDataSource::match_record): the index offers the records of   *)
(* the instruction's mnemonic, hard filters leave those that may describe  *)
(* it, and a chain of preferences, each dropped when no record meets it,   *)
(* leaves the one that is used.  Each filter is a step.                    *)
(*                                                                         *)
(* An iform is a triple <<mnemonic, operands, disambiguator>>.  A record's *)
(* string is abstracted to what the filters look for in it: its mnemonic,  *)
(* the register sizes, LEA's address form, a bare mask operand K, and the  *)
(* 8-bit registers of its operands in order.                               *)
(***************************************************************************)
EXTENDS Integers, Sequences, SequencesExt

CONSTANTS
  Tables,        \* sequences of records [iform, name, sizes, agen, mask, high8s, attrs, immZero]
  Instructions,  \* [name, iform, signature, size, agen, mask, high8s, usesHigh8, attrs, imm]
  Unknown,       \* an option, signature or iform that is not given
  JE, JZ, LEA, MEM, AGEN, RM

VARIABLES table, instr, left, stage
vars == <<table, instr, left, stage>>

Stages == <<"lookup", "names", "attributes", "size", "agen", "mask", "high8", "immediate", "done">>

\* the alias stands for all of canonical_mnemonic_alias
Canonical(name) == IF name = JE THEN JZ ELSE name
\* The index holds a record under its string's mnemonic and under its iform's.
Offered(r, name) == Canonical(name) \in {Canonical(r.name), Canonical(r.iform[1])}
\* LEA's memory operand is called AGEN in the iforms.
OfSignature(r, name, signature) ==
  r.iform[1] = name /\ r.iform[2] = IF name = LEA /\ signature = MEM THEN AGEN ELSE signature
\* With neither iform nor signature, the strings' mnemonics go before the iforms'.
Named(rs) ==
  IF instr.iform # Unknown THEN SelectSeq(rs, LAMBDA r : r.iform = instr.iform)
  ELSE IF instr.signature # Unknown
  THEN SelectSeq(rs, LAMBDA r : \E name \in {instr.name, Canonical(instr.name)} : OfSignature(r, name, instr.signature))
  ELSE rs
\* Mutant: an attribute that was not decoded excludes the record.
AttributesMatchAll(r) == \A k \in DOMAIN r.attrs : k \in DOMAIN instr.attrs /\ instr.attrs[k] \in r.attrs[k]
\* An attribute that was not decoded constrains nothing; the one of the rm field lists values.
AttributesMatch(r) ==
  \A k \in DOMAIN r.attrs \cap DOMAIN instr.attrs : IF k = RM THEN instr.attrs[k] \in r.attrs[k] ELSE {instr.attrs[k]} = r.attrs[k]
Attributed(rs) ==
  LET matching == SelectSeq(rs, AttributesMatch)
      byString == SelectSeq(matching, LAMBDA r : Canonical(r.name) = Canonical(instr.name)) IN
  IF instr.iform = Unknown /\ instr.signature = Unknown /\ byString # <<>> THEN byString ELSE matching

\* Keeps the records that meet a wish, or all if none does.
Prefer(rs, Wish(_)) == IF SelectSeq(rs, Wish) = <<>> THEN rs ELSE SelectSeq(rs, Wish)

OfSize(r) == instr.size \in r.sizes
OfAgen(r) == r.agen = instr.agen
OfMask(r) == r.mask = instr.mask
OfHigh8(r) ==
  IF instr.high8s = <<>> THEN IF instr.usesHigh8 THEN Contains(r.high8s, TRUE) ELSE Contains(r.high8s, FALSE) /\ ~Contains(r.high8s, TRUE)
  ELSE r.high8s = instr.high8s
OfImmediate(r) == r.immZero = (instr.imm = 0)

BySize(rs) == IF instr.size = Unknown THEN rs ELSE Prefer(rs, OfSize)
ByAgen(rs) == IF instr.agen = Unknown THEN rs ELSE Prefer(rs, OfAgen)
ByMask(rs) == Prefer(rs, OfMask)
\* only if some record names 8-bit registers
ByHigh8(rs) == IF \E i \in DOMAIN rs : rs[i].high8s # <<>> THEN Prefer(rs, OfHigh8) ELSE rs
First(rs) == IF rs = <<>> THEN <<>> ELSE <<Head(rs)>>
ByImmediate(rs) == IF instr.imm = Unknown THEN rs ELSE Prefer(rs, OfImmediate)

-----------------------------------------------------------------------------
Init ==
  /\ table \in Tables /\ instr \in Instructions
  /\ left = table /\ stage = 1
Advance(rs) == left' = rs /\ stage' = stage + 1 /\ UNCHANGED <<table, instr>>

Lookup == Stages[stage] = "lookup" /\ Advance(SelectSeq(left, LAMBDA r : Offered(r, instr.name)))
FilterNames == Stages[stage] = "names" /\ Advance(Named(left))
FilterAttributes == Stages[stage] = "attributes" /\ Advance(Attributed(left))
PreferSize == Stages[stage] = "size" /\ Advance(BySize(left))
PreferAgen == Stages[stage] = "agen" /\ Advance(ByAgen(left))
PreferMask == Stages[stage] = "mask" /\ Advance(ByMask(left))
PreferHigh8 == Stages[stage] = "high8" /\ Advance(ByHigh8(left))
\* the first one is used
PreferImmediate == Stages[stage] = "immediate" /\ Advance(First(ByImmediate(left)))
Next ==
  \/ Lookup \/ FilterNames \/ FilterAttributes
  \/ PreferSize \/ PreferAgen \/ PreferMask \/ PreferHigh8 \/ PreferImmediate
Spec == Init /\ [][Next]_vars

-----------------------------------------------------------------------------
\* a record that may describe the instruction: filed under its mnemonic, of its iform or signature, and of no other value
\* of an attribute that was decoded
Fits(r) ==
  /\ Offered(r, instr.name)
  /\ instr.iform # Unknown => r.iform = instr.iform
  /\ instr.iform = Unknown /\ instr.signature # Unknown =>
       \E name \in {instr.name, Canonical(instr.name)} : OfSignature(r, name, instr.signature)
  /\ ~\E k \in DOMAIN r.attrs : k \in DOMAIN instr.attrs /\ instr.attrs[k] \notin r.attrs[k]

\* the wishes a record meets, the more important ones with more weight
Weight(wish, n) == IF wish THEN 2^n ELSE 0
Score(r) ==
  Weight(instr.iform = Unknown /\ instr.signature = Unknown /\ Canonical(r.name) = Canonical(instr.name), 5)
  + Weight(instr.size \in r.sizes, 4) + Weight(r.agen = instr.agen, 3) + Weight(r.mask = instr.mask, 2)
  + Weight(IF instr.high8s # <<>> THEN r.high8s = instr.high8s
           ELSE r.high8s # <<>> /\ instr.usesHigh8 = Contains(r.high8s, TRUE), 1)
  + Weight(instr.imm # Unknown /\ r.immZero = (instr.imm = 0), 0)

\* The record that is used is the first of the best among those that fit, and an instruction stays unknown only if none
\* fits: no preference empties the list, and a less important one never overrules another.
BestFits ==
  Stages[stage] = "done" =>
    IF left = <<>> THEN ~\E i \in DOMAIN table : Fits(table[i])
    ELSE \E i \in DOMAIN table :
      /\ left = <<table[i]>> /\ Fits(table[i])
      /\ \A j \in DOMAIN table : Fits(table[j]) =>
           Score(table[j]) < Score(table[i]) \/ (Score(table[j]) = Score(table[i]) /\ i <= j)
=============================================================================
