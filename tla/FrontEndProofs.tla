--------------------------- MODULE FrontEndProofs ---------------------------
(***************************************************************************)
(* The front end on every program and for all widths.                      *)
(***************************************************************************)
EXTENDS FrontEndProperties, Inductions

(* A concatenation grows by one sequence after the other.                  *)
Grows(a, n, S, seqs) ==
  /\ a \in [0..n -> Seq(S)] /\ a[0] = <<>>
  /\ \A k \in 1..n : a[k] = a[k - 1] \o seqs[k]

(* What FlattenSeq chooses.                                                *)
Flattens(f, n, seqs) == f = [i \in 1..n |-> IF i = 1 THEN seqs[i] ELSE f[i - 1] \o seqs[i]]

LEMMA GrowsFlattens ==
  ASSUME NEW S, NEW n \in Nat, NEW seqs \in [1..n -> Seq(S)], NEW b, Grows(b, n, S, seqs)
  PROVE  Flattens([i \in 1..n |-> b[i]], n, seqs)
<1> DEFINE F == [i \in 1..n |-> b[i]]
           G == [i \in 1..n |-> IF i = 1 THEN seqs[i] ELSE F[i - 1] \o seqs[i]]
<1>1. b \in [0..n -> Seq(S)] /\ b[0] = <<>> /\ \A k \in 1..n : b[k] = b[k - 1] \o seqs[k]
  BY DEF Grows
<1>2. ASSUME NEW i \in 1..n PROVE F[i] = G[i]
  <2>1. b[i] = b[i - 1] \o seqs[i]
    BY <1>1
  <2>2. CASE i = 1
    <3>1. seqs[1] \in Seq(S)
      BY <2>2
    <3>2. <<>> \o seqs[1] = seqs[1]
      BY <3>1
    <3>3. i - 1 = 0
      BY <2>2
    <3> QED
      BY <1>1, <2>1, <2>2, <3>2, <3>3
  <2>3. CASE i # 1
    <3>1. i - 1 \in 1..n
      BY <2>3
    <3> QED
      BY <2>1, <2>3, <3>1
  <2> QED
    BY <2>2, <2>3
<1>3. F = G
  BY <1>2
<1> QED
  BY <1>3 DEF Flattens

LEMMA FlattensGrows ==
  ASSUME NEW S, NEW n \in Nat, NEW seqs \in [1..n -> Seq(S)], NEW b, Grows(b, n, S, seqs),
         NEW f, Flattens(f, n, seqs)
  PROVE  \A k \in 1..n : f[k] = b[k]
<1> DEFINE T == {k \in 0..n : k # 0 => f[k] = b[k]}
<1>1. b \in [0..n -> Seq(S)] /\ b[0] = <<>> /\ \A k \in 1..n : b[k] = b[k - 1] \o seqs[k]
  BY DEF Grows
<1>2. \A k \in 1..n : f[k] = IF k = 1 THEN seqs[k] ELSE f[k - 1] \o seqs[k]
  BY DEF Flattens
<1>3. 0 \in T
  OBVIOUS
<1>4. ASSUME NEW k \in 0..n, k < n, k \in T PROVE k + 1 \in T
  <2>1. k + 1 \in 0..n /\ k + 1 \in 1..n /\ (k + 1) - 1 = k /\ (k + 1 = 1 <=> k = 0)
    BY <1>4
  <2>2. f[k + 1] = IF k = 0 THEN seqs[k + 1] ELSE f[k] \o seqs[k + 1]
    BY <1>2, <2>1
  <2>3. b[k + 1] = b[k] \o seqs[k + 1]
    BY <1>1, <2>1
  <2>4. f[k + 1] = b[k + 1]
    <3>1. CASE k = 0
      <4>1. seqs[k + 1] \in Seq(S)
        BY <2>1
      <4>2. <<>> \o seqs[k + 1] = seqs[k + 1]
        BY <4>1
      <4> HIDE DEF T
      <4> QED
        BY <1>1, <2>2, <2>3, <3>1, <4>2
    <3>2. CASE k # 0
      <4>1. f[k] = b[k]
        BY <1>4, <3>2
      <4> HIDE DEF T
      <4> QED
        BY <2>2, <2>3, <3>2, <4>1
    <3> QED
      BY <3>1, <3>2
  <2> QED
    BY <2>1, <2>4
<1> HIDE DEF T
<1>5. \A k \in 0..n : k \in T
  BY <1>3, <1>4, UpTo
<1> QED
  BY <1>5 DEF T

LEMMA FlattenGrows ==
  ASSUME NEW S, NEW seqs \in Seq(Seq(S))
  PROVE  \E a : Grows(a, Len(seqs), S, seqs) /\ a[Len(seqs)] = FlattenSeq(seqs)
<1> DEFINE Q == Seq(S)
           g == [p \in Q \X Q |-> p[1] \o p[2]]
<1>1. PICK n \in Nat : n = Len(seqs)
  OBVIOUS
<1>2. seqs \in [1..n -> Seq(S)]
  BY <1>1
<1>3. FlattenSeq(seqs) = IF n = 0 THEN seqs ELSE (CHOOSE f : Flattens(f, n, seqs))[n]
  BY <1>1 DEF FlattenSeq, Flattens
<1>4. PICK b : FoldRun(b, Q, g, <<>>, n, seqs)
  <2>1. g \in [Q \X Q -> Q] /\ <<>> \in Q
    OBVIOUS
  <2> HIDE DEF g
  <2> QED
    BY <1>2, <2>1, RunExists
<1>5. Grows(b, n, S, seqs)
  <2>1. b \in [0..n -> Q] /\ b[0] = <<>> /\ \A k \in 1..n : b[k] = g[<<b[k - 1], seqs[k]>>]
    BY <1>4 DEF FoldRun
  <2>2. ASSUME NEW k \in 1..n PROVE b[k] = b[k - 1] \o seqs[k]
    <3>1. k - 1 \in 0..n
      OBVIOUS
    <3>2. b[k - 1] \in Q /\ seqs[k] \in Q
      BY <1>2, <2>1, <3>1
    <3>3. b[k] = g[<<b[k - 1], seqs[k]>>]
      BY <2>1
    <3> HIDE DEF Q
    <3> QED
      BY <3>2, <3>3
  <2> QED
    BY <2>1, <2>2 DEF Grows
<1>6. CASE n = 0
  <2>1. seqs = <<>>
    BY <1>1, <1>6, EmptySeq
  <2> QED
    BY <1>1, <1>3, <1>5, <1>6, <2>1 DEF Grows
<1>7. CASE n # 0
  <2>1. PICK f : f = CHOOSE it : Flattens(it, n, seqs)
    OBVIOUS
  <2>2. Flattens(f, n, seqs)
    BY <1>2, <1>5, <2>1, GrowsFlattens
  <2>3. n \in 1..n
    BY <1>7
  <2>4. f[n] = b[n]
    <3> HIDE DEF Q, g
    <3>1. \A k \in 1..n : f[k] = b[k]
      BY <1>2, <1>5, <2>2, FlattensGrows
    <3> QED
      BY <2>3, <3>1
  <2> QED
    BY <1>1, <1>3, <1>5, <1>7, <2>1, <2>4
<1> QED
  BY <1>6, <1>7

LEMMA FlattenTyped ==
  ASSUME NEW S, NEW seqs \in Seq(Seq(S))
  PROVE  FlattenSeq(seqs) \in Seq(S)
<1>1. PICK a : Grows(a, Len(seqs), S, seqs) /\ a[Len(seqs)] = FlattenSeq(seqs)
  BY FlattenGrows
<1> QED
  BY <1>1, SMTT(20) DEF Grows

-------------------------------------------------------------------------------
(* The code, laid out.                                                     *)

AddSize == [p \in Nat \X Instr |-> p[1] + p[2].size]

(* The fold that places an instruction behind others.                      *)
SizeOfAll(insts) == FoldLeft(LAMBDA n, c: n + c.size, 0, insts)

LEMMA SizesRun ==
  ASSUME NEW prog \in Seq(Instr)
  PROVE  RunsTo(SizeOfAll(prog), Nat, AddSize, 0, Len(prog), prog)
<1>1. PICK n \in Nat : n = Len(prog)
  OBVIOUS
<1>2. prog \in [1..n -> Instr] /\ DOMAIN prog = 1..n
  BY <1>1
<1> DEFINE Works(it) == it = [s \in SUBSET (1..n) |->
                               IF s = {} THEN 0 ELSE it[s \ {Max(s)}] + prog[Max(s)].size]
<1>3. SizeOfAll(prog) = (CHOOSE it : Works(it))[1..n]
  BY <1>2 DEF SizeOfAll, FoldLeft, MapThenFoldSet
<1>4. AddSize \in [Nat \X Instr -> Nat]
  <2>1. \A c \in Instr : c.size \in Nat
    BY SMTT(20) DEF Instr
  <2>2. ASSUME NEW p \in Nat \X Instr PROVE p[1] + p[2].size \in Nat
    <3>1. p[1] \in Nat /\ p[2] \in Instr
      OBVIOUS
    <3> QED
      BY <2>1, <3>1
  <2> QED
    BY <2>2 DEF AddSize
<1>5. \A v \in Nat : \A c \in Instr : AddSize[<<v, c>>] = v + c.size
  BY DEF AddSize
<1>6. PICK f : IsFold(f, Nat, Instr, AddSize, 0, n, prog)
  BY <1>2, <1>4, FoldValues
<1>7. Works(f)
  <2> DEFINE F == [s \in SUBSET (1..n) |-> IF s = {} THEN 0 ELSE f[s \ {Max(s)}] + prog[Max(s)].size]
  <2>1. ASSUME NEW s \in SUBSET (1..n) PROVE f[s] = F[s]
    BY <1>5, <1>6 DEF IsFold
  <2>2. f = F
    BY <1>6, <2>1 DEF IsFold
  <2> QED
    BY <2>2
<1>8. PICK it : it = CHOOSE h : Works(h)
  OBVIOUS
<1>9. Works(it)
  BY <1>7, <1>8
<1>10. Folds(it, Nat, AddSize, 0, n, prog)
  <2>1. it[{}] = 0
    BY <1>9
  <2>2. ASSUME NEW s \in SUBSET (1..n), s # {}, it[s \ {Max(s)}] \in Nat
        PROVE  it[s] = AddSize[<<it[s \ {Max(s)}], prog[Max(s)]>>]
    <3>1. PICK v \in Nat, c \in Instr : v = it[s \ {Max(s)}] /\ c = prog[Max(s)]
      <4>1. prog[Max(s)] \in Instr
        BY <1>6, <2>2 DEF IsFold
      <4> QED
        BY <2>2, <4>1
    <3>2. it[s] = v + c.size
      BY <1>9, <2>2, <3>1
    <3>3. AddSize[<<v, c>>] = v + c.size
      BY <1>5
    <3> QED
      BY <3>1, <3>2, <3>3
  <2> QED
    BY <2>1, <2>2 DEF Folds
<1> HIDE DEF Works
<1>11. RunsTo(it[1..n], Nat, AddSize, 0, n, prog)
  BY <1>2, <1>4, <1>10, FoldIsRun
<1> QED
  BY <1>1, <1>3, <1>8, <1>11

LEMMA SizesAddUp ==
  ASSUME NEW prog \in Seq(Instr), NEW i \in 1..Len(prog)
  PROVE  /\ SizeOfAll(SubSeq(prog, 1, i - 1)) \in Nat
         /\ SizeOfAll(SubSeq(prog, 1, i)) = SizeOfAll(SubSeq(prog, 1, i - 1)) + prog[i].size
<1>1. PICK n \in Nat : n = i - 1
  OBVIOUS
<1>2. PICK s : s = SubSeq(prog, 1, n)
  OBVIOUS
<1>3. PICK t : t = SubSeq(prog, 1, n + 1)
  OBVIOUS
<1>4. s \in Seq(Instr) /\ Len(s) = n /\ \A j \in 1..n : s[j] = prog[j]
  BY <1>1, <1>2
<1>5. t \in Seq(Instr) /\ Len(t) = n + 1 /\ \A j \in 1..n + 1 : t[j] = prog[j]
  BY <1>1, <1>3
<1>6. PICK a : FoldRun(a, Nat, AddSize, 0, n, s) /\ a[n] = SizeOfAll(s)
  BY <1>4, SizesRun DEF RunsTo
<1>7. PICK b : FoldRun(b, Nat, AddSize, 0, n + 1, t) /\ b[n + 1] = SizeOfAll(t)
  BY <1>5, SizesRun DEF RunsTo
<1>8. a[n] = b[n]
  <2>1. Common(n, s, t)
    BY <1>4, <1>5 DEF Common
  <2>2. n + 1 \in Nat /\ n <= n + 1 /\ n <= n
    OBVIOUS
  <2>3. \A k \in 0..n : a[k] = b[k]
    BY <1>6, <1>7, <2>1, <2>2, RunsAgree
  <2> QED
    BY <2>3
<1>9. b[n + 1] = AddSize[<<b[n], t[n + 1]>>]
  <2>1. n + 1 \in 1..n + 1 /\ (n + 1) - 1 = n
    OBVIOUS
  <2>2. \A k \in 1..n + 1 : b[k] = AddSize[<<b[k - 1], t[k]>>]
    BY <1>7 DEF FoldRun
  <2>3. b[n + 1] = AddSize[<<b[(n + 1) - 1], t[n + 1]>>]
    BY <2>1, <2>2
  <2> QED
    BY <2>1, <2>3
<1>10. b[n] \in Nat /\ t[n + 1] = prog[i] /\ prog[i] \in Instr
  BY <1>1, <1>5, <1>7 DEF FoldRun
<1>11. AddSize[<<b[n], prog[i]>>] = b[n] + prog[i].size
  BY <1>10 DEF AddSize
<1> QED
  BY <1>1, <1>2, <1>3, <1>6, <1>7, <1>8, <1>9, <1>10, <1>11

(* The instructions lie one behind the other.                              *)
Laid(laid) ==
  /\ laid \in Seq(Instr) /\ Len(laid) \in Nat \ {0}
  /\ laid[1].offset = 0
  /\ \A i \in 1..Len(laid) - 1 : laid[i + 1].offset = laid[i].offset + laid[i].size

SameInstr(c, d) ==
  /\ c.size = d.size /\ c.mite = d.mite /\ c.ms = d.ms /\ c.branch = d.branch
  /\ c.pairs = d.pairs /\ c.fusible = d.fusible /\ c.lsd = d.lsd /\ c.rspDelta = d.rspDelta
  /\ c.complex = d.complex /\ c.simple = d.simple /\ c.rspUse = d.rspUse /\ c.rspDef = d.rspDef

LEMMA LaidOutIsLaid ==
  ASSUME NEW prog \in Seq(Instr), prog # <<>>
  PROVE  /\ Laid(LaidOut(prog)) /\ Len(LaidOut(prog)) = Len(prog)
         /\ \A i \in 1..Len(prog) : SameInstr(LaidOut(prog)[i], prog[i])
<1>1. PICK n \in Nat \ {0} : n = Len(prog)
  BY EmptySeq
<1>2. prog \in [1..n -> Instr] /\ DOMAIN prog = 1..n
  BY <1>1
<1> DEFINE at(i) == SizeOfAll(SubSeq(prog, 1, i - 1))
<1>3. LaidOut(prog) = [i \in 1..n |-> [prog[i] EXCEPT !.offset = at(i)]]
  BY <1>2 DEF LaidOut, SizeOfAll
<1>4. \A i \in 1..n : at(i) \in Nat
  BY <1>1, SizesAddUp
<1>5. \A i \in 1..n : i + 1 <= n => at(i + 1) = at(i) + prog[i].size
  <2> TAKE i \in 1..n
  <2>1. (i + 1) - 1 = i
    OBVIOUS
  <2>2. SizeOfAll(SubSeq(prog, 1, i)) = SizeOfAll(SubSeq(prog, 1, i - 1)) + prog[i].size
    BY <1>1, SizesAddUp
  <2> QED
    BY <2>1, <2>2
<1>6. at(1) = 0
  <2>1. SubSeq(prog, 1, 1 - 1) = <<>>
    BY <1>2
  <2>2. <<>> \in Seq(Instr) /\ Len(<<>>) = 0
    OBVIOUS
  <2>3. PICK a : FoldRun(a, Nat, AddSize, 0, 0, <<>>) /\ a[0] = SizeOfAll(<<>>)
    BY <2>2, SizesRun DEF RunsTo
  <2> QED
    BY <2>1, <2>3 DEF FoldRun
<1> HIDE DEF at
<1>7. \A i \in 1..n : /\ [prog[i] EXCEPT !.offset = at(i)] \in Instr
                      /\ [prog[i] EXCEPT !.offset = at(i)].offset = at(i)
                      /\ SameInstr([prog[i] EXCEPT !.offset = at(i)], prog[i])
  <2> TAKE i \in 1..n
  <2>1. PICK c \in Instr : c = prog[i]
    BY <1>2
  <2>2. PICK o \in Nat : o = at(i)
    BY <1>4
  <2>3. [c EXCEPT !.offset = o] \in Instr
    BY DEF Instr
  <2>4. [c EXCEPT !.offset = o].offset = o
    BY DEF Instr
  <2>5. SameInstr([c EXCEPT !.offset = o], c)
    BY DEF Instr, SameInstr
  <2> QED
    BY <2>1, <2>2, <2>3, <2>4, <2>5
<1>8. PICK laid : laid = LaidOut(prog)
  OBVIOUS
<1>9. \A i \in 1..n : laid[i] \in Instr /\ laid[i].offset = at(i) /\ SameInstr(laid[i], prog[i])
  BY <1>3, <1>7, <1>8
<1>10. laid \in Seq(Instr) /\ Len(laid) = n
  <2>1. laid \in [1..n -> Instr]
    BY <1>3, <1>7, <1>8
  <2> QED
    BY <2>1
<1>11. Laid(laid)
  <2>1. \A i \in 1..n : laid[i].size = prog[i].size
    BY <1>9 DEF SameInstr
  <2>2. laid[1].offset = 0
    BY <1>6, <1>9
  <2>3. \A i \in 1..n - 1 : laid[i + 1].offset = laid[i].offset + laid[i].size
    <3> TAKE i \in 1..n - 1
    <3>1. i \in 1..n /\ i + 1 \in 1..n /\ i + 1 <= n
      OBVIOUS
    <3>2. at(i + 1) = at(i) + prog[i].size
      BY <1>5, <3>1
    <3>3. laid[i + 1].offset = at(i + 1) /\ laid[i].offset = at(i)
      BY <1>9, <3>1
    <3> QED
      BY <2>1, <3>1, <3>2, <3>3
  <2> QED
    BY <1>10, <2>2, <2>3 DEF Laid
<1> QED
  BY <1>1, <1>8, <1>9, <1>10, <1>11

-------------------------------------------------------------------------------
(* What is fixed in a behaviour.                                           *)

Recorded ==
  \A i \in 1..Len(code) :
    /\ code[i].mite + code[i].ms > 0
    /\ code[i].pairs => code[i].fusible
    /\ code[i].lsd => code[i].ms = 0 /\ code[i].rspDelta = 0

Machine ==
  /\ AlignmentOffset \in Nat /\ SimpleFrontEnd \in BOOLEAN
  /\ DSBWidth \in Nat \ {0} /\ DSBMSStall \in Nat /\ DSBBlockSize \in {32, 64}
  /\ IQWidth \in Nat /\ PredecodeWidth \in Nat \ {0} /\ NDecoders \in Nat \ {0}
  /\ PredecodeDecodeDelay \in Nat /\ PredecodeBlockSize \in {16, 32}
  /\ IDQWidth \in Nat /\ IssueWidth \in Nat \ {0} /\ MaxRSPOffset \in Nat
  /\ \A n \in DOMAIN LSDUnrolling : LSDUnrolling[n] \in Nat \ {0}

Given ==
  /\ Laid(code) /\ Recorded /\ Machine
  /\ Rounds \in Nat \ {0, 1}
  /\ Linear => RoundBytes % 64 = 0 /\ RoundBytes >= 128

LEMMA SetUpGiven ==
  ASSUME SetUp
  PROVE  Given
<1>0. PICK s \in Setups : arch = s.arch /\ \E prog \in s.programs : code = LaidOut(prog)
  BY DEF SetUp
<1>1. PICK prog \in s.programs : arch = s.arch /\ code = LaidOut(prog)
  BY <1>0
<1>2. /\ s.arch.rounds \in Nat \ {0, 1} /\ s.arch.alignmentOffset \in Nat
      /\ s.arch.simpleFrontEnd \in BOOLEAN
      /\ ProgramOK(prog)
      /\ s.arch.simpleFrontEnd \/ ~Last(prog).branch => FillsLines(prog, s.arch.rounds)
  BY CacheBlocksAssumption
<1>3. prog \in Seq(Instr) /\ prog # <<>>
  BY <1>2 DEF ProgramOK
<1>4. Laid(code) /\ Len(code) = Len(prog) /\ \A i \in 1..Len(prog) : SameInstr(code[i], prog[i])
  BY <1>1, <1>3, LaidOutIsLaid
<1>5. Len(prog) \in 1..Len(prog) /\ DOMAIN prog = 1..Len(prog)
  BY <1>3, EmptySeq
<1>6. Recorded
  <2>1. \A i \in 1..Len(prog) :
          /\ prog[i].mite + prog[i].ms > 0
          /\ prog[i].pairs => prog[i].fusible
          /\ prog[i].lsd => prog[i].ms = 0 /\ prog[i].rspDelta = 0
    BY <1>2, <1>5 DEF ProgramOK
  <2> QED
    BY <1>4, <2>1 DEF Recorded, SameInstr
<1>7. Machine
  <2>1. /\ AlignmentOffset \in Nat /\ SimpleFrontEnd \in BOOLEAN
    BY <1>1, <1>2 DEF AlignmentOffset, SimpleFrontEnd
  <2>2. DSBWidth \in Nat \ {0} /\ DSBMSStall \in Nat /\ DSBBlockSize \in {32, 64}
    BY <1>1, DsbAssumption DEF DSBWidth, DSBMSStall, DSBBlockSize
  <2>3. /\ IQWidth \in Nat /\ PredecodeWidth \in Nat \ {0} /\ NDecoders \in Nat \ {0}
        /\ PredecodeDecodeDelay \in Nat /\ PredecodeBlockSize \in {16, 32}
    BY <1>1, PreDecoderAssumption
       DEF IQWidth, PredecodeWidth, NDecoders, PredecodeDecodeDelay, PredecodeBlockSize
  <2>4. /\ IDQWidth \in Nat /\ IssueWidth \in Nat \ {0} /\ MaxRSPOffset \in Nat
        /\ \A n \in DOMAIN LSDUnrolling : LSDUnrolling[n] \in Nat \ {0}
    BY <1>1, FrontEndAssumption DEF IDQWidth, IssueWidth, LSDUnrolling
  <2> QED
    BY <2>1, <2>2, <2>3, <2>4 DEF Machine
<1>8. Rounds \in Nat \ {0, 1}
  BY <1>1, <1>2 DEF Rounds
<1>9. ASSUME Linear PROVE RoundBytes % 64 = 0 /\ RoundBytes >= 128
  <2>1. Last(code).branch = Last(prog).branch
    BY <1>4, <1>5 DEF Last, SameInstr
  <2>2. FillsLines(prog, s.arch.rounds)
    BY <1>1, <1>2, <1>9, <2>1 DEF Linear, Unroll, SimpleFrontEnd
  <2> QED
    BY <1>1, <2>2 DEF FillsLines, RoundBytes, Rounds, CodeSize
<1> QED
  BY <1>4, <1>6, <1>7, <1>8, <1>9 DEF Given

-------------------------------------------------------------------------------
(* Instances and their addresses.                                          *)

LEMMA CodeFacts ==
  ASSUME Given
  PROVE  /\ Len(code) \in Nat \ {0} /\ DOMAIN code = 1..Len(code)
         /\ \A i \in 1..Len(code) : code[i] \in Instr
         /\ Rounds \in Nat \ {0, 1}
  BY DEF Given, Laid

LEMMA InstanceFacts ==
  ASSUME Given, NEW x \in Instances
  PROVE  /\ x.rnd \in 0..Rounds - 1 /\ x.i \in 1..Len(code)
         /\ x = [rnd |-> x.rnd, i |-> x.i]
         /\ code[x.i] \in Instr
  BY CodeFacts DEF Instances

LEMMA LaterTyped ==
  ASSUME Given, NEW x \in Instances, NEW k \in Nat
  PROVE  Later(x, k) \in Instances
<1>1. PICK n \in Nat \ {0} : n = Len(code)
  BY CodeFacts
<1>2. PICK r \in Nat \ {0} : r = Rounds
  BY CodeFacts
<1>3. PICK p \in Nat : p = x.rnd * n + (x.i - 1) + k
  <2>1. x.rnd * n \in Nat /\ x.i - 1 \in Nat
    BY <1>1, <1>2, InstanceFacts
  <2> QED
    BY <2>1
<1>4. p \div n \in Nat /\ p % n \in 0..n - 1
  BY Division
<1>5. (p \div n) % r \in 0..r - 1
  BY <1>4, Division
<1>6. Later(x, k) = [rnd |-> (p \div n) % r, i |-> (p % n) + 1]
  BY <1>1, <1>2, <1>3 DEF Later
<1> QED
  BY <1>1, <1>2, <1>4, <1>5, <1>6, CodeFacts DEF Instances

(* The next instance is the next of the round or the first of the next.    *)
LEMMA FollowingIs ==
  ASSUME Given, NEW x \in Instances
  PROVE  Following(x) = IF x.i < Len(code) THEN [rnd |-> x.rnd, i |-> x.i + 1]
                        ELSE [rnd |-> (x.rnd + 1) % Rounds, i |-> 1]
<1>1. PICK n \in Nat \ {0} : n = Len(code)
  BY CodeFacts
<1>2. PICK r \in Nat \ {0} : r = Rounds
  BY CodeFacts
<1>3. PICK q \in Nat : q = x.rnd /\ q \in 0..r - 1
  BY <1>2, InstanceFacts
<1>4. x.i \in 1..n
  BY <1>1, InstanceFacts
<1>5. Following(x) = [rnd |-> ((q * n + (x.i - 1) + 1) \div n) % r, i |-> ((q * n + (x.i - 1) + 1) % n) + 1]
  BY <1>1, <1>2, <1>3 DEF Following, Later
<1>6. CASE x.i < n
  <2>1. x.i \in 0..n - 1
    BY <1>4, <1>6
  <2>2. q * n + (x.i - 1) + 1 = n * q + x.i
    BY <1>4
  <2>3. (n * q + x.i) \div n = q /\ (n * q + x.i) % n = x.i
    BY <2>1, Quotient
  <2>4. q % r = q
    BY <1>3
  <2> QED
    BY <1>1, <1>3, <1>5, <1>6, <2>2, <2>3, <2>4
<1>7. CASE x.i = n
  <2>1. q * n + (x.i - 1) + 1 = n * (q + 1) + 0
    BY <1>7
  <2>2. (n * (q + 1) + 0) \div n = q + 1 /\ (n * (q + 1) + 0) % n = 0
    <3>1. q + 1 \in Nat /\ 0 \in 0..n - 1
      OBVIOUS
    <3> QED
      BY <3>1, Quotient
  <2> QED
    BY <1>1, <1>2, <1>3, <1>5, <1>7, <2>1, <2>2
<1> QED
  BY <1>4, <1>6, <1>7

LEMMA LaterNext ==
  ASSUME Given, NEW x \in Instances, NEW k \in Nat
  PROVE  Later(x, k + 1) = Following(Later(x, k))
<1>1. PICK n \in Nat \ {0} : n = Len(code)
  BY CodeFacts
<1>2. PICK r \in Nat \ {0} : r = Rounds
  BY CodeFacts
<1>3. PICK p \in Nat : p = x.rnd * n + (x.i - 1) + k
  <2>1. x.rnd * n \in Nat /\ x.i - 1 \in Nat
    BY <1>1, <1>2, InstanceFacts
  <2> QED
    BY <2>1
<1>4. x.rnd * n + (x.i - 1) + (k + 1) = p + 1
  <2>1. x.rnd * n \in Nat /\ x.i - 1 \in Nat
    BY <1>1, <1>2, InstanceFacts
  <2> QED
    BY <1>3, <2>1
<1>5. PICK q \in Nat, s \in 0..n - 1 : q = p \div n /\ s = p % n /\ p = (n * q) + s
  BY Division, ZenonT(30)
<1>6. Later(x, k) = [rnd |-> q % r, i |-> s + 1]
  BY <1>1, <1>2, <1>3, <1>5 DEF Later
<1>7. Later(x, k + 1) = [rnd |-> ((p + 1) \div n) % r, i |-> ((p + 1) % n) + 1]
  BY <1>1, <1>2, <1>4 DEF Later
<1>8. PICK y \in Instances : y = Later(x, k)
  BY LaterTyped
<1>9. y.rnd = q % r /\ y.i = s + 1
  BY <1>6, <1>8
<1>10. CASE s + 1 < n
  <2>1. s + 1 \in 0..n - 1 /\ p + 1 = n * q + (s + 1)
    BY <1>5, <1>10
  <2>2. (p + 1) \div n = q /\ (p + 1) % n = s + 1
    BY <2>1, Quotient
  <2>3. Following(y) = [rnd |-> q % r, i |-> (s + 1) + 1]
    BY <1>1, <1>9, <1>10, FollowingIs
  <2> QED
    BY <1>7, <1>8, <2>2, <2>3
<1>11. CASE s + 1 = n
  <2>1. p + 1 = n * (q + 1) + 0 /\ q + 1 \in Nat /\ 0 \in 0..n - 1
    BY <1>5, <1>11
  <2>a. (n * (q + 1) + 0) \div n = q + 1 /\ (n * (q + 1) + 0) % n = 0
    BY <2>1, Quotient
  <2>2. (p + 1) \div n = q + 1 /\ (p + 1) % n = 0
    BY <2>1, <2>a
  <2>3. Following(y) = [rnd |-> ((q % r) + 1) % r, i |-> 1]
    BY <1>1, <1>2, <1>9, <1>11, FollowingIs
  <2>4. ((q % r) + 1) % r = (q + 1) % r
    BY SumModulo
  <2> QED
    BY <1>7, <1>8, <2>2, <2>3, <2>4
<1> QED
  BY <1>5, <1>10, <1>11

LEMMA SizeFacts ==
  ASSUME Given
  PROVE  /\ CodeSize \in Nat \ {0} /\ RoundBytes \in Nat \ {0} /\ AlignmentOffset \in Nat
         /\ \A i \in 1..Len(code) : code[i].offset \in Nat /\ code[i].size \in 1..15
<1>1. \A i \in 1..Len(code) : code[i].offset \in Nat /\ code[i].size \in 1..15
  BY CodeFacts DEF Instr
<1>2. CodeSize \in Nat \ {0}
  <2>1. PICK n \in Nat \ {0} : n = Len(code)
    BY CodeFacts
  <2>2. n \in 1..n
    OBVIOUS
  <2>3. code[n].offset \in Nat /\ code[n].size \in 1..15
    BY <1>1, <2>1, <2>2
  <2>4. CodeSize = code[n].offset + code[n].size
    BY <2>1 DEF CodeSize, SizeOf, Last
  <2> QED
    BY <2>3, <2>4
<1>3. RoundBytes \in Nat \ {0}
  <2>1. PICK r \in Nat \ {0}, c \in Nat \ {0} : r = Rounds /\ c = CodeSize
    BY <1>2, CodeFacts
  <2>2. r * c \in Nat \ {0}
    OBVIOUS
  <2> QED
    BY <2>1, <2>2 DEF RoundBytes
<1>4. AlignmentOffset \in Nat
  BY DEF Given, Machine
<1> QED
  BY <1>1, <1>2, <1>3, <1>4

LEMMA AddressTyped ==
  ASSUME Given, NEW x \in Instances
  PROVE  Address(x) \in Nat /\ Size(x) \in 1..15
<1>1. PICK c \in Nat \ {0}, m \in Nat \ {0}, base \in Nat :
         c = CodeSize /\ m = RoundBytes /\ base = AlignmentOffset + code[x.i].offset
  BY SizeFacts, InstanceFacts
<1>2. x.rnd * c \in Nat
  BY InstanceFacts, CodeFacts
<1>3. (base + x.rnd * c) % m \in Nat
  BY <1>2, Division
<1> QED
  BY <1>1, <1>3, SizeFacts, InstanceFacts DEF Address, Size

(* Unrolled code: each instruction begins where the one before it ends,    *)
(* and the last round is followed by the first.                            *)
LEMMA AddressFollows ==
  ASSUME Given, Linear, NEW x \in Instances
  PROVE  Address(Following(x)) = (Address(x) + Size(x)) % RoundBytes
<1>1. PICK n \in Nat \ {0}, r \in Nat \ {0} : n = Len(code) /\ r = Rounds
  BY CodeFacts
<1>2. PICK c \in Nat \ {0}, m \in Nat \ {0}, a \in Nat : c = CodeSize /\ m = RoundBytes /\ a = AlignmentOffset
  BY SizeFacts
<1>3. PICK q \in 0..r - 1, i \in 1..n : q = x.rnd /\ i = x.i
  BY <1>1, InstanceFacts
<1>4. PICK off \in Nat, sz \in 1..15 : off = code[i].offset /\ sz = code[i].size
  BY <1>1, SizeFacts
<1>5. Address(x) = (a + off + q * c) % m /\ Size(x) = sz
  BY <1>2, <1>3, <1>4 DEF Address, Size
<1>6. q * c \in Nat
  OBVIOUS
<1>7. (((a + off + q * c) % m) + sz) % m = (a + off + q * c + sz) % m
  <2>1. PICK v \in Nat, w \in Nat : v = a + off + q * c /\ w = sz
    BY <1>6
  <2>2. ((v % m) + w) % m = (v + w) % m
    BY SumModulo
  <2> QED
    BY <2>1, <2>2
<1>8. CASE i < n
  <2>1. Following(x) = [rnd |-> q, i |-> i + 1]
    BY <1>1, <1>3, <1>8, FollowingIs
  <2>2. code[i + 1].offset = off + sz
    <3>1. i \in 1..n - 1
      BY <1>8
    <3> QED
      BY <1>1, <1>4, <3>1 DEF Given, Laid
  <2>3. Address(Following(x)) = (a + (off + sz) + q * c) % m
    BY <1>2, <2>1, <2>2 DEF Address
  <2>4. a + (off + sz) + q * c = a + off + q * c + sz
    BY <1>6
  <2> QED
    BY <1>2, <1>5, <1>7, <2>3, <2>4
<1>9. CASE i = n
  <2>1. Following(x) = [rnd |-> (q + 1) % r, i |-> 1]
    <3>1. ~(x.i < Len(code))
      BY <1>1, <1>3, <1>9
    <3> QED
      BY <1>1, <1>3, <3>1, FollowingIs
  <2>2. off + sz = c
    BY <1>1, <1>2, <1>4, <1>9 DEF CodeSize, SizeOf, Last
  <2>3. code[1].offset = 0
    BY DEF Given, Laid
  <2>4. Address(Following(x)) = (a + ((q + 1) % r) * c) % m
    BY <1>2, <2>1, <2>3 DEF Address
  <2>5. a + off + q * c + sz = a + (q + 1) * c
    <3>1. (q + 1) * c = q * c + c
      OBVIOUS
    <3> QED
      BY <1>6, <2>2, <3>1
  <2>6. CASE q + 1 < r
    <3>1. (q + 1) % r = q + 1
      BY <2>6
    <3> QED
      BY <1>2, <1>5, <1>7, <2>4, <2>5, <3>1
  <2>7. CASE q + 1 = r
    <3>1. (q + 1) % r = 0
      BY <2>7
    <3>2. r * c = m
      BY <1>1, <1>2 DEF RoundBytes
    <3>3. (a + ((q + 1) % r) * c) % m = a % m
      BY <3>1
    <3>4. ((m % m) + a) % m = (m + a) % m
      <4>1. m \in Nat \ {0} /\ m \in Nat /\ a \in Nat
        OBVIOUS
      <4> QED
        BY <4>1, SumModulo, ZenonT(30)
    <3>5. m % m = 0
      OBVIOUS
    <3>6. a + (q + 1) * c = m + a
      <4>1. (q + 1) * c = r * c
        BY <2>7
      <4> QED
        BY <3>2, <4>1
    <3>7. (a + (q + 1) * c) % m = a % m
      BY <3>4, <3>5, <3>6
    <3> QED
      BY <1>2, <1>5, <1>7, <2>4, <2>5, <3>3, <3>7
  <2> QED
    BY <2>6, <2>7
<1> QED
  BY <1>8, <1>9

LineOf(x) == Address(x) \div 64

(* A cache line ends within 64 instructions.                               *)
LEMMA LineEnds ==
  ASSUME Given, Linear, NEW x \in Instances
  PROVE  \E k \in 1..64 : LineOf(Later(x, k)) # LineOf(x)
<1> SUFFICES ASSUME \A k \in 1..64 : LineOf(Later(x, k)) = LineOf(x)
             PROVE  FALSE
  OBVIOUS
<1>1. PICK m \in Nat \ {0} : m = RoundBytes /\ m % 64 = 0 /\ m >= 128
  BY SizeFacts DEF Given
<1> DEFINE at(k) == Address(Later(x, k))
           line == LineOf(x)
<1>2. \A k \in 0..64 : Later(x, k) \in Instances /\ at(k) \in Nat /\ Size(Later(x, k)) \in 1..15
  <2>1. \A k \in 0..64 : Later(x, k) \in Instances
    <3> TAKE k \in 0..64
    <3>1. k \in Nat
      OBVIOUS
    <3> QED
      BY <3>1, LaterTyped
  <2> QED
    BY <2>1, AddressTyped
<1>3. Later(x, 0) = x
  <2>1. PICK n \in Nat \ {0}, r \in Nat \ {0} : n = Len(code) /\ r = Rounds
    BY CodeFacts
  <2>2. PICK q \in 0..r - 1, i \in 1..n : q = x.rnd /\ i = x.i
    BY <2>1, InstanceFacts
  <2>3. q * n + (i - 1) + 0 = n * q + (i - 1) /\ i - 1 \in 0..n - 1 /\ q \in Nat
    OBVIOUS
  <2>4. (n * q + (i - 1)) \div n = q /\ (n * q + (i - 1)) % n = i - 1
    BY <2>3, Quotient
  <2>5. q % r = q
    OBVIOUS
  <2>a. x.rnd * Len(code) + (x.i - 1) + 0 = n * q + (i - 1)
    BY <2>1, <2>2, <2>3
  <2>b. PICK p \in Nat : p = n * q + (i - 1)
    BY <2>3
  <2>c. p \div n = q /\ p % n = i - 1 /\ x.rnd * Len(code) + (x.i - 1) + 0 = p
    BY <2>4, <2>a, <2>b
  <2>d. Later(x, 0) = [rnd |-> (p \div n) % r, i |-> (p % n) + 1]
    BY <2>1, <2>c DEF Later
  <2>6. Later(x, 0) = [rnd |-> q, i |-> i]
    <3>1. (i - 1) + 1 = i
      BY <2>2
    <3> QED
      BY <2>5, <2>c, <2>d, <3>1
  <2> QED
    BY <2>2, <2>6, InstanceFacts
<1>4. \A k \in 0..64 : at(k) \div 64 = line
  <2> TAKE k \in 0..64
  <2>1. CASE k = 0
    BY <1>3, <2>1 DEF LineOf
  <2>2. CASE k # 0
    BY <2>2 DEF LineOf
  <2> QED
    BY <2>1, <2>2
<1>5. \A k \in 0..63 : at(k + 1) = (at(k) + Size(Later(x, k))) % m
  BY <1>1, <1>2, LaterNext, AddressFollows, SMTT(20)
<1>6. line \in Nat
  BY AddressTyped DEF LineOf
<1>b. at(0) \in Nat
  BY <1>3, AddressTyped
<1> HIDE DEF at, line
<1>7. \A k \in 0..64 : at(k) >= 64 * line /\ at(k) <= 64 * line + 63
  <2> TAKE k \in 0..64
  <2>1. PICK a \in Nat : a = at(k)
    BY <1>2
  <2>2. PICK l \in Nat : l = line
    BY <1>6
  <2>3. a \div 64 = l
    BY <1>4, <2>1, <2>2
  <2>4. a >= 64 * l /\ a <= 64 * l + 63
    BY <2>3
  <2> QED
    BY <2>1, <2>2, <2>4
<1>8. \A k \in 0..63 : at(k + 1) >= at(k) + 1
  <2> TAKE k \in 0..63
  <2>1. PICK a \in Nat, b \in Nat, sz \in 1..15 : a = at(k) /\ b = at(k + 1) /\ sz = Size(Later(x, k))
    <3>1. k \in 0..64 /\ k + 1 \in 0..64
      OBVIOUS
    <3>2. at(k) \in Nat /\ at(k + 1) \in Nat /\ Size(Later(x, k)) \in 1..15
      BY <1>2, <3>1
    <3> QED
      BY <3>2
  <2>2. a >= 64 * line /\ a <= 64 * line + 63 /\ b >= 64 * line /\ b <= 64 * line + 63
    BY <1>7, <2>1
  <2>3. b = (a + sz) % m
    BY <1>5, <2>1
  <2>4. PICK d \in Nat, u \in 0..m - 1 : u = (a + sz) % m /\ a + sz = (m * d) + u
    <3>1. a + sz \in Nat
      OBVIOUS
    <3> QED
      BY <3>1, Division, ZenonT(30)
  <2>5. CASE d = 0
    BY <2>1, <2>3, <2>4, <2>5
  <2>6. CASE d # 0
    <3>1. m * d >= m
      <4>1. d - 1 \in Nat /\ m * d = m + m * (d - 1) /\ m * (d - 1) >= 0
        BY <2>6
      <4> QED
        BY <4>1
    <3> QED
      BY <1>1, <1>6, <2>2, <2>3, <2>4, <3>1
  <2> QED
    BY <2>5, <2>6
<1>9. \A k \in 0..64 : at(k) >= at(0) + k
  <2> DEFINE T == {k \in 0..64 : at(k) >= at(0) + k}
  <2>1. 0 \in T
    <3>1. at(0) \in Nat
      BY <1>b
    <3>2. at(0) >= at(0) + 0 /\ 0 \in 0..64
      BY <3>1
    <3> QED
      BY <3>2
  <2>2. \A k \in 0..64 : k < 64 /\ k \in T => k + 1 \in T
    <3> TAKE k \in 0..64
    <3> HAVE k < 64 /\ k \in T
    <3>1. k \in 0..63 /\ k + 1 \in 0..64
      OBVIOUS
    <3>2. at(k + 1) \in Nat /\ at(k) \in Nat /\ at(0) \in Nat
      BY <1>2, <3>1
    <3>3. at(k + 1) >= at(k) + 1 /\ at(k) >= at(0) + k
      BY <1>8, <3>1
    <3>4. at(k + 1) >= at(0) + (k + 1)
      BY <3>2, <3>3
    <3> QED
      BY <3>1, <3>4
  <2> HIDE DEF T
  <2>3. \A k \in 0..64 : k \in T
    BY <2>1, <2>2, UpTo
  <2> QED
    BY <2>3 DEF T
<1>10. at(64) >= at(0) + 64 /\ at(0) >= 64 * line /\ at(64) <= 64 * line + 63 /\ at(0) \in Nat /\ at(64) \in Nat
  BY <1>2, <1>7, <1>9
<1> QED
  BY <1>6, <1>10

(* What the generators of cache blocks yield.                              *)
LEMMA LineTyped ==
  ASSUME Given, Linear, NEW x \in Instances
  PROVE  LineFrom(x) \in Seq(Instances) /\ LineFrom(x) # <<>>
<1> DEFINE Ends(k) == /\ Address(Later(x, k)) \div 64 # Address(x) \div 64
                      /\ \A j \in 1..k - 1 : Address(Later(x, j)) \div 64 = Address(x) \div 64
           T == {k \in 1..64 : Address(Later(x, k)) \div 64 # Address(x) \div 64}
<1>1. \E k \in 1..64 : Ends(k)
  <2>1. T # {} /\ T \in SUBSET Nat
    BY LineEnds DEF LineOf
  <2>2. PICK k \in T : \A y \in T : k <= y
    <3> HIDE DEF T
    <3> QED
      BY <2>1, NatMinimum
  <2>3. k \in 1..64
    BY <2>2
  <2>4. \A j \in 1..k - 1 : j \notin T /\ j \in 1..64
    BY <2>2, <2>3
  <2>5. Ends(k)
    BY <2>2, <2>4
  <2> QED
    BY <2>3, <2>5
<1>2. PICK n : n = CHOOSE k \in 1..64 : Ends(k)
  OBVIOUS
<1>3. n \in 1..64
  <2> HIDE DEF Ends
  <2> QED
    BY <1>1, <1>2
<1>4. LineFrom(x) = [j \in 1..n |-> Later(x, j - 1)]
  BY <1>2 DEF LineFrom
<1>5. \A j \in 1..n : Later(x, j - 1) \in Instances
  <2> TAKE j \in 1..n
  <2>1. j - 1 \in Nat
    BY <1>3
  <2> QED
    BY <2>1, LaterTyped
<1>6. [j \in 1..n |-> Later(x, j - 1)] \in [1..n -> Instances] /\ n \in Nat
  BY <1>3, <1>5
<1>7. LineFrom(x) \in Seq(Instances) /\ Len(LineFrom(x)) = n
  <2>1. PICK f \in [1..n -> Instances] : f = LineFrom(x)
    BY <1>4, <1>6
  <2>2. f \in Seq(Instances) /\ Len(f) = n
    BY <1>6
  <2> QED
    BY <2>1, <2>2
<1> QED
  BY <1>3, <1>7

LEMMA RoundTyped ==
  ASSUME Given, NEW r \in 0..Rounds - 1
  PROVE  Round(r) \in Seq(Instances) /\ Len(Round(r)) = Len(code)
<1>1. PICK n \in Nat \ {0} : n = Len(code)
  BY CodeFacts
<1>2. DOMAIN code = 1..n
  BY <1>1, CodeFacts
<1>3. Round(r) \in [1..n -> Instances]
  BY <1>2 DEF Round, Instances
<1> QED
  BY <1>1, <1>3

LEMMA GeneratedTyped ==
  ASSUME Given, NEW x \in Instances
  PROVE  Generated(x) \in Seq(Instances) /\ Generated(x) # <<>>
<1>1. Round(x.rnd) \in Seq(Instances) /\ Round(x.rnd) # <<>>
  BY RoundTyped, InstanceFacts, CodeFacts
<1> QED
  BY <1>1, LineTyped DEF Generated

LEMMA AdvancedTyped ==
  ASSUME Given, NEW x \in Instances, NEW insts \in Seq(Instances)
  PROVE  Advanced(x, insts) \in Instances
<1>1. Len(insts) \in Nat
  OBVIOUS
<1> QED
  BY <1>1, LaterTyped DEF Advanced

-------------------------------------------------------------------------------
(* Uops.                                                                   *)

LEMMA UopTyped ==
  ASSUME Given, NEW x \in Instances, NEW k \in Nat
  PROVE  Uop(x, k) \in Uops
<1>1. DOMAIN code = 1..Len(code)
  BY CodeFacts
<1> QED
  BY <1>1, InstanceFacts DEF Uop, Uops

LEMMA CountTyped ==
  ASSUME Given, NEW x \in Instances
  PROVE  /\ UopCount(x) \in Nat /\ code[x.i].mite \in 0..4 /\ code[x.i].ms \in Nat
         /\ code[x.i].mite + code[x.i].ms > 0
<1>1. code[x.i].mite \in 0..4 /\ code[x.i].ms \in Nat
  BY InstanceFacts DEF Instr
<1>2. code[x.i].mite + code[x.i].ms > 0
  BY InstanceFacts DEF Given, Recorded
<1> QED
  BY <1>1, <1>2 DEF UopCount

LEMMA LamUopsTyped ==
  ASSUME Given, NEW x \in Instances
  PROVE  /\ LamUops(x) \in Seq(Uops)
         /\ MiteUops(x) \in Seq(Uops) /\ Len(MiteUops(x)) = code[x.i].mite
         /\ MSUops(x) \in Seq(Uops) /\ Len(MSUops(x)) = code[x.i].ms
<1>0. UopCount(x) \in Nat /\ code[x.i].mite \in Nat /\ code[x.i].ms \in Nat
  BY CountTyped
<1>1. PICK n \in Nat, m \in Nat, s \in Nat : n = UopCount(x) /\ m = code[x.i].mite /\ s = code[x.i].ms
  BY <1>0
<1>2. \A k \in Nat : Uop(x, k) \in Uops
  BY UopTyped
<1>3. LamUops(x) \in [1..n -> Uops]
  BY <1>1, <1>2 DEF LamUops
<1>4. MiteUops(x) \in [1..m -> Uops]
  BY <1>1, <1>2 DEF MiteUops
<1>5. MSUops(x) \in [1..s -> Uops]
  BY <1>1, <1>2 DEF MSUops
<1>6. LamUops(x) \in Seq(Uops)
  BY <1>3
<1>7. MiteUops(x) \in Seq(Uops) /\ Len(MiteUops(x)) = m
  BY <1>4
<1>8. MSUops(x) \in Seq(Uops) /\ Len(MSUops(x)) = s
  BY <1>5
<1> QED
  BY <1>1, <1>6, <1>7, <1>8

LEMMA UopsOfTyped ==
  ASSUME Given, NEW insts \in Seq(Instances)
  PROVE  UopsOf(insts) \in Seq(Uops)
<1>1. PICK n \in Nat : n = Len(insts)
  OBVIOUS
<1>2. insts \in [1..n -> Instances] /\ DOMAIN insts = 1..n
  BY <1>1
<1>3. \A j \in 1..n : LamUops(insts[j]) \in Seq(Uops)
  BY <1>2, LamUopsTyped
<1>4. [j \in DOMAIN insts |-> LamUops(insts[j])] \in [1..n -> Seq(Uops)]
  BY <1>2, <1>3
<1>5. [j \in DOMAIN insts |-> LamUops(insts[j])] \in Seq(Seq(Uops))
  BY <1>4
<1> QED
  BY <1>5, FlattenTyped DEF UopsOf

LEMMA OrderTyped ==
  ASSUME Given
  PROVE  /\ \A x \in Instances : FirstUopFrom(x) \in Uops
         /\ \A u \in Uops : NextUop(u) \in Uops
<1>1. \A x \in Instances : Following(x) \in Instances
  <2>1. 1 \in Nat
    OBVIOUS
  <2> QED
    BY <2>1, LaterTyped DEF Following
<1>2. \A x \in Instances : FirstUopFrom(x) \in Uops
  <2> TAKE x \in Instances
  <2>1. Uop(x, 1) \in Uops
    BY UopTyped
  <2>2. Uop(Following(x), 1) \in Uops
    BY <1>1, UopTyped
  <2> QED
    BY <2>1, <2>2 DEF FirstUopFrom
<1>3. ASSUME NEW u \in Uops PROVE NextUop(u) \in Uops
  <2>1. PICK x : x = [rnd |-> u.rnd, i |-> u.i]
    OBVIOUS
  <2>2. x \in Instances /\ u.k \in Nat
    BY <2>1 DEF Uops, Instances
  <2>3. Uop(x, u.k + 1) \in Uops
    BY <2>2, UopTyped
  <2>4. FirstUopFrom(Following(x)) \in Uops
    BY <1>1, <1>2, <2>2
  <2> QED
    BY <2>1, <2>3, <2>4 DEF NextUop
<1> QED
  BY <1>2, <1>3

LEMMA BehindTyped ==
  ASSUME Given, NEW queue \in Seq(Uops), NEW u \in Uops
  PROVE  Behind(queue, u) \in Uops
<1>1. PICK n \in Nat : n = Len(queue)
  OBVIOUS
<1>2. DOMAIN queue = 1..n
  BY <1>1
<1> DEFINE real == {j \in DOMAIN queue : ~IsSync(queue[j])}
<1>3. CASE real = {}
  BY <1>3 DEF Behind
<1>4. CASE real # {}
  <2>1. real \in SUBSET (0..n) /\ real \subseteq 1..n
    BY <1>2
  <2>2. Max(real) \in real
    <3> HIDE DEF real
    <3> QED
      BY <1>4, <2>1, MaxIs
  <2>3. queue[Max(real)] \in Uops
    <3> HIDE DEF real
    <3> QED
      BY <1>1, <2>1, <2>2, ElementOfSeq
  <2>4. Behind(queue, u) = NextUop(queue[Max(real)])
    BY <1>4 DEF Behind
  <2> HIDE DEF real
  <2> QED
    BY <2>3, <2>4, OrderTyped
<1> QED
  BY <1>3, <1>4

-------------------------------------------------------------------------------
(* Blocks of the stream.                                                   *)

BlockLists == Seq(Seq(Instances) \ {<<>>})

LEMMA PutInBlockTyped ==
  ASSUME Given, NEW blocks \in BlockLists, NEW x \in Instances, NEW w \in Nat \ {0}
  PROVE  PutInBlock(blocks, x, w) \in BlockLists
<1> DEFINE B == Seq(Instances) \ {<<>>}
<1>1. CASE blocks # <<>> /\ Address(Last(Last(blocks))) \div w = Address(x) \div w
  <2>1. PICK n \in Nat \ {0} : n = Len(blocks)
    BY <1>1, EmptySeq DEF BlockLists
  <2>2. blocks[n] \in Seq(Instances)
    BY <2>1 DEF BlockLists
  <2>3. Append(blocks[n], x) \in Seq(Instances) /\ Append(blocks[n], x) # <<>>
    BY <2>2, AppendProperties
  <2>4. PICK b \in B : b = Append(blocks[n], x)
    BY <2>3
  <2>5. [blocks EXCEPT ![n] = b] \in Seq(B)
    <3>1. n \in 1..Len(blocks) /\ blocks \in Seq(B)
      BY <2>1 DEF BlockLists
    <3> HIDE DEF B
    <3> QED
      BY <3>1, ExceptSeq
  <2>6. PutInBlock(blocks, x, w) = [blocks EXCEPT ![n] = b]
    BY <1>1, <2>1, <2>4 DEF PutInBlock
  <2> QED
    BY <2>5, <2>6 DEF BlockLists
<1>2. CASE ~(blocks # <<>> /\ Address(Last(Last(blocks))) \div w = Address(x) \div w)
  <2>1. <<x>> \in B
    OBVIOUS
  <2>2. Append(blocks, <<x>>) \in BlockLists
    BY <2>1 DEF BlockLists
  <2>3. PutInBlock(blocks, x, w) = Append(blocks, <<x>>)
    BY <1>2 DEF PutInBlock
  <2> QED
    BY <2>2, <2>3
<1> QED
  BY <1>1, <1>2

PutIn(w) == [p \in BlockLists \X Instances |-> PutInBlock(p[1], p[2], w)]

LEMMA BlocksRun ==
  ASSUME Given, NEW w \in Nat \ {0}, NEW insts \in Seq(Instances)
  PROVE  RunsTo(Blocks(insts, w), BlockLists, PutIn(w), <<>>, Len(insts), insts)
<1>1. PICK n \in Nat : n = Len(insts)
  OBVIOUS
<1>2. insts \in [1..n -> Instances] /\ DOMAIN insts = 1..n
  BY <1>1
<1> DEFINE Works(it) == it = [s \in SUBSET (1..n) |->
                               IF s = {} THEN <<>> ELSE PutInBlock(it[s \ {Max(s)}], insts[Max(s)], w)]
<1>3. Blocks(insts, w) = (CHOOSE it : Works(it))[1..n]
  BY <1>2 DEF Blocks, FoldLeft, MapThenFoldSet
<1>4. PutIn(w) \in [BlockLists \X Instances -> BlockLists] /\ <<>> \in BlockLists
  <2>1. <<>> \in BlockLists
    BY DEF BlockLists
  <2>2. \A a \in BlockLists : \A b \in Instances : PutInBlock(a, b, w) \in BlockLists
    BY PutInBlockTyped
  <2> QED
    BY <2>1, <2>2 DEF PutIn
<1>5. \A a \in BlockLists : \A b \in Instances : PutIn(w)[<<a, b>>] = PutInBlock(a, b, w)
  BY DEF PutIn
<1>6. PICK f : IsFold(f, BlockLists, Instances, PutIn(w), <<>>, n, insts)
  BY <1>2, <1>4, FoldValues
<1>7. Works(f)
  <2> DEFINE F == [s \in SUBSET (1..n) |-> IF s = {} THEN <<>> ELSE PutInBlock(f[s \ {Max(s)}], insts[Max(s)], w)]
  <2>1. ASSUME NEW s \in SUBSET (1..n) PROVE f[s] = F[s]
    BY <1>5, <1>6 DEF IsFold
  <2>2. f = F
    BY <1>6, <2>1 DEF IsFold
  <2> QED
    BY <2>2
<1>8. PICK it : it = CHOOSE h : Works(h)
  OBVIOUS
<1>9. Works(it)
  BY <1>7, <1>8
<1>10. Folds(it, BlockLists, PutIn(w), <<>>, n, insts)
  <2>1. it[{}] = <<>>
    BY <1>9
  <2>2. ASSUME NEW s \in SUBSET (1..n), s # {}, it[s \ {Max(s)}] \in BlockLists
        PROVE  it[s] = PutIn(w)[<<it[s \ {Max(s)}], insts[Max(s)]>>]
    BY <1>5, <1>6, <1>9, <2>2 DEF IsFold
  <2> QED
    BY <2>1, <2>2 DEF Folds
<1> HIDE DEF Works
<1>11. RunsTo(it[1..n], BlockLists, PutIn(w), <<>>, n, insts)
  BY <1>2, <1>4, <1>10, FoldIsRun
<1> QED
  BY <1>1, <1>3, <1>8, <1>11

LEMMA BlocksTyped ==
  ASSUME Given, NEW w \in Nat \ {0}, NEW insts \in Seq(Instances)
  PROVE  Blocks(insts, w) \in BlockLists
<1>1. PICK n \in Nat : n = Len(insts)
  OBVIOUS
<1>2. PICK a : FoldRun(a, BlockLists, PutIn(w), <<>>, n, insts) /\ a[n] = Blocks(insts, w)
  BY <1>1, BlocksRun DEF RunsTo
<1> QED
  BY <1>2 DEF FoldRun

-------------------------------------------------------------------------------
(* What the DSB holds.                                                     *)

EntryLists  == Seq(Entries) \ {<<>>}
EntryBlocks == Seq(EntryLists)

(* The blocks of get_dsb_blocks so far: what the last one holds and what   *)
(* is left in it are together no more than a block.                        *)
Filling ==
  {acc \in [blocks : EntryBlocks, room : 0..BlockEntries] :
     IF acc.blocks = <<>> THEN acc.room = 0
     ELSE Len(acc.blocks[Len(acc.blocks)]) + acc.room <= BlockEntries}

LEMMA EntriesOfTyped ==
  ASSUME Given, NEW x \in Instances, NEW slot \in Nat,
         NEW m \in Nat, m = code[x.i].mite, slot + m <= BlockEntries, slot < BlockEntries
  PROVE  /\ EntriesOf(x, slot) \in Seq(Entries)
         /\ Len(EntriesOf(x, slot)) = (IF m = 0 THEN 1 ELSE m)
<1> DEFINE c == code[x.i]
           entry == [slot |-> slot, inst |-> x, k |-> 0, ms |-> c.ms > 0, extra |-> FALSE]
           e(k) == [entry EXCEPT !.slot = @ + k - 1, !.k = k,
                                 !.ms = @ /\ k = c.mite,
                                 !.extra = c.extra /\ k = c.mite]
<1>1. m \in 0..4 /\ c.extra \in BOOLEAN
  BY CountTyped, InstanceFacts DEF Instr
<1>2. CASE m = 0
  <2>1. EntriesOf(x, slot) = <<entry>>
    BY <1>2 DEF EntriesOf
  <2>2. entry \in Entries
    BY DEF Entries, BlockEntries
  <2>3. PICK d \in Entries : d = entry
    BY <2>2
  <2> HIDE DEF entry
  <2>4. <<d>> \in Seq(Entries) /\ Len(<<d>>) = 1
    OBVIOUS
  <2> QED
    BY <1>2, <2>1, <2>3, <2>4
<1>3. CASE m # 0
  <2>1. EntriesOf(x, slot) = [k \in 1..m |-> e(k)]
    BY <1>3 DEF EntriesOf
  <2>2. \A k \in 1..m : e(k) \in Entries
    <3> TAKE k \in 1..m
    <3>2. slot + (k - 1) \in 0..BlockEntries - 1 /\ k \in 0..4
      BY <1>1 DEF BlockEntries
    <3>3. PICK b1 \in BOOLEAN, b2 \in BOOLEAN : b1 = (entry.ms /\ k = c.mite) /\ b2 = (c.extra /\ k = c.mite)
      OBVIOUS
    <3>a. e(k) = [entry EXCEPT !.slot = entry.slot + k - 1, !.k = k, !.ms = b1, !.extra = b2]
      BY <3>3
    <3>4. e(k) = [slot |-> slot + (k - 1), inst |-> x, k |-> k, ms |-> b1, extra |-> b2]
      <4> HIDE DEF e
      <4> QED
        BY <3>a
    <3>5. [slot |-> slot + (k - 1), inst |-> x, k |-> k, ms |-> b1, extra |-> b2] \in Entries
      BY <3>2 DEF Entries
    <3> QED
      BY <3>4, <3>5
  <2> HIDE DEF e
  <2>3. [k \in 1..m |-> e(k)] \in [1..m -> Entries]
    BY <2>2
  <2>4. PICK f \in [1..m -> Entries] : f = EntriesOf(x, slot)
    BY <2>1, <2>3
  <2>5. f \in Seq(Entries) /\ Len(f) = m
    OBVIOUS
  <2> QED
    BY <1>3, <2>4, <2>5
<1> QED
  BY <1>2, <1>3

LEMMA GreaterOf ==
  ASSUME NEW a \in Nat, NEW b \in Nat
  PROVE  Max({a, b}) \in Nat /\ Max({a, b}) = (IF a > b THEN a ELSE b)
<1>1. PICK n \in Nat : n >= a /\ n >= b
  OBVIOUS
<1>2. {a, b} \in SUBSET (0..n) /\ {a, b} # {}
  BY <1>1
<1>3. Max({a, b}) \in {a, b} /\ \A y \in {a, b} : y <= Max({a, b})
  BY <1>2, MaxIs
<1> QED
  BY <1>3

LEMMA LesserOf ==
  ASSUME NEW a \in Nat, NEW b \in Nat
  PROVE  Min({a, b}) \in Nat /\ Min({a, b}) = (IF a < b THEN a ELSE b)
<1>1. {a, b} \in SUBSET Nat /\ {a, b} # {}
  OBVIOUS
<1>2. Min({a, b}) \in {a, b} /\ \A y \in {a, b} : Min({a, b}) <= y
  BY <1>1, MinIs
<1> QED
  BY <1>2

LEMMA PutDecodedTyped ==
  ASSUME Given, NEW acc \in Filling, NEW x \in Instances
  PROVE  PutDecoded(acc, x) \in Filling /\ PutDecoded(acc, x).blocks # <<>>
<1> DEFINE c == code[x.i]
<1>1. PICK m \in 0..4, s \in Nat, extra \in BOOLEAN : m = c.mite /\ s = c.ms /\ extra = c.extra
  BY CountTyped, InstanceFacts DEF Instr
<1>2. PICK e \in 0..1 : e = IF extra THEN 1 ELSE 0
  OBVIOUS
<1>3. PICK w \in 1..4 : w = Max({1, m}) /\ w = IF m = 0 THEN 1 ELSE m
  <2>1. Max({1, m}) = (IF 1 > m THEN 1 ELSE m)
    BY GreaterOf
  <2> QED
    BY <2>1
<1>4. PICK room \in 0..6, bl \in EntryBlocks : room = acc.room /\ bl = acc.blocks
  BY DEF Filling, BlockEntries
<1>5. IF bl = <<>> THEN room = 0 ELSE Len(bl[Len(bl)]) + room <= 6
  BY <1>4 DEF Filling, BlockEntries
<1>6. PICK fresh \in BOOLEAN : fresh <=> (s > 0 \/ w + e > room)
  OBVIOUS
<1>a. ~fresh => w + e <= room
  BY <1>6
<1>7. PICK b : b = IF fresh THEN Append(bl, <<>>) ELSE bl
  OBVIOUS
<1>8. b \in Seq(Seq(Entries)) /\ b # <<>>
      /\ (\A j \in 1..Len(b) - 1 : b[j] \in EntryLists)
      /\ Len(b[Len(b)]) = (IF fresh THEN 0 ELSE Len(bl[Len(bl)]))
  <2>1. bl \in Seq(Seq(Entries)) /\ \A j \in 1..Len(bl) : bl[j] \in EntryLists
    BY DEF EntryBlocks, EntryLists
  <2>2. CASE fresh
    <3>1. <<>> \in Seq(Entries)
      OBVIOUS
    <3>2. /\ b \in Seq(Seq(Entries)) /\ b # <<>> /\ Len(b) = Len(bl) + 1
          /\ \A j \in 1..Len(bl) : b[j] = bl[j]
          /\ b[Len(bl) + 1] = <<>>
      BY <1>7, <2>1, <2>2, <3>1, AppendProperties
    <3>3. Len(b) - 1 = Len(bl)
      BY <2>1, <3>2
    <3> QED
      BY <2>1, <2>2, <3>2, <3>3
  <2>3. CASE ~fresh
    <3>1. bl # <<>>
      BY <1>5, <1>a, <2>3
    <3>2. Len(bl) \in Nat
      BY <2>1
    <3> QED
      BY <1>7, <2>1, <2>3, <3>1, <3>2
  <2> QED
    BY <2>2, <2>3
<1>9. PICK n \in Nat \ {0} : n = Len(b)
  BY <1>8, EmptySeq
<1>10. PICK last \in Seq(Entries) : last = b[n]
  BY <1>8, <1>9
<1>11. PICK l \in Nat : l = Len(last) /\ l + w + e <= 6 /\ (~fresh => l + room <= 6) /\ (fresh => l = 0)
  <2>1. Len(last) \in Nat
    OBVIOUS
  <2>2. CASE fresh
    BY <1>8, <1>9, <1>10, <2>1, <2>2
  <2>3. CASE ~fresh
    <3>1. w + e <= room /\ bl # <<>>
      BY <1>5, <1>a, <2>3
    <3>2. Len(last) + room <= 6
      BY <1>5, <1>8, <1>9, <1>10, <2>3, <3>1
    <3> QED
      BY <2>1, <2>3, <3>1, <3>2
  <2> QED
    BY <2>2, <2>3
<1>12. PICK new \in Seq(Entries) : new = EntriesOf(x, l) /\ Len(new) = w
  <2>a. m \in Nat /\ m <= w /\ w >= 1 /\ e >= 0
    BY <1>3
  <2>b. l + m <= 6 /\ l < 6
    BY <1>11, <2>a
  <2>1. l \in Nat /\ m \in Nat /\ m = code[x.i].mite /\ l + m <= BlockEntries /\ l < BlockEntries
    BY <1>1, <2>a, <2>b DEF BlockEntries
  <2>2. EntriesOf(x, l) \in Seq(Entries) /\ Len(EntriesOf(x, l)) = (IF m = 0 THEN 1 ELSE m)
    BY <2>1, EntriesOfTyped
  <2> QED
    BY <1>3, <2>2
<1>13. PICK put : put = [b EXCEPT ![n] = last \o new]
  OBVIOUS
<1>14. put \in EntryBlocks /\ put # <<>> /\ Len(put) = n /\ Len(put[n]) = l + w
  <2>1. last \o new \in Seq(Entries) /\ Len(last \o new) = l + w
    BY <1>11, <1>12
  <2>2. last \o new \in EntryLists
    BY <2>1 DEF EntryLists
  <2>3. PICK q \in EntryLists : q = last \o new
    BY <2>2
  <2>4. Len(put) = n /\ \A j \in 1..n : put[j] = IF j = n THEN q ELSE b[j]
    BY <1>8, <1>9, <1>13, <2>3, ExceptSeq
  <2>5. \A j \in 1..n : put[j] \in EntryLists
    <3> TAKE j \in 1..n
    <3>1. j # n => j \in 1..n - 1
      OBVIOUS
    <3> QED
      BY <1>8, <1>9, <2>4, <3>1
  <2>6. DOMAIN put = 1..n
    BY <1>8, <1>9, <1>13
  <2>7. put = [j \in 1..n |-> put[j]]
    BY <1>13, <2>6
  <2>8. put \in Seq(EntryLists)
    BY <2>5, <2>7
  <2> QED
    BY <2>1, <2>3, <2>4, <2>8 DEF EntryBlocks
<1>15. PICK left \in 0..6 : left = (IF s > 0 THEN 0 ELSE (IF fresh THEN BlockEntries ELSE room) - (w + e)) /\ l + w + left <= 6
  <2>1. CASE s > 0
    BY <1>11, <2>1
  <2>2. CASE ~(s > 0) /\ fresh
    <3>1. 6 - (w + e) \in 0..6 /\ l + w + (6 - (w + e)) <= 6
      BY <1>11, <2>2
    <3> QED
      BY <2>2, <3>1 DEF BlockEntries
  <2>3. CASE ~(s > 0) /\ ~fresh
    <3>1. w + e <= room
      BY <1>a, <2>3
    <3>2. room - (w + e) \in 0..6 /\ l + w + (room - (w + e)) <= 6
      BY <1>11, <2>3, <3>1
    <3> QED
      BY <2>3, <3>2
  <2> QED
    BY <2>1, <2>2, <2>3
<1>16. PutDecoded(acc, x) = [blocks |-> put, room |-> left]
  BY <1>1, <1>2, <1>3, <1>4, <1>6, <1>7, <1>9, <1>10, <1>11, <1>12, <1>13, <1>15 DEF PutDecoded
<1>17. [blocks |-> put, room |-> left] \in Filling
  BY <1>14, <1>15 DEF Filling, BlockEntries
<1> QED
  BY <1>14, <1>16, <1>17

PutDsb == [p \in Filling \X Instances |-> PutInDsbBlock(p[1], p[2])]

LEMMA DsbBlocksRun ==
  ASSUME Given, NEW block \in Seq(Instances)
  PROVE  RunsTo(FoldLeft(PutInDsbBlock, [blocks |-> <<>>, room |-> 0], block), Filling, PutDsb, [blocks |-> <<>>, room |-> 0], Len(block), block)
<1>1. PICK n \in Nat : n = Len(block)
  OBVIOUS
<1>2. block \in [1..n -> Instances] /\ DOMAIN block = 1..n
  BY <1>1
<1> DEFINE Works(it) == it = [s \in SUBSET (1..n) |->
                               IF s = {} THEN [blocks |-> <<>>, room |-> 0] ELSE PutInDsbBlock(it[s \ {Max(s)}], block[Max(s)])]
<1>3. FoldLeft(PutInDsbBlock, [blocks |-> <<>>, room |-> 0], block) = (CHOOSE it : Works(it))[1..n]
  BY <1>2 DEF FoldLeft, MapThenFoldSet
<1>4. PutDsb \in [Filling \X Instances -> Filling] /\ [blocks |-> <<>>, room |-> 0] \in Filling
  <2>1. [blocks |-> <<>>, room |-> 0] \in Filling
    BY DEF Filling, EntryBlocks, BlockEntries
  <2>2. \A a \in Filling : \A b \in Instances : PutInDsbBlock(a, b) \in Filling
    BY PutDecodedTyped DEF PutInDsbBlock
  <2> QED
    BY <2>1, <2>2 DEF PutDsb
<1>5. \A a \in Filling : \A b \in Instances : PutDsb[<<a, b>>] = PutInDsbBlock(a, b)
  BY DEF PutDsb
<1>6. PICK f : IsFold(f, Filling, Instances, PutDsb, [blocks |-> <<>>, room |-> 0], n, block)
  BY <1>2, <1>4, FoldValues
<1>7. Works(f)
  <2> DEFINE F == [s \in SUBSET (1..n) |-> IF s = {} THEN [blocks |-> <<>>, room |-> 0] ELSE PutInDsbBlock(f[s \ {Max(s)}], block[Max(s)])]
  <2>1. ASSUME NEW s \in SUBSET (1..n) PROVE f[s] = F[s]
    BY <1>5, <1>6 DEF IsFold
  <2>2. f = F
    BY <1>6, <2>1 DEF IsFold
  <2> QED
    BY <2>2
<1>8. PICK it : it = CHOOSE h : Works(h)
  OBVIOUS
<1>9. Works(it)
  BY <1>7, <1>8
<1>10. Folds(it, Filling, PutDsb, [blocks |-> <<>>, room |-> 0], n, block)
  <2>1. it[{}] = [blocks |-> <<>>, room |-> 0]
    BY <1>9
  <2>2. ASSUME NEW s \in SUBSET (1..n), s # {}, it[s \ {Max(s)}] \in Filling
        PROVE  it[s] = PutDsb[<<it[s \ {Max(s)}], block[Max(s)]>>]
    BY <1>5, <1>6, <1>9, <2>2 DEF IsFold
  <2> QED
    BY <2>1, <2>2 DEF Folds
<1> HIDE DEF Works
<1>11. RunsTo(it[1..n], Filling, PutDsb, [blocks |-> <<>>, room |-> 0], n, block)
  BY <1>2, <1>4, <1>10, FoldIsRun
<1> QED
  BY <1>1, <1>3, <1>8, <1>11

LEMMA DsbBlocksTyped ==
  ASSUME Given, NEW block \in Seq(Instances)
  PROVE  DsbBlocks(block) \in EntryBlocks
<1>1. PICK n \in Nat : n = Len(block)
  OBVIOUS
<1>2. PICK acc : acc = FoldLeft(PutInDsbBlock, [blocks |-> <<>>, room |-> 0], block)
  OBVIOUS
<1>3. PICK a : FoldRun(a, Filling, PutDsb, [blocks |-> <<>>, room |-> 0], n, block) /\ a[n] = acc
  BY <1>1, <1>2, DsbBlocksRun DEF RunsTo
<1>4. acc \in Filling
  BY <1>3 DEF FoldRun
<1>5. DsbBlocks(block) = acc.blocks
  BY <1>2 DEF DsbBlocks
<1> QED
  BY <1>4, <1>5 DEF Filling

-------------------------------------------------------------------------------
(* Adding cache blocks.                                                    *)

LEMMA CutTyped ==
  ASSUME Given, NEW insts \in Seq(Instances)
  PROVE  /\ Blocks(insts, DSBBlockSize) \in BlockLists
         /\ \A j \in DOMAIN Blocks(insts, DSBBlockSize) :
              Blocks(insts, DSBBlockSize)[j] \in Seq(Instances) \ {<<>>}
<1>1. DSBBlockSize \in Nat \ {0}
  BY DEF Given, Machine
<1>2. PICK b \in BlockLists : b = Blocks(insts, DSBBlockSize)
  BY <1>1, BlocksTyped
<1>3. \A j \in DOMAIN b : b[j] \in Seq(Instances) \ {<<>>}
  BY DEF BlockLists
<1> QED
  BY <1>2, <1>3

LEMMA DsbAddedTyped ==
  ASSUME Given, NEW insts \in Seq(Instances), NEW cached
  PROVE  DsbBlocksAdded(insts, cached) \in EntryBlocks
<1>1. PICK b \in BlockLists : b = Blocks(insts, DSBBlockSize)
  BY CutTyped
<1>2. PICK n \in Nat : n = Len(b) /\ DOMAIN b = 1..n
  BY DEF BlockLists
<1> DEFINE e(j) == IF Address(b[j][1]) \in cached THEN DsbBlocks(b[j]) ELSE <<>>
<1>3. \A j \in 1..n : e(j) \in EntryBlocks
  <2> TAKE j \in 1..n
  <2>1. b[j] \in Seq(Instances)
    BY <1>1, <1>2, CutTyped
  <2>2. <<>> \in EntryBlocks
    BY DEF EntryBlocks
  <2> QED
    BY <2>1, <2>2, DsbBlocksTyped
<1>4. DsbBlocksAdded(insts, cached) = FlattenSeq([j \in 1..n |-> e(j)])
  BY <1>1, <1>2 DEF DsbBlocksAdded
<1> HIDE DEF e
<1>5. [j \in 1..n |-> e(j)] \in Seq(Seq(EntryLists))
  <2>1. [j \in 1..n |-> e(j)] \in [1..n -> Seq(EntryLists)]
    BY <1>3 DEF EntryBlocks
  <2> QED
    BY <2>1
<1>6. FlattenSeq([j \in 1..n |-> e(j)]) \in Seq(EntryLists)
  BY <1>5, FlattenTyped
<1> QED
  BY <1>4, <1>6 DEF EntryBlocks

LEMMA FewTyped ==
  ASSUME NEW S, NEW c \in S, NEW d \in S
  PROVE  <<c>> \in Seq(S) /\ <<c, d>> \in Seq(S)
OBVIOUS

LEMMA B16Typed ==
  ASSUME Given, NEW block \in Seq(Instances)
  PROVE  B16Blocks(block) \in Seq(Seq(Instances))
<1>1. PICK b \in BlockLists : b = Blocks(block, 16)
  BY BlocksTyped
<1>2. PICK n \in Nat : n = Len(b) /\ DOMAIN b = 1..n
  BY DEF BlockLists
<1> DEFINE spills(x) == code[x.i].branch /\ (Address(x) % 16) + Size(x) > 16
           e(j) == IF spills(Last(b[j])) THEN <<b[j], <<>>>> ELSE <<b[j]>>
<1>3. \A j \in 1..n : e(j) \in Seq(Seq(Instances))
  <2> TAKE j \in 1..n
  <2>1. PICK c \in Seq(Instances) : c = b[j]
    BY <1>2 DEF BlockLists
  <2>a. <<>> \in Seq(Instances)
    OBVIOUS
  <2>2. PICK d \in Seq(Instances) : d = <<>>
    BY <2>a
  <2>3. <<c>> \in Seq(Seq(Instances)) /\ <<c, d>> \in Seq(Seq(Instances))
    BY FewTyped
  <2> QED
    BY <2>1, <2>2, <2>3
<1>4. B16Blocks(block) = FlattenSeq([j \in 1..n |-> e(j)])
  BY <1>1, <1>2 DEF B16Blocks
<1> HIDE DEF e
<1>5. [j \in 1..n |-> e(j)] \in Seq(Seq(Seq(Instances)))
  <2>1. [j \in 1..n |-> e(j)] \in [1..n -> Seq(Seq(Instances))]
    BY <1>3
  <2> QED
    BY <2>1
<1> QED
  BY <1>4, <1>5, FlattenTyped

LEMMA B16AddedTyped ==
  ASSUME Given, NEW insts \in Seq(Instances), NEW cached
  PROVE  B16BlocksAdded(insts, cached) \in Seq(Seq(Instances))
<1>1. PICK b \in BlockLists : b = Blocks(insts, DSBBlockSize)
  BY CutTyped
<1>2. PICK n \in Nat : n = Len(b) /\ DOMAIN b = 1..n
  BY DEF BlockLists
<1> DEFINE e(j) == IF Address(b[j][1]) \in cached THEN <<>> ELSE B16Blocks(b[j])
<1>3. \A j \in 1..n : e(j) \in Seq(Seq(Instances))
  <2> TAKE j \in 1..n
  <2>1. b[j] \in Seq(Instances)
    BY <1>1, <1>2, CutTyped
  <2>2. <<>> \in Seq(Seq(Instances))
    OBVIOUS
  <2> QED
    BY <2>1, <2>2, B16Typed
<1>4. B16BlocksAdded(insts, cached) = FlattenSeq([j \in 1..n |-> e(j)])
  BY <1>1, <1>2 DEF B16BlocksAdded
<1> HIDE DEF e
<1>5. [j \in 1..n |-> e(j)] \in Seq(Seq(Seq(Instances)))
  <2>1. [j \in 1..n |-> e(j)] \in [1..n -> Seq(Seq(Instances))]
    BY <1>3
  <2> QED
    BY <2>1
<1> QED
  BY <1>4, <1>5, FlattenTyped

QueueStates == [dsbQueue : EntryBlocks, b16Queue : Seq(Seq(Instances)), at : Instances]

LEMMA AddBlocksTyped ==
  ASSUME Given, NEW q \in QueueStates, NEW cached
  PROVE  AddBlocks(q, cached) \in QueueStates
<1>1. PICK insts \in Seq(Instances) : insts = Generated(q.at)
  BY GeneratedTyped DEF QueueStates
<1>2. DsbBlocksAdded(insts, cached) \in Seq(EntryLists)
  BY DsbAddedTyped DEF EntryBlocks
<1>3. q.dsbQueue \o DsbBlocksAdded(insts, cached) \in EntryBlocks
  BY <1>2 DEF QueueStates, EntryBlocks
<1>4. B16BlocksAdded(insts, cached) \in Seq(Seq(Instances))
  BY B16AddedTyped
<1>5. q.b16Queue \o B16BlocksAdded(insts, cached) \in Seq(Seq(Instances))
  BY <1>4 DEF QueueStates
<1>6. Advanced(q.at, insts) \in Instances
  BY AdvancedTyped DEF QueueStates
<1>7. AddBlocks(q, cached) = [dsbQueue |-> q.dsbQueue \o DsbBlocksAdded(insts, cached),
                             b16Queue |-> q.b16Queue \o B16BlocksAdded(insts, cached),
                             at |-> Advanced(q.at, insts)]
  BY <1>1 DEF AddBlocks
<1> QED
  BY <1>3, <1>5, <1>6, <1>7 DEF QueueStates

RefillOne(q) ==
  IF Len(q.dsbQueue) < 2 /\ Len(q.b16Queue) < 4 THEN AddBlocks(q, addressesInDsb) ELSE q

Turns == Nat

Refill == [p \in QueueStates \X Turns |-> RefillOne(p[1])]

LEMMA RefilledRun ==
  ASSUME Given, Queues \in QueueStates, NEW turns \in Seq(Turns)
  PROVE  RunsTo(FoldLeft(LAMBDA q, k: IF Len(q.dsbQueue) < 2 /\ Len(q.b16Queue) < 4
                        THEN AddBlocks(q, addressesInDsb) ELSE q,
           Queues, turns), QueueStates, Refill, Queues, Len(turns), turns)
<1>1. PICK n \in Nat : n = Len(turns)
  OBVIOUS
<1>2. turns \in [1..n -> Turns] /\ DOMAIN turns = 1..n
  BY <1>1
<1> DEFINE Works(it) == it = [s \in SUBSET (1..n) |->
                               IF s = {} THEN Queues ELSE RefillOne(it[s \ {Max(s)}])]
<1>3. FoldLeft(LAMBDA q, k: IF Len(q.dsbQueue) < 2 /\ Len(q.b16Queue) < 4
                        THEN AddBlocks(q, addressesInDsb) ELSE q,
           Queues, turns) = (CHOOSE it : Works(it))[1..n]
  BY <1>2 DEF RefillOne, FoldLeft, MapThenFoldSet
<1>4. Refill \in [QueueStates \X Turns -> QueueStates] /\ Queues \in QueueStates
  <2>1. \A a \in QueueStates : RefillOne(a) \in QueueStates
    BY AddBlocksTyped DEF RefillOne
  <2> QED
    BY <2>1 DEF Refill
<1>5. \A a \in QueueStates : \A b \in Turns : Refill[<<a, b>>] = RefillOne(a)
  BY DEF Refill
<1>6. PICK f : IsFold(f, QueueStates, Turns, Refill, Queues, n, turns)
  BY <1>2, <1>4, FoldValues
<1>7. Works(f)
  <2> DEFINE F == [s \in SUBSET (1..n) |-> IF s = {} THEN Queues ELSE RefillOne(f[s \ {Max(s)}])]
  <2>1. ASSUME NEW s \in SUBSET (1..n) PROVE f[s] = F[s]
    BY <1>5, <1>6 DEF IsFold
  <2>2. f = F
    BY <1>6, <2>1 DEF IsFold
  <2> QED
    BY <2>2
<1>8. PICK it : it = CHOOSE h : Works(h)
  OBVIOUS
<1>9. Works(it)
  BY <1>7, <1>8
<1>10. Folds(it, QueueStates, Refill, Queues, n, turns)
  <2>1. it[{}] = Queues
    BY <1>9
  <2>2. ASSUME NEW s \in SUBSET (1..n), s # {}, it[s \ {Max(s)}] \in QueueStates
        PROVE  it[s] = Refill[<<it[s \ {Max(s)}], turns[Max(s)]>>]
    <3>1. turns[Max(s)] \in Turns
      BY <1>6, <2>2 DEF IsFold
    <3>2. it[s] = RefillOne(it[s \ {Max(s)}])
      BY <1>9, <2>2
    <3> HIDE DEF Works
    <3> QED
      BY <1>5, <2>2, <3>1, <3>2
  <2> QED
    BY <2>1, <2>2 DEF Folds
<1> HIDE DEF Works
<1>11. RunsTo(it[1..n], QueueStates, Refill, Queues, n, turns)
  BY <1>2, <1>4, <1>10, FoldIsRun
<1> QED
  BY <1>1, <1>3, <1>8, <1>11

LEMMA RefilledTyped ==
  ASSUME Given, Queues \in QueueStates
  PROVE  Refilled \in QueueStates
<1>1. <<1, 2, 3, 4>> \in Seq(Nat) /\ Len(<<1, 2, 3, 4>>) = 4
  OBVIOUS
<1>2. PICK t \in Seq(Turns) : t = <<1, 2, 3, 4>> /\ Len(t) = 4
  BY <1>1 DEF Turns
<1>3. RunsTo(Refilled, QueueStates, Refill, Queues, 4, t)
  BY <1>2, RefilledRun DEF Refilled
<1> QED
  BY <1>3 DEF RunsTo, FoldRun

-------------------------------------------------------------------------------
(* Into the decode queue.                                                  *)

Offsets   == {o \in Int : o <= MaxRSPOffset}
PutStates == [idq : Seq(Uops), offset : Offsets]

LEMMA PutUopTyped ==
  ASSUME Given, NEW acc \in PutStates, NEW u \in Uops
  PROVE  PutUop(acc, u) \in PutStates
<1>1. PICK q \in Seq(Uops), o \in Offsets : q = acc.idq /\ o = acc.offset
  BY DEF PutStates
<1>2. code[u.i] \in Instr
  BY CodeFacts DEF Uops
<1>3. PICK d \in Int : d = code[u.i].rspDelta
  BY <1>2 DEF Instr
<1>4. MaxRSPOffset \in Nat
  BY DEF Given, Machine
<1>5. PICK changed \in Int : changed = ChangedOffset(o, u)
  BY <1>3 DEF ChangedOffset, Offsets
<1> DEFINE exceeds == changed > MaxRSPOffset
           synced  == u.k = 1 /\ (ReadsPending(o, u) \/ exceeds)
           put == IF synced THEN <<[u EXCEPT !.k = 0], u>> ELSE <<u>>
           offset == IF u.k # 1 THEN o ELSE IF exceeds \/ code[u.i].rspDef THEN 0 ELSE changed
<1>6. PutUop(acc, u) = [idq |-> q \o put, offset |-> offset]
  BY <1>1, <1>5 DEF PutUop
<1>7. put \in Seq(Uops)
  <2>1. PICK v \in Uops : v = [u EXCEPT !.k = 0]
    BY DEF Uops
  <2>2. <<u>> \in Seq(Uops) /\ <<v, u>> \in Seq(Uops)
    BY FewTyped
  <2> QED
    BY <2>1, <2>2
<1>8. offset \in Offsets
  BY <1>4 DEF Offsets
<1> HIDE DEF put, offset
<1>9. q \o put \in Seq(Uops)
  BY <1>7
<1> QED
  BY <1>6, <1>8, <1>9 DEF PutStates

Put == [p \in PutStates \X Uops |-> PutUop(p[1], p[2])]

LEMMA PutUopsRun ==
  ASSUME Given, NEW queue \in Seq(Uops), NEW o \in Offsets, NEW uops \in Seq(Uops)
  PROVE  RunsTo(FoldLeft(PutUop, [idq |-> queue, offset |-> o], uops), PutStates, Put, [idq |-> queue, offset |-> o], Len(uops), uops)
<1>1. PICK n \in Nat : n = Len(uops)
  OBVIOUS
<1>2. uops \in [1..n -> Uops] /\ DOMAIN uops = 1..n
  BY <1>1
<1> DEFINE Works(it) == it = [s \in SUBSET (1..n) |->
                               IF s = {} THEN [idq |-> queue, offset |-> o] ELSE PutUop(it[s \ {Max(s)}], uops[Max(s)])]
<1>3. FoldLeft(PutUop, [idq |-> queue, offset |-> o], uops) = (CHOOSE it : Works(it))[1..n]
  BY <1>2 DEF FoldLeft, MapThenFoldSet
<1>4. Put \in [PutStates \X Uops -> PutStates] /\ [idq |-> queue, offset |-> o] \in PutStates
  <2>1. [idq |-> queue, offset |-> o] \in PutStates
    BY DEF PutStates
  <2>2. \A a \in PutStates : \A b \in Uops : PutUop(a, b) \in PutStates
    BY PutUopTyped
  <2> QED
    BY <2>1, <2>2 DEF Put
<1>5. \A a \in PutStates : \A b \in Uops : Put[<<a, b>>] = PutUop(a, b)
  BY DEF Put
<1>6. PICK f : IsFold(f, PutStates, Uops, Put, [idq |-> queue, offset |-> o], n, uops)
  BY <1>2, <1>4, FoldValues
<1>7. Works(f)
  <2> DEFINE F == [s \in SUBSET (1..n) |-> IF s = {} THEN [idq |-> queue, offset |-> o] ELSE PutUop(f[s \ {Max(s)}], uops[Max(s)])]
  <2>1. ASSUME NEW s \in SUBSET (1..n) PROVE f[s] = F[s]
    BY <1>5, <1>6 DEF IsFold
  <2>2. f = F
    BY <1>6, <2>1 DEF IsFold
  <2> QED
    BY <2>2
<1>8. PICK it : it = CHOOSE h : Works(h)
  OBVIOUS
<1>9. Works(it)
  BY <1>7, <1>8
<1>10. Folds(it, PutStates, Put, [idq |-> queue, offset |-> o], n, uops)
  <2>1. it[{}] = [idq |-> queue, offset |-> o]
    BY <1>9
  <2>2. ASSUME NEW s \in SUBSET (1..n), s # {}, it[s \ {Max(s)}] \in PutStates
        PROVE  it[s] = Put[<<it[s \ {Max(s)}], uops[Max(s)]>>]
    BY <1>5, <1>6, <1>9, <2>2 DEF IsFold
  <2> QED
    BY <2>1, <2>2 DEF Folds
<1> HIDE DEF Works
<1>11. RunsTo(it[1..n], PutStates, Put, [idq |-> queue, offset |-> o], n, uops)
  BY <1>2, <1>4, <1>10, FoldIsRun
<1> QED
  BY <1>1, <1>3, <1>8, <1>11

LEMMA PutUopsTyped ==
  ASSUME Given, NEW queue \in Seq(Uops), NEW o \in Offsets, NEW uops \in Seq(Uops)
  PROVE  FoldLeft(PutUop, [idq |-> queue, offset |-> o], uops) \in PutStates
<1>1. PICK n \in Nat : n = Len(uops)
  OBVIOUS
<1>2. PICK v : v = FoldLeft(PutUop, [idq |-> queue, offset |-> o], uops)
  OBVIOUS
<1>3. PICK a : FoldRun(a, PutStates, Put, [idq |-> queue, offset |-> o], n, uops) /\ a[n] = v
  BY <1>1, <1>2, PutUopsRun DEF RunsTo
<1>4. v \in PutStates
  BY <1>3 DEF FoldRun
<1> QED
  BY <1>2, <1>4

FillStates == [idq : Seq(Uops), offset : Offsets, at : Instances]

(* The simple front end adds a cache line.                                 *)
AddLine(f) ==
  LET line == Generated(f.at)
      put  == FoldLeft(PutUop, [idq |-> f.idq, offset |-> f.offset], UopsOf(line))
  IN [idq |-> put.idq, offset |-> put.offset, at |-> Advanced(f.at, line)]

LineAdded(f) == IF Len(f.idq) < IssueWidth THEN AddLine(f) ELSE f

LEMMA LineAddedTyped ==
  ASSUME Given, NEW f \in FillStates
  PROVE  LineAdded(f) \in FillStates
<1>1. PICK q \in Seq(Uops), o \in Offsets, x \in Instances : q = f.idq /\ o = f.offset /\ x = f.at
  BY DEF FillStates
<1>2. PICK line \in Seq(Instances) : line = Generated(x)
  BY GeneratedTyped
<1>3. PICK put \in PutStates : put = FoldLeft(PutUop, [idq |-> q, offset |-> o], UopsOf(line))
  <2>1. UopsOf(line) \in Seq(Uops)
    BY UopsOfTyped
  <2> QED
    BY <2>1, PutUopsTyped
<1>4. AddLine(f) = [idq |-> put.idq, offset |-> put.offset, at |-> Advanced(x, line)]
  BY <1>1, <1>2, <1>3 DEF AddLine
<1>5. Advanced(x, line) \in Instances
  BY AdvancedTyped
<1>6. AddLine(f) \in FillStates
  BY <1>4, <1>5 DEF FillStates, PutStates
<1> QED
  BY <1>6 DEF LineAdded

FillLine == [p \in FillStates \X Turns |-> LineAdded(p[1])]

LEMMA FilledRun ==
  ASSUME Given, NEW queue \in Seq(Uops), NEW o \in Offsets, NEW x \in Instances, NEW turns \in Seq(Turns)
  PROVE  RunsTo(FoldLeft(LAMBDA f, k: IF Len(f.idq) < IssueWidth THEN AddLine(f) ELSE f,
           [idq |-> queue, offset |-> o, at |-> x], turns), FillStates, FillLine, [idq |-> queue, offset |-> o, at |-> x], Len(turns), turns)
<1>1. PICK n \in Nat : n = Len(turns)
  OBVIOUS
<1>2. turns \in [1..n -> Turns] /\ DOMAIN turns = 1..n
  BY <1>1
<1> DEFINE Works(it) == it = [s \in SUBSET (1..n) |->
                               IF s = {} THEN [idq |-> queue, offset |-> o, at |-> x] ELSE LineAdded(it[s \ {Max(s)}])]
<1>3. FoldLeft(LAMBDA f, k: IF Len(f.idq) < IssueWidth THEN AddLine(f) ELSE f,
           [idq |-> queue, offset |-> o, at |-> x], turns) = (CHOOSE it : Works(it))[1..n]
  BY <1>2 DEF LineAdded, FoldLeft, MapThenFoldSet
<1>4. FillLine \in [FillStates \X Turns -> FillStates] /\ [idq |-> queue, offset |-> o, at |-> x] \in FillStates
  <2>1. [idq |-> queue, offset |-> o, at |-> x] \in FillStates
    BY DEF FillStates
  <2>2. \A a \in FillStates : LineAdded(a) \in FillStates
    BY LineAddedTyped
  <2> QED
    BY <2>1, <2>2 DEF FillLine
<1>5. \A a \in FillStates : \A b \in Turns : FillLine[<<a, b>>] = LineAdded(a)
  BY DEF FillLine
<1>6. PICK f : IsFold(f, FillStates, Turns, FillLine, [idq |-> queue, offset |-> o, at |-> x], n, turns)
  BY <1>2, <1>4, FoldValues
<1>7. Works(f)
  <2> DEFINE F == [s \in SUBSET (1..n) |-> IF s = {} THEN [idq |-> queue, offset |-> o, at |-> x] ELSE LineAdded(f[s \ {Max(s)}])]
  <2>1. ASSUME NEW s \in SUBSET (1..n) PROVE f[s] = F[s]
    BY <1>5, <1>6 DEF IsFold
  <2>2. f = F
    BY <1>6, <2>1 DEF IsFold
  <2> QED
    BY <2>2
<1>8. PICK it : it = CHOOSE h : Works(h)
  OBVIOUS
<1>9. Works(it)
  BY <1>7, <1>8
<1>10. Folds(it, FillStates, FillLine, [idq |-> queue, offset |-> o, at |-> x], n, turns)
  <2>1. it[{}] = [idq |-> queue, offset |-> o, at |-> x]
    BY <1>9
  <2>2. ASSUME NEW s \in SUBSET (1..n), s # {}, it[s \ {Max(s)}] \in FillStates
        PROVE  it[s] = FillLine[<<it[s \ {Max(s)}], turns[Max(s)]>>]
    <3>1. turns[Max(s)] \in Turns
      BY <1>6, <2>2 DEF IsFold
    <3>2. it[s] = LineAdded(it[s \ {Max(s)}])
      BY <1>9, <2>2
    <3> HIDE DEF Works
    <3> QED
      BY <1>5, <2>2, <3>1, <3>2
  <2> QED
    BY <2>1, <2>2 DEF Folds
<1> HIDE DEF Works
<1>11. RunsTo(it[1..n], FillStates, FillLine, [idq |-> queue, offset |-> o, at |-> x], n, turns)
  BY <1>2, <1>4, <1>10, FoldIsRun
<1> QED
  BY <1>1, <1>3, <1>8, <1>11

LEMMA FilledTyped ==
  ASSUME Given, NEW queue \in Seq(Uops), NEW o \in Offsets, NEW x \in Instances, NEW turns \in Seq(Turns)
  PROVE  FoldLeft(LAMBDA f, k: IF Len(f.idq) < IssueWidth THEN AddLine(f) ELSE f,
                  [idq |-> queue, offset |-> o, at |-> x], turns) \in FillStates
<1>1. PICK n \in Nat : n = Len(turns)
  OBVIOUS
<1>2. PICK v : v = FoldLeft(LAMBDA f, k: IF Len(f.idq) < IssueWidth THEN AddLine(f) ELSE f,
                            [idq |-> queue, offset |-> o, at |-> x], turns)
  OBVIOUS
<1>3. PICK a : FoldRun(a, FillStates, FillLine, [idq |-> queue, offset |-> o, at |-> x], n, turns) /\ a[n] = v
  BY <1>1, <1>2, FilledRun DEF RunsTo
<1>4. v \in FillStates
  BY <1>3 DEF FoldRun
<1> QED
  BY <1>2, <1>4

-------------------------------------------------------------------------------
(* The microcode sequencer and the DSB.                                    *)

MSStates == [queue : Seq(Uops), stalled : Nat, postStall : Nat]

LEMMA AddToMSTyped ==
  ASSUME Given, NEW m \in MSStates, NEW x \in Instances, NEW from
  PROVE  AddToMS(m, MSUops(x), from) \in MSStates
<1>1. PICK q \in Seq(Uops) : q = m.queue
  BY DEF MSStates
<1>2. PICK r \in Seq(Uops) : r = MSUops(x)
  BY LamUopsTyped
<1>3. q \o r \in Seq(Uops)
  OBVIOUS
<1>4. DSBMSStall \in Nat
  BY DEF Given, Machine
<1>5. AddToMS(m, MSUops(x), from) =
        [queue |-> q \o r, stalled |-> IF from = "MITE" THEN 1 ELSE DSBMSStall,
         postStall |-> IF from = "MITE" THEN 1 ELSE 0]
  BY <1>1, <1>2 DEF AddToMS
<1> QED
  BY <1>3, <1>4, <1>5 DEF MSStates

LEMMA MSCycleTyped ==
  ASSUME NEW m \in MSStates
  PROVE  /\ MSCycle(m).ms \in MSStates /\ MSCycle(m).uops \in Seq(Uops)
         /\ Len(MSCycle(m).uops) <= MSWidth
<1>1. PICK q \in Seq(Uops), st \in Nat, ps \in Nat : q = m.queue /\ st = m.stalled /\ ps = m.postStall
  BY DEF MSStates
<1>2. PICK l \in Nat : l = Len(q)
  OBVIOUS
<1>3. PICK n \in 0..4 : n <= l /\ n = IF st > 0 THEN 0 ELSE Min({MSWidth, l})
  <2>1. Min({4, l}) \in Nat /\ Min({4, l}) = (IF 4 < l THEN 4 ELSE l)
    BY LesserOf
  <2> QED
    BY <2>1 DEF MSWidth
<1>4. PICK rest \in Seq(Uops) : rest = SubSeq(q, n + 1, l)
  <2>1. SubSeq(q, n + 1, l) \in Seq(Uops)
    BY <1>2
  <2> QED
    BY <2>1
<1>5. PICK out \in Seq(Uops) : out = SubSeq(q, 1, n) /\ Len(out) = n
  <2>a. \A i \in 1..n : q[i] \in Uops
    BY <1>2, <1>3
  <2>1. SubSeq(q, 1, n) \in Seq(Uops) /\ Len(SubSeq(q, 1, n)) = n
    BY <2>a, SubSeqProperties
  <2> QED
    BY <2>1
<1>6. PICK stalled \in Nat : stalled = IF st > 0 THEN st - 1 ELSE IF rest = <<>> THEN ps ELSE st
  OBVIOUS
<1>7. MSCycle(m) = [ms |-> [m EXCEPT !.queue = rest, !.stalled = stalled], uops |-> out]
  BY <1>1, <1>2, <1>3, <1>4, <1>5, <1>6 DEF MSCycle
<1>8. [m EXCEPT !.queue = rest, !.stalled = stalled] \in MSStates
  BY DEF MSStates
<1> QED
  BY <1>5, <1>7, <1>8 DEF MSWidth

(* Dsb::cycle between two entries: what is delivered and the slots left    *)
(* are together no more than the width.                                    *)
ReadStates ==
  {s \in [queue : EntryBlocks, out : Seq(Entries), slots : Nat, second : BOOLEAN, ranOut : BOOLEAN,
          ms : MSStates, delayed : BOOLEAN, wasDelayed : BOOLEAN, started : BOOLEAN] :
     Len(s.out) + s.slots <= DSBWidth}

LEMMA SlotsBounded ==
  ASSUME NEW s, NEW entry, NEW slots \in Nat, NEW next, NEW delivered \in Nat,
         DSBWidth \in Nat, delivered + slots <= DSBWidth
  PROVE  /\ SlotsAfterBlock(s, entry, slots, next, delivered) \in Nat
         /\ delivered + SlotsAfterBlock(s, entry, slots, next, delivered) <= DSBWidth
<1> DEFINE after == SlotsAfterBlock(s, entry, slots, next, delivered)
           same == Address(next) \div DSBBlockSize = Address(entry.inst) \div DSBBlockSize
           last == LastDecoded(entry.inst)
<1> SUFFICES after \in Nat /\ delivered + after <= DSBWidth
  OBVIOUS
<1>0. Min({2, slots}) \in Nat /\ Min({2, slots}) <= slots
  <2>1. Min({2, slots}) \in Nat /\ Min({2, slots}) = (IF 2 < slots THEN 2 ELSE slots)
    BY LesserOf
  <2> QED
    BY <2>1
<1>1. CASE DSBWidth # 6
  <2>1. after = slots
    BY <1>1 DEF SlotsAfterBlock
  <2> QED
    BY <2>1
<1>2. CASE DSBWidth = 6 /\ same
  <2>1. after = IF DSBBlockSize = 32 /\ last /\ ~s.wasDelayed THEN 0 ELSE slots
    BY <1>2 DEF SlotsAfterBlock
  <2> QED
    BY <2>1
<1>3. CASE DSBWidth = 6 /\ ~same /\ s.started
  <2>1. after = CASE delivered \in 1..2 -> 4
                  [] delivered \in 3..4 -> 2
                  [] delivered = 5 -> 1
                  [] OTHER -> slots
    BY <1>3 DEF SlotsAfterBlock
  <2> HIDE DEF after
  <2>2. CASE delivered \in 1..2
    <3>1. after = 4
      BY <2>1, <2>2
    <3> QED
      BY <1>3, <2>2, <3>1
  <2>3. CASE delivered \in 3..4
    <3>1. after = 2
      BY <2>1, <2>3
    <3> QED
      BY <1>3, <2>3, <3>1
  <2>4. CASE delivered = 5
    <3>1. after = 1
      BY <2>1, <2>4
    <3> QED
      BY <1>3, <2>4, <3>1
  <2>5. CASE delivered \notin 1..2 /\ delivered \notin 3..4 /\ delivered # 5
    <3>1. after = slots
      BY <2>1, <2>5
    <3> QED
      BY <3>1
  <2> QED
    BY <2>2, <2>3, <2>4, <2>5
<1>4. CASE DSBWidth = 6 /\ ~same /\ ~s.started /\ last
  <2>1. after = IF delivered = 1 \/ (delivered = 2 /\ entry.slot >= 4)
                THEN 4 ELSE Min({2, slots})
    BY <1>4 DEF SlotsAfterBlock
  <2> HIDE DEF after
  <2>2. CASE delivered = 1 \/ (delivered = 2 /\ entry.slot >= 4)
    <3>1. after = 4 /\ delivered <= 2
      BY <2>1, <2>2
    <3> QED
      BY <1>4, <3>1
  <2>3. CASE ~(delivered = 1 \/ (delivered = 2 /\ entry.slot >= 4))
    <3>1. after = Min({2, slots})
      BY <2>1, <2>3
    <3> QED
      BY <1>0, <3>1
  <2> QED
    BY <2>2, <2>3
<1>5. CASE DSBWidth = 6 /\ ~same /\ ~s.started /\ ~last
  <2>1. after = slots
    BY <1>5 DEF SlotsAfterBlock
  <2> QED
    BY <2>1
<1> HIDE DEF after, same, last
<1> QED
  BY <1>1, <1>2, <1>3, <1>4, <1>5 DEF after

LEMMA DsbStepTyped ==
  ASSUME Given, NEW s \in ReadStates, ~DsbStops(s)
  PROVE  DsbStep(s) \in ReadStates
<1>1. PICK q \in EntryBlocks, o \in Seq(Entries), n \in Nat :
         q = s.queue /\ o = s.out /\ n = s.slots /\ Len(o) + n <= DSBWidth
  BY DEF ReadStates
<1>2. q # <<>> /\ n # 0
  BY <1>1 DEF DsbStops
<1>3. PICK b \in EntryLists : b = q[1]
  <2>1. Len(q) >= 1
    BY <1>2, EmptySeq DEF EntryBlocks
  <2> QED
    BY <2>1 DEF EntryBlocks
<1>4. b \in Seq(Entries) /\ b # <<>>
  BY DEF EntryLists
<1>5. PICK entry \in Entries : entry = b[1]
  <2>1. Len(b) >= 1
    BY <1>4, EmptySeq
  <2> QED
    BY <1>4, <2>1
<1>6. PICK rest \in Seq(Entries) : rest = Tail(b)
  BY <1>4, HeadTailProperties
<1>7. PICK queue \in EntryBlocks : queue = IF rest = <<>> THEN Tail(q) ELSE [q EXCEPT ![1] = rest]
  <2>1. CASE rest = <<>>
    <3>1. Tail(q) \in EntryBlocks
      BY <1>2, HeadTailProperties DEF EntryBlocks
    <3> QED
      BY <2>1, <3>1
  <2>2. CASE rest # <<>>
    <3>1. PICK r \in EntryLists : r = rest
      BY <2>2 DEF EntryLists
    <3>2. 1 \in 1..Len(q) /\ q \in Seq(EntryLists)
      BY <1>2, EmptySeq DEF EntryBlocks
    <3>3. [q EXCEPT ![1] = r] \in Seq(EntryLists)
      BY <3>2, ExceptSeq
    <3> QED
      BY <2>2, <3>1, <3>3 DEF EntryBlocks
  <2> QED
    BY <2>1, <2>2
<1>8. PICK out \in Seq(Entries) : out = (IF entry.k = 0 THEN o ELSE Append(o, entry))
                                 /\ Len(out) = (IF entry.k = 0 THEN Len(o) ELSE Len(o) + 1)
  <2>1. Append(o, entry) \in Seq(Entries) /\ Len(Append(o, entry)) = Len(o) + 1
    BY AppendProperties
  <2> QED
    BY <2>1
<1>9. PICK l \in Nat : l = Len(o)
  OBVIOUS
<1>10. PICK slots \in Nat : /\ slots = IF entry.ms \/ entry.extra THEN 0
                                       ELSE IF entry.k = 0 THEN n ELSE n - 1
                            /\ Len(out) + slots <= DSBWidth
  <2>0. DSBWidth \in Nat
    BY DEF Given, Machine
  <2>1. CASE entry.ms \/ entry.extra
    <3>1. Len(out) + 0 <= DSBWidth
      BY <1>1, <1>2, <1>8, <1>9, <2>0
    <3> QED
      BY <2>1, <3>1
  <2>2. CASE ~(entry.ms \/ entry.extra) /\ entry.k = 0
    BY <1>1, <1>8, <2>2
  <2>3. CASE ~(entry.ms \/ entry.extra) /\ entry.k # 0
    <3>1. n - 1 \in Nat /\ Len(out) + (n - 1) <= DSBWidth
      BY <1>1, <1>2, <1>8, <1>9, <2>0, <2>3
    <3> QED
      BY <2>3, <3>1
  <2> QED
    BY <2>1, <2>2, <2>3
<1> DEFINE paired == rest = <<>> /\ slots > 0 /\ queue # <<>>
           after == IF paired THEN SlotsAfterBlock(s, entry, slots, queue[1][1].inst, Len(out)) ELSE slots
<1>11. after \in Nat /\ Len(out) + after <= DSBWidth
  <2>1. DSBWidth \in Nat /\ Len(out) \in Nat
    BY DEF Given, Machine
  <2> QED
    BY <1>10, <2>1, SlotsBounded
<1>12. PICK left \in Nat : left = after /\ Len(out) + left <= DSBWidth
  BY <1>11
<1>13. PICK m \in MSStates : m = IF entry.ms THEN AddToMS(s.ms, MSUops(entry.inst), "DSB") ELSE s.ms
  <2>1. s.ms \in MSStates /\ entry.inst \in Instances
    BY DEF ReadStates, Entries
  <2>2. AddToMS(s.ms, MSUops(entry.inst), "DSB") \in MSStates
    BY <2>1, AddToMSTyped
  <2> QED
    BY <2>1, <2>2
<1>14. PICK second \in BOOLEAN, ranOut \in BOOLEAN, delayed \in BOOLEAN :
          /\ second = (s.second \/ s.ranOut) /\ ranOut = (rest = <<>>)
          /\ delayed = (s.delayed \/ entry.extra)
  OBVIOUS
<1>15. DsbStep(s) = [s EXCEPT !.queue = queue, !.out = out, !.slots = left, !.second = second,
                              !.ranOut = ranOut, !.delayed = delayed, !.ms = m]
  <2>1. DsbStep(s) = [s EXCEPT !.queue = queue, !.out = out, !.slots = after,
                               !.second = @ \/ s.ranOut, !.ranOut = rest = <<>>,
                               !.delayed = @ \/ entry.extra,
                               !.ms = IF entry.ms THEN AddToMS(@, MSUops(entry.inst), "DSB") ELSE @]
    BY <1>1, <1>3, <1>5, <1>6, <1>7, <1>8, <1>10 DEF DsbStep
  <2> HIDE DEF after
  <2> QED
    BY <1>12, <1>13, <1>14, <2>1
<1>16. [s EXCEPT !.queue = queue, !.out = out, !.slots = left, !.second = second,
                 !.ranOut = ranOut, !.delayed = delayed, !.ms = m] \in ReadStates
  <2>1. PICK t : t = [s EXCEPT !.queue = queue, !.out = out, !.slots = left, !.second = second,
                               !.ranOut = ranOut, !.delayed = delayed, !.ms = m]
    OBVIOUS
  <2>2. s \in [queue : EntryBlocks, out : Seq(Entries), slots : Nat, second : BOOLEAN, ranOut : BOOLEAN,
               ms : MSStates, delayed : BOOLEAN, wasDelayed : BOOLEAN, started : BOOLEAN]
    BY DEF ReadStates
  <2>3. t \in [queue : EntryBlocks, out : Seq(Entries), slots : Nat, second : BOOLEAN, ranOut : BOOLEAN,
               ms : MSStates, delayed : BOOLEAN, wasDelayed : BOOLEAN, started : BOOLEAN]
    BY <2>1, <2>2, ZenonT(30)
  <2>4. t.out = out /\ t.slots = left
    BY <2>1, <2>2
  <2>5. t \in ReadStates
    BY <1>12, <2>3, <2>4 DEF ReadStates
  <2> QED
    BY <2>1, <2>5
<1> QED
  BY <1>15, <1>16

Read == [p \in ReadStates \X Turns |-> IF DsbStops(p[1]) THEN p[1] ELSE DsbStep(p[1])]
ReadOne(s) == IF DsbStops(s) THEN s ELSE DsbStep(s)

LEMMA ReadRun ==
  ASSUME Given, NEW start \in ReadStates, NEW turns \in Seq(Turns)
  PROVE  RunsTo(FoldLeft(LAMBDA s, k: IF DsbStops(s) THEN s ELSE DsbStep(s), start, turns), ReadStates, Read, start, Len(turns), turns)
<1>1. PICK n \in Nat : n = Len(turns)
  OBVIOUS
<1>2. turns \in [1..n -> Turns] /\ DOMAIN turns = 1..n
  BY <1>1
<1> DEFINE Works(it) == it = [s \in SUBSET (1..n) |->
                               IF s = {} THEN start ELSE ReadOne(it[s \ {Max(s)}])]
<1>3. FoldLeft(LAMBDA s, k: IF DsbStops(s) THEN s ELSE DsbStep(s), start, turns) = (CHOOSE it : Works(it))[1..n]
  BY <1>2 DEF ReadOne, FoldLeft, MapThenFoldSet
<1>4. Read \in [ReadStates \X Turns -> ReadStates] /\ start \in ReadStates
  <2>1. \A a \in ReadStates : ReadOne(a) \in ReadStates
    BY DsbStepTyped DEF ReadOne
  <2> QED
    BY <2>1 DEF Read, ReadOne
<1>5. \A a \in ReadStates : \A b \in Turns : Read[<<a, b>>] = ReadOne(a)
  BY DEF Read, ReadOne
<1>6. PICK f : IsFold(f, ReadStates, Turns, Read, start, n, turns)
  BY <1>2, <1>4, FoldValues
<1>7. Works(f)
  <2> DEFINE F == [s \in SUBSET (1..n) |-> IF s = {} THEN start ELSE ReadOne(f[s \ {Max(s)}])]
  <2>1. ASSUME NEW s \in SUBSET (1..n) PROVE f[s] = F[s]
    BY <1>5, <1>6 DEF IsFold
  <2>2. f = F
    BY <1>6, <2>1 DEF IsFold
  <2> QED
    BY <2>2
<1>8. PICK it : it = CHOOSE h : Works(h)
  OBVIOUS
<1>9. Works(it)
  BY <1>7, <1>8
<1>10. Folds(it, ReadStates, Read, start, n, turns)
  <2>1. it[{}] = start
    BY <1>9
  <2>2. ASSUME NEW s \in SUBSET (1..n), s # {}, it[s \ {Max(s)}] \in ReadStates
        PROVE  it[s] = Read[<<it[s \ {Max(s)}], turns[Max(s)]>>]
    <3>1. turns[Max(s)] \in Turns
      BY <1>6, <2>2 DEF IsFold
    <3>2. it[s] = ReadOne(it[s \ {Max(s)}])
      BY <1>9, <2>2
    <3> HIDE DEF Works
    <3> QED
      BY <1>5, <2>2, <3>1, <3>2
  <2> QED
    BY <2>1, <2>2 DEF Folds
<1> HIDE DEF Works
<1>11. RunsTo(it[1..n], ReadStates, Read, start, n, turns)
  BY <1>2, <1>4, <1>10, FoldIsRun
<1> QED
  BY <1>1, <1>3, <1>8, <1>11

LEMMA DsbReadTyped ==
  ASSUME Given, NEW buffer \in [blockQueue : EntryBlocks, delayed : BOOLEAN], ms \in MSStates
  PROVE  DsbRead(buffer) \in ReadStates
<1> DEFINE start == [queue |-> buffer.blockQueue, out |-> <<>>, slots |-> DSBWidth,
                     second |-> FALSE, ranOut |-> FALSE, ms |-> ms,
                     delayed |-> buffer.blockQueue = <<>> /\ buffer.delayed,
                     wasDelayed |-> buffer.delayed,
                     started |-> buffer.blockQueue # <<>> /\ buffer.blockQueue[1][1].slot = 0]
<1>1. PICK st \in ReadStates : st = start
  <2>1. DSBWidth \in Nat
    BY DEF Given, Machine
  <2>2. <<>> \in Seq(Entries) /\ Len(<<>>) = 0
    OBVIOUS
  <2>3. PICK d \in BOOLEAN, w \in BOOLEAN, b \in BOOLEAN :
          /\ d = (buffer.blockQueue = <<>> /\ buffer.delayed) /\ w = buffer.delayed
          /\ b = (buffer.blockQueue # <<>> /\ buffer.blockQueue[1][1].slot = 0)
    OBVIOUS
  <2>4. start = [queue |-> buffer.blockQueue, out |-> <<>>, slots |-> DSBWidth,
                 second |-> FALSE, ranOut |-> FALSE, ms |-> ms,
                 delayed |-> d, wasDelayed |-> w, started |-> b]
    BY <2>3
  <2>5. start \in ReadStates
    <3> HIDE DEF start
    <3> QED
      BY <2>1, <2>2, <2>4 DEF ReadStates
  <2> QED
    BY <2>5
<1>2. PICK t \in Seq(Turns) : t = [n \in 1..2 * BlockEntries |-> n]
  <2>1. PICK l \in Nat : l = 2 * BlockEntries
    BY DEF BlockEntries
  <2>2. [n \in 1..l |-> n] \in [1..l -> Turns]
    BY DEF Turns
  <2>3. [n \in 1..l |-> n] \in Seq(Turns)
    BY <2>2
  <2> QED
    BY <2>1, <2>3
<1>3. DsbRead(buffer) = FoldLeft(LAMBDA s, k: IF DsbStops(s) THEN s ELSE DsbStep(s), st, t)
  BY <1>1, <1>2 DEF DsbRead
<1>4. PICK l \in Nat : l = Len(t)
  OBVIOUS
<1>5. PICK v : v = DsbRead(buffer)
  OBVIOUS
<1> HIDE DEF start
<1>6. PICK a : FoldRun(a, ReadStates, Read, st, l, t) /\ a[l] = v
  BY <1>3, <1>4, <1>5, ReadRun DEF RunsTo
<1>7. v \in ReadStates
  BY <1>6 DEF FoldRun
<1> QED
  BY <1>5, <1>7

-------------------------------------------------------------------------------
(* The predecoder and the decoders.                                        *)

PreDecoders ==
  [b16BlockQueue : Seq(Seq(Instances)), curBlock : Seq(Instances), nonStalled : Nat,
   preDecQueue : Seq(Instances), stalled : Nat, partial : {q \in Seq(Instances) : Len(q) <= 1}]

IQEntries == [inst : Instances, wait : 0..PredecodeDecodeDelay]

LEMMA Clipped ==
  ASSUME NEW z \in Int
  PROVE  Max({0, z}) \in Nat /\ Max({0, z}) = (IF z > 0 THEN z ELSE 0)
<1>1. \E x \in {0, z} : \A y \in {0, z} : x >= y
  OBVIOUS
<1>2. Max({0, z}) \in {0, z} /\ \A y \in {0, z} : Max({0, z}) >= y
  BY <1>1 DEF Max
<1> QED
  BY <1>2

LEMMA PartOf ==
  ASSUME NEW S, NEW s \in Seq(S), NEW m \in Nat \ {0}, NEW n \in Nat, n <= Len(s)
  PROVE  /\ SubSeq(s, m, n) \in Seq(S)
         /\ Len(SubSeq(s, m, n)) = IF m <= n THEN n - m + 1 ELSE 0
         /\ \A i \in 1..(n - m) + 1 : SubSeq(s, m, n)[i] = s[(m + i) - 1]
<1>1. \A i \in m..n : s[i] \in S
  OBVIOUS
<1> QED
  BY <1>1, SubSeqProperties

LEMMA TakePartialTyped ==
  ASSUME NEW p \in PreDecoders
  PROVE  /\ TakePartial(p) \in PreDecoders
         /\ TakePartial(p).stalled = p.stalled /\ TakePartial(p).b16BlockQueue = p.b16BlockQueue
         /\ TakePartial(p).curBlock = p.curBlock
         /\ p.preDecQueue = <<>> => Len(TakePartial(p).preDecQueue) <= 1
<1>1. PICK q \in Seq(Instances), r \in Seq(Instances) : q = p.preDecQueue /\ r = p.partial /\ Len(r) <= 1
  BY DEF PreDecoders
<1>2. PICK s \in Seq(Instances) : s = q \o r /\ (q = <<>> => Len(s) <= 1)
  <2>1. q \o r \in Seq(Instances)
    OBVIOUS
  <2>2. q = <<>> => q \o r = r
    BY ConcatEmptySeq
  <2> QED
    BY <1>1, <2>1, <2>2
<1>3. PICK e \in {c \in Seq(Instances) : Len(c) <= 1} : e = <<>>
  <2>1. <<>> \in Seq(Instances) /\ Len(<<>>) <= 1
    OBVIOUS
  <2> QED
    BY <2>1
<1>4. TakePartial(p) = [p EXCEPT !.preDecQueue = s, !.partial = e]
  BY <1>1, <1>2, <1>3 DEF TakePartial
<1> QED
  BY <1>1, <1>2, <1>4 DEF PreDecoders

LEMMA LoadBlockTyped ==
  ASSUME Given, NEW p \in PreDecoders, B16PerBlock <= Len(p.b16BlockQueue)
  PROVE  LoadBlock(p) \in PreDecoders /\ LoadBlock(p).preDecQueue = p.preDecQueue
<1>1. PICK q \in Seq(Seq(Instances)), k \in Nat : q = p.b16BlockQueue /\ k = p.nonStalled
  BY DEF PreDecoders
<1>2. PICK w \in {1, 2} : w = B16PerBlock
  BY DEF Given, Machine, B16PerBlock
<1>3. PICK block \in Seq(Instances) : block = FlattenSeq(SubSeq(q, 1, w))
  <2>1. SubSeq(q, 1, w) \in Seq(Seq(Instances))
    BY <1>1, <1>2, PartOf
  <2> QED
    BY <2>1, FlattenTyped
<1>4. PICK left \in Seq(Seq(Instances)) : left = SubSeq(q, w + 1, Len(q))
  <2>1. SubSeq(q, w + 1, Len(q)) \in Seq(Seq(Instances))
    BY <1>2, PartOf
  <2> QED
    BY <2>1
<1>5. PICK lcps \in Nat : lcps = Cardinality({j \in DOMAIN block : code[block[j].i].lcp})
  <2>1. PICK n \in Nat : n = Len(block) /\ DOMAIN block = 1..n
    OBVIOUS
  <2>2. IsFiniteSet(1..n)
    BY FS_Interval
  <2>3. IsFiniteSet({j \in 1..n : code[block[j].i].lcp})
    BY <2>2, FS_Subset
  <2> QED
    BY <2>1, <2>3, FS_CardinalityType
<1>6. PICK stalled \in Nat : stalled = Max({0, 3 * lcps - Max({0, k - 1})})
  <2>1. PICK m \in Nat : m = Max({0, k - 1})
    BY Clipped
  <2>2. 3 * lcps - m \in Int
    OBVIOUS
  <2>3. Max({0, 3 * lcps - m}) \in Nat
    BY <2>2, Clipped
  <2> QED
    BY <2>1, <2>3
<1>7. LoadBlock(p) = [p EXCEPT !.b16BlockQueue = left, !.curBlock = block, !.nonStalled = 0,
                               !.stalled = stalled]
  BY <1>1, <1>2, <1>3, <1>4, <1>5, <1>6 DEF LoadBlock
<1>8. /\ left \in Seq(Seq(Instances)) /\ block \in Seq(Instances)
      /\ 0 \in Nat /\ stalled \in Nat
  BY <1>3, <1>4, <1>6
<1>9. [p EXCEPT !.b16BlockQueue = left, !.curBlock = block, !.nonStalled = 0,
                !.stalled = stalled] \in PreDecoders
  BY <1>8 DEF PreDecoders
<1>10. [p EXCEPT !.b16BlockQueue = left, !.curBlock = block, !.nonStalled = 0,
                 !.stalled = stalled].preDecQueue = p.preDecQueue
  BY DEF PreDecoders
<1> QED
  BY <1>7, <1>9, <1>10

LEMMA TakeGroupTyped ==
  ASSUME Given, NEW p \in PreDecoders, Len(p.preDecQueue) <= 1
  PROVE  /\ TakeGroup(p) \in PreDecoders /\ Len(TakeGroup(p).preDecQueue) <= PredecodeWidth
         /\ TakeGroup(p).stalled = p.stalled
<1>1. PICK q \in Seq(Instances), c \in Seq(Instances), k \in Nat, part \in Seq(Instances) :
         q = p.preDecQueue /\ c = p.curBlock /\ k = p.nonStalled /\ part = p.partial /\ Len(part) <= 1
  BY DEF PreDecoders
<1>2. PICK w \in Nat \ {0} : w = PredecodeWidth
  BY DEF Given, Machine
<1>3. PICK ql \in Nat, l \in Nat : ql = Len(q) /\ l = Len(c) /\ ql <= 1
  <2>1. Len(q) \in Nat /\ Len(c) \in Nat /\ Len(q) <= 1
    BY <1>1
  <2> QED
    BY <2>1
<1>4. PICK room \in Nat : room = w - ql
  <2>1. w - ql \in Nat
    BY <1>2, <1>3
  <2> QED
    BY <2>1
<1> DEFINE W == {n \in 0..l : \A j \in 1..n : ~Crosses(c[j])}
<1>5. PICK whole \in 0..l : whole = Max(W)
  <2>1. W \in SUBSET (0..l) /\ 0 \in W
    OBVIOUS
  <2>2. Max(W) \in W
    <3> HIDE DEF W
    <3> QED
      BY <2>1, MaxIs
  <2> QED
    BY <2>2
<1>6. PICK n \in Nat : n = Min({room, whole}) /\ n <= room /\ n <= l
  <2>1. whole \in Nat
    BY <1>5
  <2>2. Min({room, whole}) \in Nat /\ Min({room, whole}) <= room /\ Min({room, whole}) <= whole
    BY <1>4, <2>1, LesserOf
  <2>3. PICK m \in Nat : m = Min({room, whole}) /\ m <= room /\ m <= whole
    BY <2>2
  <2>4. m <= l
    BY <1>3, <1>5, <2>3
  <2> QED
    BY <2>3, <2>4
<1>7. PICK rest \in Seq(Instances) : rest = SubSeq(c, n + 1, l)
  <2>1. SubSeq(c, n + 1, l) \in Seq(Instances)
    BY <1>3, PartOf
  <2> QED
    BY <2>1
<1>8. PICK took \in Seq(Instances) : took = SubSeq(c, 1, n) /\ Len(took) = n
  <2>1. n <= Len(c) /\ 1 \in Nat \ {0}
    BY <1>3, <1>6
  <2>2. PICK one \in Nat \ {0} : one = 1
    OBVIOUS
  <2>3. /\ SubSeq(c, one, n) \in Seq(Instances)
        /\ Len(SubSeq(c, one, n)) = (IF one <= n THEN n - one + 1 ELSE 0)
    BY <2>1, PartOf
  <2>4. Len(SubSeq(c, 1, n)) = n
    BY <1>6, <2>2, <2>3
  <2> QED
    BY <2>2, <2>3, <2>4
<1>9. PICK begins \in BOOLEAN :
         begins <=> (/\ Len(rest) = 1 /\ Crosses(rest[1])
                   /\ \/ n < room
                      \/ (Address(rest[1]) % 16) + code[rest[1].i].opcode >= 16)
  OBVIOUS
<1>10. begins => Len(rest) <= 1
  BY <1>9
<1>11. PICK new \in Seq(Instances) : new = q \o took /\ Len(new) <= w
  <2>1. q \o took \in Seq(Instances) /\ Len(q \o took) = ql + n
    BY <1>3, <1>8, ConcatProperties
  <2>2. ql + n <= w
    BY <1>3, <1>4, <1>6
  <2> QED
    BY <2>1, <2>2
<1>12. PICK part2 \in Seq(Instances) : part2 = (IF begins THEN rest ELSE part) /\ Len(part2) <= 1
  BY <1>1, <1>7, <1>10
<1>13. PICK cur \in Seq(Instances) : cur = IF begins THEN <<>> ELSE rest
  <2>1. <<>> \in Seq(Instances)
    OBVIOUS
  <2> QED
    BY <2>1
<1>14. TakeGroup(p) = [p EXCEPT !.preDecQueue = new, !.partial = part2, !.curBlock = cur,
                                !.nonStalled = k + 1]
  <2>1. TakeGroup(p) = [p EXCEPT !.preDecQueue = @ \o SubSeq(p.curBlock, 1, n),
               !.partial  = IF (/\ Len(rest) = 1 /\ Crosses(rest[1])
                   /\ \/ n < room
                      \/ (Address(rest[1]) % 16) + code[rest[1].i].opcode >= 16) THEN rest ELSE @,
               !.curBlock = IF (/\ Len(rest) = 1 /\ Crosses(rest[1])
                   /\ \/ n < room
                      \/ (Address(rest[1]) % 16) + code[rest[1].i].opcode >= 16) THEN <<>> ELSE rest,
               !.nonStalled = @ + 1]
    BY <1>1, <1>2, <1>3, <1>4, <1>5, <1>6, <1>7, <1>8 DEF TakeGroup
  <2> QED
    BY <1>1, <1>8, <1>9, <1>11, <1>12, <1>13, <2>1
<1> DEFINE g == [p EXCEPT !.preDecQueue = new, !.partial = part2, !.curBlock = cur,
                          !.nonStalled = k + 1]
<1>15. part2 \in {r \in Seq(Instances) : Len(r) <= 1} /\ k + 1 \in Nat
  BY <1>1, <1>12
<1>16. g \in PreDecoders
  BY <1>11, <1>13, <1>15 DEF PreDecoders
<1>17. g.preDecQueue = new /\ g.stalled = p.stalled
  BY DEF PreDecoders
<1> HIDE DEF g
<1>18. TakeGroup(p) = g
  BY <1>14 DEF g
<1> QED
  BY <1>2, <1>11, <1>16, <1>17, <1>18

LEMMA PreDecodeTyped ==
  ASSUME Given, NEW p \in PreDecoders, NEW queue \in Seq(IQEntries),
         Len(queue) + Len(p.preDecQueue) <= IQWidth
  PROVE  /\ PreDecode(p, queue).predecoder \in PreDecoders
         /\ PreDecode(p, queue).iq \in Seq(IQEntries)
         /\ Len(PreDecode(p, queue).iq) + Len(PreDecode(p, queue).predecoder.preDecQueue) <= IQWidth
<1> DEFINE pre == PreDecode(p, queue)
           taken == TakePartial(p)
           starved == p.curBlock = <<>> /\ Len(p.b16BlockQueue) < B16PerBlock
           filled == IF ~CanPreDecode(p, queue) THEN p
                     ELSE TakeGroup(IF p.curBlock = <<>> THEN LoadBlock(taken) ELSE taken)
           queued == [j \in DOMAIN filled.preDecQueue |->
                        [inst |-> filled.preDecQueue[j], wait |-> PredecodeDecodeDelay]]
<1> SUFFICES /\ pre.predecoder \in PreDecoders /\ pre.iq \in Seq(IQEntries)
             /\ Len(pre.iq) + Len(pre.predecoder.preDecQueue) <= IQWidth
  OBVIOUS
<1>1. PICK w \in Nat \ {0}, iw \in Nat, l \in Nat : w = PredecodeWidth /\ iw = IQWidth /\ l = Len(queue)
  <2>1. PredecodeWidth \in Nat \ {0} /\ IQWidth \in Nat
    BY DEF Given, Machine
  <2>2. Len(queue) \in Nat
    OBVIOUS
  <2> QED
    BY <2>1, <2>2
<1>2. p.stalled \in Nat /\ p.preDecQueue \in Seq(Instances)
  BY DEF PreDecoders
<1>3. CASE p.stalled > 0
  <2>1. pre = [predecoder |-> [p EXCEPT !.stalled = @ - 1], iq |-> queue]
    BY <1>3 DEF PreDecode
  <2>2. PICK st \in Nat : st = p.stalled - 1
    BY <1>2, <1>3
  <2>3. [p EXCEPT !.stalled = st] \in PreDecoders /\ [p EXCEPT !.stalled = st].preDecQueue = p.preDecQueue
    BY DEF PreDecoders
  <2> HIDE DEF pre
  <2>4. pre = [predecoder |-> [p EXCEPT !.stalled = st], iq |-> queue]
    BY <2>1, <2>2
  <2> QED
    BY <2>3, <2>4
<1>4. CASE p.stalled = 0 /\ CanPreDecode(p, queue) /\ starved
  <2>1. pre = [predecoder |-> taken, iq |-> queue]
    BY <1>4 DEF PreDecode
  <2>2. p.preDecQueue = <<>> /\ l + w <= iw
    BY <1>1, <1>4 DEF CanPreDecode
  <2>3. taken \in PreDecoders /\ Len(taken.preDecQueue) <= 1
    BY <2>2, TakePartialTyped
  <2>4. PICK q \in Seq(Instances), ql \in Nat : q = taken.preDecQueue /\ ql = Len(q)
    BY <2>3 DEF PreDecoders
  <2>5. l + ql <= iw
    BY <1>1, <2>2, <2>3, <2>4
  <2> HIDE DEF pre, taken
  <2> QED
    BY <1>1, <2>1, <2>3, <2>4, <2>5
<1>5. CASE ~(p.stalled > 0) /\ ~(p.stalled = 0 /\ CanPreDecode(p, queue) /\ starved)
  <2>1. pre = IF filled.stalled > 0
              THEN [predecoder |-> [filled EXCEPT !.stalled = @ - 1], iq |-> queue]
              ELSE [predecoder |-> [filled EXCEPT !.preDecQueue = <<>>], iq |-> queue \o queued]
    BY <1>5 DEF PreDecode
  <2>2. filled \in PreDecoders /\ Len(queue) + Len(filled.preDecQueue) <= iw
    <3>1. CASE ~CanPreDecode(p, queue)
      BY <1>1, <3>1
    <3>2. CASE CanPreDecode(p, queue)
      <4>1. p.preDecQueue = <<>> /\ l + w <= iw /\ ~starved
        BY <1>1, <1>2, <1>5, <3>2 DEF CanPreDecode
      <4>2. taken \in PreDecoders /\ Len(taken.preDecQueue) <= 1
        BY <4>1, TakePartialTyped
      <4>3. PICK group \in PreDecoders : group = (IF p.curBlock = <<>> THEN LoadBlock(taken) ELSE taken)
                                        /\ Len(group.preDecQueue) <= 1
        <5>1. CASE p.curBlock = <<>>
          <6>1. B16PerBlock <= Len(taken.b16BlockQueue)
            <7>1. PICK a \in Nat, b \in {1, 2} : a = Len(p.b16BlockQueue) /\ b = B16PerBlock
              BY DEF PreDecoders, Given, Machine, B16PerBlock
            <7>2. ~(a < b)
              BY <4>1, <5>1, <7>1
            <7>3. taken.b16BlockQueue = p.b16BlockQueue
              BY TakePartialTyped
            <7> HIDE DEF taken
            <7> QED
              BY <7>1, <7>2, <7>3
          <6> HIDE DEF taken
          <6>2. LoadBlock(taken) \in PreDecoders /\ LoadBlock(taken).preDecQueue = taken.preDecQueue
            BY <4>2, <6>1, LoadBlockTyped
          <6> QED
            BY <4>2, <5>1, <6>2
        <5>2. CASE p.curBlock # <<>>
          BY <4>2, <5>2
        <5> QED
          BY <5>1, <5>2
      <4>4. filled = TakeGroup(group)
        BY <3>2, <4>3
      <4>5. TakeGroup(group) \in PreDecoders /\ Len(TakeGroup(group).preDecQueue) <= w
        BY <1>1, <4>3, TakeGroupTyped
      <4>6. PICK ql \in Nat : ql = Len(TakeGroup(group).preDecQueue)
        BY <4>5 DEF PreDecoders
      <4>7. l + ql <= iw
        BY <4>1, <4>5, <4>6
      <4> HIDE DEF filled
      <4> QED
        BY <1>1, <4>4, <4>5, <4>6, <4>7
    <3> QED
      BY <3>1, <3>2
  <2>3. PICK f \in PreDecoders : f = filled /\ Len(queue) + Len(f.preDecQueue) <= iw
    BY <2>2
  <2>4. PICK fq \in Seq(Instances), n \in Nat : fq = f.preDecQueue /\ n = Len(fq)
    BY DEF PreDecoders
  <2>5. PICK qd \in Seq(IQEntries) : qd = queued /\ Len(qd) = n
    <3>1. queued = [j \in 1..n |-> [inst |-> fq[j], wait |-> PredecodeDecodeDelay]]
      BY <2>3, <2>4
    <3>2. PredecodeDecodeDelay \in 0..PredecodeDecodeDelay
      BY DEF Given, Machine
    <3>3. \A j \in 1..n : [inst |-> fq[j], wait |-> PredecodeDecodeDelay] \in IQEntries
      BY <2>4, <3>2 DEF IQEntries
    <3>4. PICK g \in [1..n -> IQEntries] : g = [j \in 1..n |-> [inst |-> fq[j], wait |-> PredecodeDecodeDelay]]
      BY <3>3
    <3>5. g \in Seq(IQEntries) /\ Len(g) = n
      OBVIOUS
    <3> HIDE DEF queued
    <3> QED
      BY <3>1, <3>4, <3>5
  <2> HIDE DEF filled, queued, pre
  <2>6. CASE f.stalled > 0
    <3>1. PICK st \in Nat : st = f.stalled - 1
      BY <2>6, SMTT(20) DEF PreDecoders
    <3>2. [f EXCEPT !.stalled = st] \in PreDecoders /\ [f EXCEPT !.stalled = st].preDecQueue = fq
      BY <2>4 DEF PreDecoders
    <3>3. pre = [predecoder |-> [f EXCEPT !.stalled = st], iq |-> queue]
      BY <2>1, <2>3, <2>6, <3>1
    <3> QED
      BY <1>1, <2>3, <2>4, <3>2, <3>3
  <2>7. CASE ~(f.stalled > 0)
    <3>1. PICK e \in Seq(Instances) : e = <<>> /\ Len(e) = 0
      <4>1. <<>> \in Seq(Instances) /\ Len(<<>>) = 0
        OBVIOUS
      <4> QED
        BY <4>1
    <3>2. [f EXCEPT !.preDecQueue = e] \in PreDecoders /\ [f EXCEPT !.preDecQueue = e].preDecQueue = e
      BY DEF PreDecoders
    <3>3. pre = [predecoder |-> [f EXCEPT !.preDecQueue = e], iq |-> queue \o qd]
      BY <2>1, <2>3, <2>5, <2>7, <3>1
    <3>4. queue \o qd \in Seq(IQEntries) /\ Len(queue \o qd) = l + n
      BY <1>1, <2>5, ConcatProperties
    <3>5. l + n + 0 <= iw
      BY <1>1, <2>3, <2>4
    <3> QED
      BY <1>1, <3>1, <3>2, <3>3, <3>4, <3>5
  <2> QED
    BY <2>6, <2>7
<1> QED
  BY <1>2, <1>3, <1>4, <1>5

LEMMA AgedTyped ==
  ASSUME Given, NEW queue \in Seq(IQEntries)
  PROVE  Aged(queue) \in Seq(IQEntries) /\ Len(Aged(queue)) = Len(queue)
<1>1. PICK n \in Nat, d \in Nat : n = Len(queue) /\ d = PredecodeDecodeDelay
  BY DEF Given, Machine
<1>2. ASSUME NEW j \in 1..n PROVE [queue[j] EXCEPT !.wait = Max({0, @ - 1})] \in IQEntries
  <2>1. PICK x \in Instances, w \in 0..d : queue[j] = [inst |-> x, wait |-> w]
    <3>1. queue[j] \in IQEntries
      BY <1>1
    <3> QED
      BY <1>1, <3>1 DEF IQEntries
  <2>2. PICK v \in Nat : v = Max({0, w - 1}) /\ v = (IF w - 1 > 0 THEN w - 1 ELSE 0)
    BY Clipped
  <2>3. v \in 0..d
    BY <1>1, <2>1, <2>2
  <2>4. [queue[j] EXCEPT !.wait = Max({0, @ - 1})] = [inst |-> x, wait |-> v]
    BY <2>1, <2>2
  <2> QED
    BY <1>1, <2>3, <2>4 DEF IQEntries
<1>3. PICK g \in [1..n -> IQEntries] : g = [j \in 1..n |-> [queue[j] EXCEPT !.wait = Max({0, @ - 1})]]
  BY <1>2
<1>4. Aged(queue) = g
  BY <1>1, <1>3 DEF Aged
<1> QED
  BY <1>1, <1>4

LEMMA GroupTyped ==
  ASSUME NEW queue \in Seq(IQEntries)
  PROVE  /\ GroupLength(queue) \in 0..Len(queue)
         /\ \A j \in DecodedAmong(queue, GroupLength(queue)) : ~NotYet(queue, j)
         /\ \A j \in DecodedAmong(queue, GroupLength(queue) - 1) : ~EndsGroup(queue, j)
<1>1. PICK l \in Nat : l = Len(queue)
  OBVIOUS
<1> DEFINE W == {n \in 0..l :
                   /\ \A j \in DecodedAmong(queue, n) : ~NotYet(queue, j)
                   /\ \A j \in DecodedAmong(queue, n - 1) : ~EndsGroup(queue, j)}
<1>2. W \in SUBSET (0..l) /\ 0 \in W
  BY DEF DecodedAmong
<1>3. Max(W) \in W
  <2> HIDE DEF W
  <2> QED
    BY <1>1, <1>2, MaxIs
<1>4. GroupLength(queue) = Max(W)
  BY <1>1 DEF GroupLength
<1> QED
  BY <1>1, <1>3, <1>4

LEMMA DecodedTyped ==
  ASSUME NEW queue \in Seq(IQEntries)
  PROVE  Decoded(queue) \in Seq(IQEntries) /\ Len(Decoded(queue)) <= Len(queue)
<1>1. PICK n \in Nat, l \in Nat : n = GroupLength(queue) /\ l = Len(queue) /\ n <= l
  BY GroupTyped
<1>2. PICK m \in Nat \ {0} : m = n + 1
  OBVIOUS
<1>3. /\ SubSeq(queue, m, l) \in Seq(IQEntries)
      /\ Len(SubSeq(queue, m, l)) = IF m <= l THEN l - m + 1 ELSE 0
  BY <1>1, PartOf
<1> QED
  BY <1>1, <1>2, <1>3 DEF Decoded

(* What the decoders keep of the places of a group.                        *)
Unfused(queue, j) == IF FusedWithPrev(queue[j].inst) THEN <<>> ELSE <<queue[j].inst>>

LEMMA DecodedGroupTyped ==
  ASSUME NEW queue \in Seq(IQEntries)
  PROVE  DecodedGroup(queue) \in Seq(Instances)
<1>1. PICK n \in Nat, l \in Nat : n = GroupLength(queue) /\ l = Len(queue) /\ n <= l
  BY GroupTyped
<1>2. ASSUME NEW j \in 1..n PROVE Unfused(queue, j) \in Seq(Instances)
  <2>1. PICK x \in Instances : x = queue[j].inst
    <3>1. queue[j] \in IQEntries
      BY <1>1
    <3> QED
      BY <3>1 DEF IQEntries
  <2>2. <<x>> \in Seq(Instances) /\ <<>> \in Seq(Instances)
    BY FewTyped
  <2> QED
    BY <2>1, <2>2 DEF Unfused
<1>3. PICK g \in [1..n -> Seq(Instances)] : g = [j \in 1..n |-> Unfused(queue, j)]
  BY <1>2
<1>4. g \in Seq(Seq(Instances))
  OBVIOUS
<1>5. DecodedGroup(queue) = FlattenSeq(g)
  BY <1>1, <1>3 DEF DecodedGroup, Unfused
<1> QED
  BY <1>4, <1>5, FlattenTyped

LEMMA GroupUopsTyped ==
  ASSUME Given, NEW insts \in Seq(Instances)
  PROVE  FlattenSeq([j \in DOMAIN insts |-> MiteUops(insts[j])]) \in Seq(Uops)
<1>1. PICK n \in Nat : n = Len(insts) /\ DOMAIN insts = 1..n
  OBVIOUS
<1>2. ASSUME NEW j \in 1..n PROVE MiteUops(insts[j]) \in Seq(Uops)
  BY <1>1, LamUopsTyped
<1>3. PICK g \in [1..n -> Seq(Uops)] : g = [j \in 1..n |-> MiteUops(insts[j])]
  BY <1>2
<1>4. g \in Seq(Seq(Uops))
  OBVIOUS
<1> QED
  BY <1>1, <1>3, <1>4, FlattenTyped

-------------------------------------------------------------------------------
(* Type correctness.                                                       *)

(* What holds of the variables between cycles: the types, more closely     *)
(* than TypeOK states them, and the width of the instruction queue.        *)
FrontInv ==
  /\ SetUp
  /\ predecoder \in PreDecoders /\ iq \in Seq(IQEntries) /\ IQWithinWidth
  /\ dsb \in [blockQueue : EntryBlocks, delayed : BOOLEAN] /\ ms \in MSStates
  /\ addressesInDsb \subseteq Nat /\ source \in {"none", "MITE", "DSB", "LSD"}
  /\ nextInst \in Instances /\ idq \in Seq(Uops) /\ rspOffset \in Offsets
  /\ expected \in Uops /\ clock \in 0..1

LEMMA FrontInvTyped ==
  ASSUME FrontInv
  PROVE  TypeOK
<1>1. predecoder.b16BlockQueue \in Seq(Seq(Instances))
      /\ predecoder.curBlock \in Seq(Instances) /\ predecoder.preDecQueue \in Seq(Instances)
      /\ predecoder.partial \in Seq(Instances) /\ Len(predecoder.partial) <= 1
      /\ predecoder.nonStalled \in Nat /\ predecoder.stalled \in Nat
  BY DEF FrontInv, PreDecoders
<1>2. PreDecoderTypeOK
  BY <1>1 DEF FrontInv, PreDecoderTypeOK, IQEntries
<1>3. DsbTypeOK
  <2>1. PICK q \in EntryBlocks : q = dsb.blockQueue
    BY DEF FrontInv
  <2>2. q \in Seq(Seq(Entries))
    BY DEF EntryBlocks, EntryLists
  <2>3. dsb.delayed \in BOOLEAN /\ ms \in MSStates
    BY DEF FrontInv
  <2> QED
    BY <2>1, <2>2, <2>3 DEF DsbTypeOK, MSStates
<1> QED
  BY <1>2, <1>3 DEF FrontInv, TypeOK, Offsets

LEMMA StartFacts ==
  ASSUME Given
  PROVE  /\ Origin \in Instances /\ FirstUopFrom(Origin) \in Uops
         /\ CacheableAddresses \subseteq Nat /\ LSDUnrollCount \in Nat \ {0}
         /\ \A r \in Nat : LSDUops(r) \in Seq(Uops)
<1>1. Origin \in Instances
  BY CodeFacts DEF Origin, Instances
<1>2. FirstUopFrom(Origin) \in Uops
  BY <1>1, OrderTyped
<1>3. Round(0) \in Seq(Instances) /\ 0 \in 0..Rounds - 1
  BY CodeFacts, RoundTyped
<1>4. CacheableAddresses \subseteq Nat
  <2>1. Blocks(Round(0), DSBBlockSize) \in BlockLists
    BY <1>3, CutTyped
  <2>2. ASSUME NEW block \in FirstRoundBlocks, NEW x \in ToSet(block) PROVE Address(x) \in Nat
    <3>1. block \in Seq(Instances)
      BY <2>1 DEF FirstRoundBlocks, ToSet, BlockLists
    <3>2. x \in Instances
      BY <3>1 DEF ToSet
    <3> QED
      BY <3>2, AddressTyped
  <2> QED
    BY <2>2 DEF CacheableAddresses
<1>5. PICK count \in Nat \ {0} : count = LSDUnrollCount
  BY DEF Given, Machine, LSDUnrollCount
<1>6. ASSUME NEW r \in Nat PROVE LSDUops(r) \in Seq(Uops)
  <2>1. ASSUME NEW j \in 1..count PROVE UopsOf(Round((r + j - 1) % Rounds)) \in Seq(Uops)
    <3>1. PICK m \in 0..Rounds - 1 : m = (r + j - 1) % Rounds
      BY CodeFacts
    <3> QED
      BY <3>1, RoundTyped, UopsOfTyped
  <2>2. PICK g \in [1..count -> Seq(Uops)] : g = [j \in 1..count |-> UopsOf(Round((r + j - 1) % Rounds))]
    BY <2>1
  <2>3. g \in Seq(Seq(Uops))
    OBVIOUS
  <2> QED
    BY <1>5, <2>2, <2>3, FlattenTyped DEF LSDUops
<1> QED
  BY <1>1, <1>2, <1>4, <1>5, <1>6

LEMMA QueuesTyped ==
  ASSUME FrontInv
  PROVE  /\ Given /\ Queues \in QueueStates
         /\ Refilled \in QueueStates
         /\ RefilledPreDecoder \in PreDecoders
         /\ RefilledPreDecoder.preDecQueue = predecoder.preDecQueue
         /\ RefilledDsb \in [blockQueue : EntryBlocks, delayed : BOOLEAN]
<1>1. Given
  BY SetUpGiven DEF FrontInv
<1>2. Queues \in QueueStates
  <2>1. /\ predecoder \in PreDecoders /\ nextInst \in Instances
        /\ dsb \in [blockQueue : EntryBlocks, delayed : BOOLEAN]
    BY DEF FrontInv
  <2>2. /\ predecoder.b16BlockQueue \in Seq(Seq(Instances))
        /\ dsb.blockQueue \in EntryBlocks
    BY <2>1 DEF PreDecoders
  <2> QED
    BY <2>1, <2>2 DEF Queues, QueueStates
<1>3. PICK r \in QueueStates : r = Refilled
  BY <1>1, <1>2, RefilledTyped
<1>4. r.dsbQueue \in EntryBlocks /\ r.b16Queue \in Seq(Seq(Instances))
  BY DEF QueueStates
<1>5. RefilledPreDecoder \in PreDecoders /\ RefilledPreDecoder.preDecQueue = predecoder.preDecQueue
  BY <1>3, <1>4 DEF RefilledPreDecoder, PreDecoders, FrontInv
<1>6. RefilledDsb \in [blockQueue : EntryBlocks, delayed : BOOLEAN]
  BY <1>3, <1>4 DEF RefilledDsb, FrontInv
<1> QED
  BY <1>1, <1>2, <1>3, <1>5, <1>6

LEMMA DeliverTyped ==
  ASSUME Given, rspOffset \in Offsets, NEW queue \in Seq(Uops), NEW uops \in Seq(Uops),
         Deliver(queue, uops)
  PROVE  idq' \in Seq(Uops) /\ rspOffset' \in Offsets
<1>1. PICK put \in PutStates : put = PutUops(queue, uops)
  BY PutUopsTyped DEF PutUops
<1> QED
  BY <1>1 DEF Deliver, PutStates

(* What the sources leave of the types, whichever fills the decode queue.  *)
Filled ==
  /\ predecoder' \in PreDecoders /\ iq' \in Seq(IQEntries) /\ IQWithinWidth'
  /\ dsb' \in [blockQueue : EntryBlocks, delayed : BOOLEAN] /\ ms' \in MSStates
  /\ source' \in {"none", "MITE", "DSB", "LSD"}
  /\ nextInst' \in Instances /\ idq' \in Seq(Uops) /\ rspOffset' \in Offsets

(* The other sources keep what the predecoder has cut, so nothing comes    *)
(* into the instruction queue.                                             *)
LEMMA IQKept ==
  ASSUME FrontInv, UNCHANGED <<arch, code>>,
         iq' = Aged(iq), predecoder'.preDecQueue = predecoder.preDecQueue
  PROVE  iq' \in Seq(IQEntries) /\ IQWithinWidth'
<1>1. Given /\ iq \in Seq(IQEntries)
  BY SetUpGiven DEF FrontInv
<1>2. Aged(iq) \in Seq(IQEntries) /\ Len(Aged(iq)) = Len(iq)
  BY <1>1, AgedTyped
<1>3. IQWidth' = IQWidth
  BY DEF IQWidth
<1> QED
  BY <1>2, <1>3 DEF IQWithinWidth, FrontInv

LEMMA FullFilled ==
  ASSUME FrontInv, UNCHANGED <<arch, code>>, NEW queue \in Seq(Uops), Full(queue)
  PROVE  Filled
<1>1. iq' \in Seq(IQEntries) /\ IQWithinWidth'
  BY IQKept DEF Full
<1> QED
  BY <1>1 DEF Full, Filled, FrontInv

LEMMA SimpleFillFilled ==
  ASSUME FrontInv, UNCHANGED <<arch, code>>, NEW queue \in Seq(Uops), SimpleFill(queue)
  PROVE  Filled
<1>1. Given /\ rspOffset \in Offsets /\ nextInst \in Instances
  BY SetUpGiven DEF FrontInv
<1>2. PICK w \in Nat \ {0} : w = IssueWidth
  BY <1>1 DEF Given, Machine
<1>3. PICK turns \in Seq(Turns) : turns = [n \in 1..2 * w |-> n]
  <2>1. [n \in 1..2 * w |-> n] \in [1..2 * w -> Turns]
    BY DEF Turns
  <2>2. PICK g \in [1..2 * w -> Turns] : g = [n \in 1..2 * w |-> n]
    BY <2>1
  <2>3. g \in Seq(Turns)
    OBVIOUS
  <2> QED
    BY <2>2, <2>3
<1>4. PICK fill \in FillStates :
         fill = FoldLeft(LAMBDA f, k: IF Len(f.idq) < IssueWidth THEN AddLine(f) ELSE f,
                         [idq |-> queue, offset |-> rspOffset, at |-> nextInst], turns)
  BY <1>1, FilledTyped
<1>5. idq' = fill.idq /\ rspOffset' = fill.offset /\ nextInst' = fill.at
  BY <1>2, <1>3, <1>4 DEF SimpleFill, AddLine
<1>6. UNCHANGED <<queueVars, source>>
  BY DEF SimpleFill
<1>7. IQWithinWidth'
  BY <1>6 DEF IQWithinWidth, IQWidth, FrontInv, queueVars
<1> QED
  BY <1>5, <1>6, <1>7 DEF Filled, FrontInv, FillStates, queueVars

LEMMA LSDFillFilled ==
  ASSUME FrontInv, UNCHANGED <<arch, code>>, NEW queue \in Seq(Uops), LSDFill(queue)
  PROVE  Filled
<1>1. Given /\ nextInst \in Instances
  BY SetUpGiven DEF FrontInv
<1>2. PICK r \in 0..Rounds - 1, i \in 1..Len(code), count \in Nat \ {0} :
         nextInst = [rnd |-> r, i |-> i] /\ count = LSDUnrollCount
  BY <1>1, InstanceFacts, StartFacts
<1>3. LSDUops(r) \in Seq(Uops)
  BY <1>1, <1>2, CodeFacts, StartFacts
<1>4. [nextInst EXCEPT !.rnd = (@ + count) % Rounds] \in Instances
  <2>1. PICK s \in 0..Rounds - 1 : s = (r + count) % Rounds
    BY <1>1, CodeFacts
  <2>2. [nextInst EXCEPT !.rnd = (@ + count) % Rounds] = [rnd |-> s, i |-> i]
    BY <1>2, <2>1
  <2> QED
    BY <1>1, <2>2, CodeFacts DEF Instances
<1>5. idq' \in Seq(Uops) /\ nextInst' \in Instances
  BY <1>1, <1>2, <1>3, <1>4 DEF LSDFill
<1>6. UNCHANGED <<queueVars, source, rspOffset>>
  BY DEF LSDFill
<1>7. IQWithinWidth'
  BY <1>6 DEF IQWithinWidth, IQWidth, FrontInv, queueVars
<1> QED
  BY <1>5, <1>6, <1>7 DEF Filled, FrontInv, queueVars

LEMMA MSFillFilled ==
  ASSUME FrontInv, UNCHANGED <<arch, code>>, NEW queue \in Seq(Uops), MSFill(queue)
  PROVE  Filled
<1>1. Given /\ rspOffset \in Offsets /\ ms \in MSStates
  BY SetUpGiven DEF FrontInv
<1>2. MSCycle(ms).ms \in MSStates /\ MSCycle(ms).uops \in Seq(Uops)
  BY <1>1, MSCycleTyped
<1>3. idq' \in Seq(Uops) /\ rspOffset' \in Offsets
  BY <1>1, <1>2, DeliverTyped DEF MSFill
<1>4. /\ predecoder' \in PreDecoders /\ predecoder'.preDecQueue = predecoder.preDecQueue
      /\ dsb' \in [blockQueue : EntryBlocks, delayed : BOOLEAN] /\ nextInst' \in Instances
  BY QueuesTyped DEF MSFill, QueueStates
<1>5. iq' \in Seq(IQEntries) /\ IQWithinWidth'
  BY <1>4, IQKept DEF MSFill
<1> QED
  BY <1>2, <1>3, <1>4, <1>5 DEF Filled, MSFill, FrontInv

LEMMA MITEFillFilled ==
  ASSUME FrontInv, UNCHANGED <<arch, code>>, NEW queue \in Seq(Uops), MITEFill(queue)
  PROVE  Filled
<1> DEFINE pre == PreDecode(RefilledPreDecoder, Aged(iq))
           decoded == DecodedGroup(pre.iq)
<1>1. Given /\ rspOffset \in Offsets /\ ms \in MSStates /\ iq \in Seq(IQEntries)
  BY SetUpGiven DEF FrontInv
<1>2. PICK aged \in Seq(IQEntries) : aged = Aged(iq) /\ Len(aged) = Len(iq)
  BY <1>1, AgedTyped
<1>3. PICK p \in PreDecoders : p = RefilledPreDecoder /\ p.preDecQueue = predecoder.preDecQueue
  BY QueuesTyped
<1>4. Len(aged) + Len(p.preDecQueue) <= IQWidth
  BY <1>2, <1>3 DEF FrontInv, IQWithinWidth
<1>5. PICK p2 \in PreDecoders, q2 \in Seq(IQEntries) :
         p2 = pre.predecoder /\ q2 = pre.iq /\ Len(q2) + Len(p2.preDecQueue) <= IQWidth
  <2>1. /\ PreDecode(p, aged).predecoder \in PreDecoders
        /\ PreDecode(p, aged).iq \in Seq(IQEntries)
        /\ Len(PreDecode(p, aged).iq) + Len(PreDecode(p, aged).predecoder.preDecQueue) <= IQWidth
    BY <1>1, <1>4, PreDecodeTyped
  <2> QED
    BY <1>2, <1>3, <2>1
<1>6. PICK group \in Seq(Instances) : group = decoded
  BY <1>5, DecodedGroupTyped
<1>7. predecoder' = p2 /\ iq' = Decoded(q2)
  BY <1>5 DEF MITEFill
<1>8. iq' \in Seq(IQEntries) /\ Len(iq') <= Len(q2)
  BY <1>7, DecodedTyped
<1>9. IQWithinWidth'
  <2>1. PICK a \in Nat, b \in Nat, c \in Nat, w \in Nat :
           a = Len(iq') /\ b = Len(q2) /\ c = Len(p2.preDecQueue) /\ w = IQWidth
    BY <1>1, <1>8, SMTT(20) DEF Given, Machine, PreDecoders
  <2>2. a + c <= w
    <3>1. a <= b
      BY <1>8, <2>1
    <3>2. b + c <= w
      BY <1>5, <2>1
    <3> QED
      BY <3>1, <3>2
  <2>3. IQWidth' = IQWidth
    BY DEF IQWidth
  <2> QED
    BY <1>7, <2>1, <2>2, <2>3 DEF IQWithinWidth
<1>10. idq' \in Seq(Uops) /\ rspOffset' \in Offsets
  <2>1. PICK uops \in Seq(Uops) : uops = FlattenSeq([j \in DOMAIN group |-> MiteUops(group[j])])
    BY <1>1, GroupUopsTyped
  <2>2. Deliver(queue, uops)
    BY <1>6, <2>1 DEF MITEFill
  <2> QED
    BY <1>1, <2>2, DeliverTyped
<1>11. ms' \in MSStates
  <2>1. ms' = IF group # <<>> /\ code[Last(group).i].ms > 0
              THEN AddToMS(ms, MSUops(Last(group)), "MITE") ELSE ms
    BY <1>6 DEF MITEFill
  <2>2. group # <<>> => Last(group) \in Instances
    BY EmptySeq DEF Last
  <2> QED
    BY <1>1, <2>1, <2>2, AddToMSTyped
<1>12. dsb' \in [blockQueue : EntryBlocks, delayed : BOOLEAN] /\ nextInst' \in Instances
  BY QueuesTyped DEF MITEFill, QueueStates
<1>13. source' \in {"none", "MITE", "DSB", "LSD"}
  BY DEF MITEFill
<1> QED
  BY <1>7, <1>8, <1>9, <1>10, <1>11, <1>12, <1>13 DEF Filled

LEMMA DSBFillFilled ==
  ASSUME FrontInv, UNCHANGED <<arch, code>>, NEW queue \in Seq(Uops), DSBFill(queue)
  PROVE  Filled
<1>1. Given /\ rspOffset \in Offsets /\ ms \in MSStates
  BY SetUpGiven DEF FrontInv
<1>2. PICK buffer \in [blockQueue : EntryBlocks, delayed : BOOLEAN] : buffer = RefilledDsb
  BY QueuesTyped
<1>3. PICK read \in ReadStates : read = DsbRead(buffer)
  BY <1>1, DsbReadTyped
<1>4. PICK n \in Nat, out \in Seq(Entries) : out = read.out /\ n = Len(out)
  BY DEF ReadStates
<1>5. PICK uops \in Seq(Uops) : uops = [j \in DOMAIN out |-> Uop(out[j].inst, out[j].k)]
  <2>1. ASSUME NEW j \in 1..n PROVE Uop(out[j].inst, out[j].k) \in Uops
    <3>1. out[j] \in Entries
      BY <1>4
    <3>2. out[j].inst \in Instances /\ out[j].k \in Nat
      BY <3>1 DEF Entries
    <3> QED
      BY <1>1, <3>2, UopTyped
  <2>2. PICK g \in [1..n -> Uops] : g = [j \in 1..n |-> Uop(out[j].inst, out[j].k)]
    BY <2>1
  <2>3. g \in Seq(Uops) /\ DOMAIN out = 1..n
    BY <1>4, SMTT(20)
  <2> QED
    BY <2>2, <2>3
<1>6. idq' \in Seq(Uops) /\ rspOffset' \in Offsets
  <2>1. Deliver(queue, uops)
    BY <1>2, <1>3, <1>4, <1>5 DEF DSBFill
  <2> QED
    BY <1>1, <2>1, DeliverTyped
<1>7. dsb' \in [blockQueue : EntryBlocks, delayed : BOOLEAN] /\ ms' \in MSStates
  BY <1>2, <1>3 DEF DSBFill, ReadStates
<1>8. /\ predecoder' \in PreDecoders /\ predecoder'.preDecQueue = predecoder.preDecQueue
      /\ nextInst' \in Instances
  BY QueuesTyped DEF DSBFill, QueueStates
<1>9. iq' \in Seq(IQEntries) /\ IQWithinWidth'
  BY <1>8, IQKept DEF DSBFill
<1>10. source' \in {"none", "MITE", "DSB", "LSD"}
  BY DEF DSBFill
<1> QED
  BY <1>6, <1>7, <1>8, <1>9, <1>10 DEF Filled

LEMMA FrontInvInit ==
  ASSUME Init
  PROVE  FrontInv
<1>1. Given
  BY SetUpGiven DEF Init
<1>2. /\ Origin \in Instances /\ FirstUopFrom(Origin) \in Uops /\ CacheableAddresses \subseteq Nat
      /\ LSDUnrollCount \in Nat \ {0} /\ LSDUops(0) \in Seq(Uops)
  BY <1>1, StartFacts
<1> DEFINE empty == [dsbQueue |-> <<>>, b16Queue |-> <<>>, at |-> Origin]
<1>3. empty \in QueueStates
  BY <1>2 DEF QueueStates, EntryBlocks
<1>4. ASSUME NEW added \in QueueStates, InitQueues(added), iq = <<>>
      PROVE  /\ predecoder \in PreDecoders /\ iq \in Seq(IQEntries) /\ IQWithinWidth
             /\ dsb \in [blockQueue : EntryBlocks, delayed : BOOLEAN] /\ nextInst \in Instances
  <2>1. added.dsbQueue \in EntryBlocks /\ added.b16Queue \in Seq(Seq(Instances)) /\ added.at \in Instances
    BY DEF QueueStates
  <2>2. PICK e \in Seq(Instances) : e = <<>> /\ Len(e) = 0
    <3>1. <<>> \in Seq(Instances) /\ Len(<<>>) = 0
      OBVIOUS
    <3> QED
      BY <3>1
  <2>3. predecoder = [b16BlockQueue |-> added.b16Queue, curBlock |-> e, nonStalled |-> 0,
                      preDecQueue |-> e, stalled |-> 0, partial |-> e]
    BY <1>4, <2>2 DEF InitQueues, NoPreDecoder
  <2>4. predecoder \in PreDecoders /\ predecoder.preDecQueue = e
    BY <2>1, <2>2, <2>3 DEF PreDecoders
  <2>5. iq \in Seq(IQEntries) /\ Len(iq) = 0
    BY <1>4
  <2>6. IQWithinWidth
    BY <1>1, <2>2, <2>4, <2>5 DEF IQWithinWidth, Given, Machine
  <2> QED
    BY <1>4, <2>1, <2>4, <2>5, <2>6 DEF InitQueues
<1>5. /\ predecoder \in PreDecoders /\ iq \in Seq(IQEntries) /\ IQWithinWidth
      /\ dsb \in [blockQueue : EntryBlocks, delayed : BOOLEAN] /\ nextInst \in Instances
      /\ source \in {"none", "MITE", "DSB", "LSD"} /\ addressesInDsb \subseteq Nat
      /\ idq \in Seq(Uops)
  <2>1. CASE Linear
    BY <1>3, <1>4, <2>1 DEF Init
  <2>2. CASE ~Linear /\ UseLSD
    <3>1. PICK s \in 0..Rounds - 1 : s = LSDUnrollCount % Rounds
      BY <1>1, <1>2, CodeFacts
    <3>2. [empty EXCEPT !.at.rnd = s] \in QueueStates
      <4>1. [Origin EXCEPT !.rnd = s] \in Instances
        BY <1>2, <3>1 DEF Instances
      <4> QED
        BY <1>3, <4>1 DEF QueueStates
    <3> HIDE DEF empty
    <3>3. InitQueues([empty EXCEPT !.at.rnd = s]) /\ source = "LSD" /\ addressesInDsb = {} /\ idq = LSDUops(0)
      BY <2>2, <3>1 DEF Init, empty
    <3> QED
      BY <1>2, <1>4, <3>2, <3>3 DEF Init
  <2>3. CASE ~Linear /\ ~UseLSD
    <3>1. PICK added \in QueueStates : added = AddBlocks(empty, addressesInDsb)
      BY <1>1, <1>3, AddBlocksTyped
    <3>2. InitQueues(added) /\ addressesInDsb = CacheableAddresses /\ idq = <<>>
          /\ source \in {"MITE", "DSB"}
      BY <2>3, <3>1 DEF Init
    <3> QED
      BY <1>2, <1>4, <3>1, <3>2 DEF Init
  <2> QED
    BY <2>1, <2>2, <2>3
<1>6. rspOffset \in Offsets
  BY <1>1 DEF Init, Offsets, Given, Machine
<1>7. ms \in MSStates
  BY DEF Init, MSStates
<1> QED
  BY <1>2, <1>5, <1>6, <1>7 DEF Init, FrontInv

LEMMA TakenTyped ==
  ASSUME FrontInv, NEW n \in Nat, n <= Len(idq)
  PROVE  /\ SubSeq(idq, 1, n) \in Seq(Uops) /\ SubSeq(idq, n + 1, Len(idq)) \in Seq(Uops)
         /\ Behind(SubSeq(idq, 1, n), expected) \in Uops
<1>1. PICK q \in Seq(Uops), l \in Nat : q = idq /\ l = Len(q) /\ n <= l
  BY DEF FrontInv
<1>2. SubSeq(q, 1, n) \in Seq(Uops)
  <2>1. PICK one \in Nat \ {0} : one = 1
    OBVIOUS
  <2>2. SubSeq(q, one, n) \in Seq(Uops)
    BY <1>1, PartOf
  <2> QED
    BY <2>1, <2>2
<1>3. SubSeq(q, n + 1, l) \in Seq(Uops)
  <2>1. PICK m \in Nat \ {0} : m = n + 1
    OBVIOUS
  <2>2. SubSeq(q, m, l) \in Seq(Uops)
    BY <1>1, PartOf
  <2> QED
    BY <2>1, <2>2
<1>4. Given /\ expected \in Uops
  BY SetUpGiven DEF FrontInv
<1> QED
  BY <1>1, <1>2, <1>3, <1>4, BehindTyped

LEMMA FrontInvStep ==
  ASSUME FrontInv, [Next]_vars
  PROVE  FrontInv'
<1>1. CASE UNCHANGED vars
  <2>1. UNCHANGED <<arch, code, addressesInDsb, source, nextInst, idq, rspOffset, clock,
                    expected, predecoder, iq, dsb, ms>>
    BY <1>1 DEF vars, queueVars
  <2>2. SetUp'
    BY <2>1 DEF FrontInv, SetUp
  <2>3. /\ PreDecoders' = PreDecoders /\ IQEntries' = IQEntries /\ EntryBlocks' = EntryBlocks
        /\ MSStates' = MSStates /\ Instances' = Instances /\ Uops' = Uops
    BY <2>1 DEF PreDecoders, IQEntries, PredecodeDecodeDelay, EntryBlocks, EntryLists, Entries,
                MSStates, Instances, Uops, Rounds
  <2>4. IQWithinWidth'
    BY <2>1 DEF FrontInv, IQWithinWidth, IQWidth
  <2> QED
    BY <2>1, <2>2, <2>3, <2>4 DEF FrontInv, Offsets
<1>2. CASE Next
  <2>1. PICK n \in 0..IssueWidth : Cycle(n)
    BY <1>2 DEF Next
  <2>2. Given
    BY SetUpGiven DEF FrontInv
  <2>3. n \in Nat /\ n <= Len(idq)
    BY <2>1, <2>2 DEF Cycle, Take, Given, Machine
  <2>4. PICK queue \in Seq(Uops) : queue = SubSeq(idq, n + 1, Len(idq))
    BY <2>3, TakenTyped
  <2>5. UNCHANGED <<arch, code, addressesInDsb>>
    BY <2>1 DEF Cycle
  <2>6. \/ Full(queue) \/ SimpleFill(queue) \/ LSDFill(queue)
        \/ MSFill(queue) \/ MITEFill(queue) \/ DSBFill(queue)
    BY <2>1, <2>4 DEF Cycle
  <2>7. Filled
    BY <2>5, <2>6, FullFilled, SimpleFillFilled, LSDFillFilled, MSFillFilled, MITEFillFilled, DSBFillFilled
  <2>8. expected' \in Uops
    BY <2>1, <2>3, TakenTyped DEF Cycle, Take
  <2>9. clock' \in 0..1
    BY <2>1 DEF Cycle, Tick, FrontInv
  <2>10. SetUp'
    BY <2>5 DEF FrontInv, SetUp
  <2>11. /\ PreDecoders' = PreDecoders /\ IQEntries' = IQEntries /\ EntryBlocks' = EntryBlocks
         /\ MSStates' = MSStates /\ Instances' = Instances /\ Uops' = Uops
    BY <2>5 DEF PreDecoders, IQEntries, PredecodeDecodeDelay, EntryBlocks, EntryLists, Entries,
                MSStates, Instances, Uops, Rounds
  <2> QED
    BY <2>5, <2>7, <2>8, <2>9, <2>10, <2>11 DEF FrontInv, Filled, Offsets
<1> QED
  BY <1>1, <1>2

(* Every variable of the front end holds a value of its type, whatever the *)
(* machine and the code: the predecoder, the DSB and the microcode         *)
(* sequencer only ever hold instances and uops of the program, and         *)
(* add_stack_sync_uop keeps no stack offset beyond its range.              *)
THEOREM FrontTyped == Spec => []TypeOK
<1>1. Init => FrontInv
  BY FrontInvInit
<1>2. FrontInv /\ [Next]_vars => FrontInv'
  BY FrontInvStep
<1>3. FrontInv => TypeOK
  BY FrontInvTyped
<1> QED
  BY <1>1, <1>2, <1>3, PTL DEF Spec

-------------------------------------------------------------------------------
(* What a delivery puts into the decode queue, uop by uop.                 *)

PutRun(a, n, queue, o, uops) ==
  /\ a \in [0..n -> PutStates] /\ a[0] = [idq |-> queue, offset |-> o]
  /\ \A k \in 1..n : a[k] = PutUop(a[k - 1], uops[k])

LEMMA PutsRun ==
  ASSUME Given, NEW queue \in Seq(Uops), NEW o \in Offsets, NEW uops \in Seq(Uops)
  PROVE  \E a : /\ PutRun(a, Len(uops), queue, o, uops)
                /\ a[Len(uops)] = FoldLeft(PutUop, [idq |-> queue, offset |-> o], uops)
<1>1. PICK n \in Nat : n = Len(uops)
  OBVIOUS
<1>2. PICK v : v = FoldLeft(PutUop, [idq |-> queue, offset |-> o], uops)
  OBVIOUS
<1>3. PICK a : FoldRun(a, PutStates, Put, [idq |-> queue, offset |-> o], n, uops) /\ a[n] = v
  BY <1>1, <1>2, PutUopsRun DEF RunsTo
<1>4. ASSUME NEW k \in 1..n PROVE a[k] = PutUop(a[k - 1], uops[k])
  <2>1. a[k - 1] \in PutStates /\ uops[k] \in Uops /\ a[k] = Put[<<a[k - 1], uops[k]>>]
    <3>1. a \in [0..n -> PutStates] /\ \A i \in 1..n : a[i] = Put[<<a[i - 1], uops[i]>>]
      BY <1>3 DEF FoldRun
    <3>2. k - 1 \in 0..n
      OBVIOUS
    <3>3. uops[k] \in Uops
      BY <1>1
    <3> QED
      BY <3>1, <3>2, <3>3
  <2> QED
    BY <2>1 DEF Put
<1>5. PutRun(a, n, queue, o, uops)
  BY <1>3, <1>4 DEF FoldRun, PutRun
<1> QED
  BY <1>1, <1>2, <1>3, <1>5

LEMMA Joined ==
  ASSUME NEW S, NEW s \in Seq(S), NEW t \in Seq(S)
  PROVE  /\ s \o t \in Seq(S) /\ Len(s \o t) = Len(s) + Len(t)
         /\ \A j \in 1..Len(s) : (s \o t)[j] = s[j]
         /\ \A j \in 1..Len(t) : (s \o t)[Len(s) + j] = t[j]
<1>1. s \o t \in Seq(S)
  OBVIOUS
<1>2. Len(s \o t) = Len(s) + Len(t)
  OBVIOUS
<1>3. \A j \in 1..Len(s) : (s \o t)[j] = s[j]
  OBVIOUS
<1>4. ASSUME NEW j \in 1..Len(t) PROVE (s \o t)[Len(s) + j] = t[j]
  OBVIOUS
<1> QED
  BY <1>1, <1>2, <1>3, <1>4

(* The places of the uops that are no stack synchronisations.              *)
Reals(queue) == {j \in DOMAIN queue : ~IsSync(queue[j])}

LEMMA RealsBounded ==
  ASSUME NEW queue \in Seq(Uops)
  PROVE  IsFiniteSet(Reals(queue)) /\ Cardinality(Reals(queue)) \in 0..Len(queue)
<1>1. PICK n \in Nat : n = Len(queue)
  OBVIOUS
<1>2. IsFiniteSet(1..n) /\ Cardinality(1..n) = n
  BY FS_Interval
<1>3. Reals(queue) \in SUBSET (1..n)
  BY <1>1 DEF Reals
<1>4. IsFiniteSet(Reals(queue)) /\ Cardinality(Reals(queue)) <= n
  BY <1>2, <1>3, FS_Subset
<1>5. Cardinality(Reals(queue)) \in Nat
  BY <1>4, FS_CardinalityType
<1> QED
  BY <1>1, <1>4, <1>5

LEMMA RealsTaken ==
  ASSUME NEW queue \in Seq(Uops), NEW n \in Nat, n <= Len(queue)
  PROVE  Cardinality(Reals(SubSeq(queue, n + 1, Len(queue)))) <= Cardinality(Reals(queue))
<1>1. PICK l \in Nat : l = Len(queue)
  OBVIOUS
<1>2. PICK m \in Nat \ {0} : m = n + 1
  OBVIOUS
<1>3. PICK rest \in Seq(Uops) : rest = SubSeq(queue, m, l) /\ Len(rest) = l - n
                               /\ \A i \in 1..l - n : rest[i] = queue[n + i]
  <2>1. /\ SubSeq(queue, m, l) \in Seq(Uops)
        /\ Len(SubSeq(queue, m, l)) = (IF m <= l THEN l - m + 1 ELSE 0)
        /\ \A i \in 1..(l - m) + 1 : SubSeq(queue, m, l)[i] = queue[(m + i) - 1]
    BY <1>1, PartOf
  <2>2. Len(SubSeq(queue, m, l)) = l - n
    BY <1>1, <1>2, <2>1
  <2>3. ASSUME NEW i \in 1..l - n PROVE SubSeq(queue, m, l)[i] = queue[n + i]
    <3>1. i \in 1..(l - m) + 1 /\ (m + i) - 1 = n + i
      BY <1>1, <1>2
    <3> QED
      BY <2>1, <3>1
  <2> QED
    BY <2>1, <2>2, <2>3
<1> DEFINE f == [j \in Reals(rest) |-> n + j]
<1>4. f \in Injection(Reals(rest), Reals(queue))
  <2>1. ASSUME NEW j \in Reals(rest) PROVE j \in 1..l - n /\ n + j \in Reals(queue)
    <3>1. j \in 1..l - n /\ ~IsSync(rest[j])
      BY <1>1, <1>3 DEF Reals
    <3>2. rest[j] = queue[n + j] /\ n + j \in 1..l
      BY <1>1, <1>3, <3>1
    <3> QED
      BY <1>1, <3>1, <3>2 DEF Reals
  <2>2. f \in [Reals(rest) -> Reals(queue)]
    BY <2>1
  <2>3. ASSUME NEW a \in Reals(rest), NEW b \in Reals(rest), f[a] = f[b] PROVE a = b
    BY <2>1, <2>3
  <2> QED
    BY <2>2, <2>3 DEF Injection, IsInjective
<1>5. IsFiniteSet(Reals(queue))
  BY RealsBounded
<1> HIDE DEF f
<1>6. Cardinality(Reals(rest)) <= Cardinality(Reals(queue))
  BY <1>4, <1>5, FS_Injection
<1> QED
  BY <1>1, <1>2, <1>3, <1>6

(* A uop put in adds one, its synchronisation none.                        *)
LEMMA RealsPut ==
  ASSUME Given, NEW acc \in PutStates, NEW u \in Uops
  PROVE  Cardinality(Reals(PutUop(acc, u).idq)) <= Cardinality(Reals(acc.idq)) + 1
<1>1. PICK q \in Seq(Uops), l \in Nat : q = acc.idq /\ l = Len(q)
  <2>1. acc.idq \in Seq(Uops)
    BY DEF PutStates
  <2> QED
    BY <2>1
<1>2. IsFiniteSet(Reals(q)) /\ Cardinality(Reals(q)) \in Nat
  BY RealsBounded
<1>3. ASSUME NEW x
      PROVE  /\ IsFiniteSet(Reals(q) \cup {x})
             /\ Cardinality(Reals(q) \cup {x}) <= Cardinality(Reals(q)) + 1
  <2>1. /\ IsFiniteSet(Reals(q) \cup {x})
        /\ Cardinality(Reals(q) \cup {x}) = IF x \in Reals(q) THEN Cardinality(Reals(q))
                                             ELSE Cardinality(Reals(q)) + 1
    BY <1>2, FS_AddElement
  <2>2. PICK c \in Nat : c = Cardinality(Reals(q))
    BY <1>2
  <2> QED
    BY <2>1, <2>2
<1>4. PICK s \in Uops : s = [u EXCEPT !.k = 0] /\ IsSync(s)
  <2>1. [u EXCEPT !.k = 0] \in Uops /\ [u EXCEPT !.k = 0].k = 0
    BY DEF Uops
  <2> QED
    BY <2>1 DEF IsSync
<1>5. PutUop(acc, u).idq = q \o <<s, u>> \/ PutUop(acc, u).idq = q \o <<u>>
  BY <1>1, <1>4 DEF PutUop
<1>6. Reals(q \o <<s, u>>) \in SUBSET (Reals(q) \cup {l + 2})
  <2>1. <<s, u>> \in Seq(Uops)
    BY FewTyped
  <2>2. PICK t \in Seq(Uops) : t = <<s, u>>
    BY <2>1
  <2>3. Len(t) = 2 /\ t[1] = s
    BY <2>2
  <2>4. PICK r \in Seq(Uops) : r = q \o t
    BY Joined
  <2>5. /\ Len(r) = l + 2 /\ \A j \in 1..l : r[j] = q[j]
        /\ \A j \in 1..2 : r[l + j] = t[j]
    <3>1. PICK two \in Nat : two = 2
      OBVIOUS
    <3>2. Len(q) = l /\ Len(t) = two /\ r = q \o t
      BY <1>1, <2>3, <2>4, <3>1
    <3>3. /\ Len(r) = l + two /\ \A j \in 1..l : r[j] = q[j]
          /\ \A j \in 1..two : r[l + j] = t[j]
      <4>1. Len(r) = Len(q) + Len(t)
        BY <3>2, Joined
      <4>2. \A j \in 1..Len(q) : r[j] = q[j]
        BY <3>2, Joined
      <4>3. \A j \in 1..Len(t) : r[Len(q) + j] = t[j]
        BY <3>2, Joined
      <4> QED
        BY <3>2, <4>1, <4>2, <4>3
    <3> QED
      BY <3>1, <3>3
  <2>6. ASSUME NEW j \in Reals(r) PROVE j \in Reals(q) \cup {l + 2}
    <3>1. j \in 1..l + 2 /\ ~IsSync(r[j])
      BY <2>5 DEF Reals
    <3>2. j # l + 1
      <4>1. 1 \in 1..2 /\ r[l + 1] = s
        BY <2>3, <2>5
      <4>2. IsSync(r[l + 1])
        BY <1>4, <4>1
      <4> QED
        BY <3>1, <4>2
    <3>3. CASE j \in 1..l
      BY <1>1, <2>5, <3>1, <3>3 DEF Reals
    <3> QED
      BY <3>1, <3>2, <3>3
  <2> QED
    BY <2>2, <2>4, <2>6
<1>7. Reals(q \o <<u>>) \in SUBSET (Reals(q) \cup {l + 1})
  BY <1>1 DEF Reals
<1>8. PICK x : Reals(PutUop(acc, u).idq) \in SUBSET (Reals(q) \cup {x})
  BY <1>5, <1>6, <1>7
<1>9. Cardinality(Reals(PutUop(acc, u).idq)) <= Cardinality(Reals(q) \cup {x})
  BY <1>3, <1>8, FS_Subset
<1>10. PutUop(acc, u).idq \in Seq(Uops)
  BY PutUopTyped DEF PutStates
<1>11. PICK a \in Nat, b \in Nat, c \in Nat :
          /\ a = Cardinality(Reals(PutUop(acc, u).idq)) /\ b = Cardinality(Reals(q) \cup {x})
          /\ c = Cardinality(Reals(q))
  BY <1>2, <1>3, <1>10, RealsBounded, FS_CardinalityType
<1>12. a <= b /\ b <= c + 1
  BY <1>3, <1>9, <1>11
<1> QED
  BY <1>1, <1>11, <1>12

LEMMA RealsDelivered ==
  ASSUME Given, NEW queue \in Seq(Uops), NEW o \in Offsets, NEW uops \in Seq(Uops)
  PROVE  Cardinality(Reals(FoldLeft(PutUop, [idq |-> queue, offset |-> o], uops).idq))
           <= Len(queue) + Len(uops)
<1>1. PICK n \in Nat, l \in Nat : n = Len(uops) /\ l = Len(queue)
  OBVIOUS
<1>2. PICK v : v = FoldLeft(PutUop, [idq |-> queue, offset |-> o], uops)
  OBVIOUS
<1>3. PICK a : PutRun(a, n, queue, o, uops) /\ a[n] = v
  BY <1>1, <1>2, PutsRun
<1> DEFINE T == {k \in 0..n : Cardinality(Reals(a[k].idq)) <= l + k}
<1>4. 0 \in T
  <2>1. a[0].idq = queue
    BY <1>3 DEF PutRun
  <2> QED
    BY <1>1, <2>1, RealsBounded
<1>5. ASSUME NEW k \in 0..n, k < n, k \in T PROVE k + 1 \in T
  <2>1. a[k] \in PutStates /\ uops[k + 1] \in Uops /\ a[k + 1] = PutUop(a[k], uops[k + 1])
    <3>1. k + 1 \in 1..n /\ k \in 0..n /\ (k + 1) - 1 = k
      BY <1>5
    <3> QED
      BY <1>1, <1>3, <3>1 DEF PutRun
  <2>2. Cardinality(Reals(a[k + 1].idq)) <= Cardinality(Reals(a[k].idq)) + 1
    BY <2>1, RealsPut
  <2>3. a[k].idq \in Seq(Uops) /\ a[k + 1].idq \in Seq(Uops)
    BY <2>1, PutUopTyped DEF PutStates
  <2>4. PICK c \in Nat, d \in Nat : c = Cardinality(Reals(a[k].idq)) /\ d = Cardinality(Reals(a[k + 1].idq))
    BY <2>3, RealsBounded
  <2>5. c <= l + k /\ d <= c + 1
    BY <1>5, <2>2, <2>4
  <2>6. d <= l + (k + 1) /\ k + 1 \in 0..n
    BY <1>5, <2>5
  <2> QED
    BY <2>4, <2>6
<1> HIDE DEF T
<1>6. \A k \in 0..n : k \in T
  BY <1>4, <1>5, UpTo
<1>7. n \in T
  BY <1>6
<1> USE DEF T
<1> QED
  BY <1>1, <1>2, <1>3, <1>7

-------------------------------------------------------------------------------
(* What a source delivers in a cycle.                                      *)

(* The assumptions about the widths, for the machine and the code at hand. *)
Fits ==
  /\ NDecoders <= DSBWidth /\ MSWidth <= DSBWidth
  /\ \A n \in DOMAIN LSDUnrolling : n * LSDUnrolling[n] <= IDQWidth
  /\ \A i \in 1..Len(code) :
       IF code[i].complex THEN code[i].mite + Min({NDecoders - 1, code[i].simple}) <= DSBWidth
       ELSE code[i].mite + code[i].ms <= 1

LEMMA SetUpFits ==
  ASSUME SetUp
  PROVE  Fits
<1>0. PICK s \in Setups : arch = s.arch /\ \E prog \in s.programs : code = LaidOut(prog)
  BY DEF SetUp
<1>1. PICK prog \in s.programs : arch = s.arch /\ code = LaidOut(prog)
  BY <1>0
<1>2. prog \in Seq(Instr) /\ prog # <<>>
  BY CacheBlocksAssumption DEF ProgramOK
<1>3. Len(code) = Len(prog) /\ \A i \in 1..Len(prog) : SameInstr(code[i], prog[i])
  BY <1>1, <1>2, LaidOutIsLaid
<1>4. ASSUME NEW i \in 1..Len(code)
      PROVE  IF code[i].complex THEN code[i].mite + Min({NDecoders - 1, code[i].simple}) <= DSBWidth
             ELSE code[i].mite + code[i].ms <= 1
  <2>1. i \in DOMAIN prog
    BY <1>2, <1>3
  <2>2. IF prog[i].complex THEN prog[i].mite + Min({s.arch.nDecoders - 1, prog[i].simple}) <= s.arch.dsbWidth
        ELSE prog[i].mite + prog[i].ms <= 1
    BY <2>1, DecodersAssumption
  <2>3. /\ code[i].complex = prog[i].complex /\ code[i].mite = prog[i].mite
        /\ code[i].ms = prog[i].ms /\ code[i].simple = prog[i].simple
    BY <1>3 DEF SameInstr
  <2>4. s.arch.nDecoders = NDecoders /\ s.arch.dsbWidth = DSBWidth
    BY <1>1 DEF NDecoders, DSBWidth
  <2> QED
    BY <2>2, <2>3, <2>4
<1>5. /\ NDecoders <= DSBWidth /\ MSWidth <= DSBWidth
      /\ \A n \in DOMAIN LSDUnrolling : n * LSDUnrolling[n] <= IDQWidth
  BY <1>1, WidthsAssumption DEF NDecoders, DSBWidth, LSDUnrolling, IDQWidth
<1> QED
  BY <1>4, <1>5 DEF Fits

Even(seqs, c)       == \A k \in 1..Len(seqs) : Len(seqs[k]) = c
SameLengths(s, t)   == Len(s) = Len(t) /\ \A k \in 1..Len(s) : Len(s[k]) = Len(t[k])

LEMMA FlattenEven ==
  ASSUME NEW S, NEW seqs \in Seq(Seq(S)), NEW c \in Nat, Even(seqs, c)
  PROVE  Len(FlattenSeq(seqs)) = Len(seqs) * c
<1>1. PICK n \in Nat : n = Len(seqs)
  OBVIOUS
<1>2. PICK v : v = FlattenSeq(seqs)
  OBVIOUS
<1>3. PICK a : Grows(a, n, S, seqs) /\ a[n] = v
  BY <1>1, <1>2, FlattenGrows
<1> DEFINE T == {k \in 0..n : Len(a[k]) = k * c}
<1>4. 0 \in T
  BY <1>3 DEF Grows
<1>5. ASSUME NEW k \in 0..n, k < n, k \in T PROVE k + 1 \in T
  <2>1. k + 1 \in 1..n /\ (k + 1) - 1 = k
    BY <1>5
  <2>2. a[k] \in Seq(S) /\ a[k + 1] = a[k] \o seqs[k + 1]
    BY <1>3, <2>1 DEF Grows
  <2>3. seqs[k + 1] \in Seq(S) /\ Len(seqs[k + 1]) = c
    BY <1>1, <2>1 DEF Even
  <2>4. Len(a[k + 1]) = Len(a[k]) + c
    <3>1. PICK x \in Seq(S), y \in Seq(S) : x = a[k] /\ y = seqs[k + 1]
      BY <2>2, <2>3
    <3>2. Len(x \o y) = Len(x) + Len(y)
      OBVIOUS
    <3> QED
      BY <2>2, <2>3, <3>1, <3>2
  <2>5. Len(a[k]) = k * c
    BY <1>5
  <2>6. (k * c) + c = (k + 1) * c
    OBVIOUS
  <2> QED
    BY <2>1, <2>4, <2>5, <2>6
<1> HIDE DEF T
<1>6. \A k \in 0..n : k \in T
  BY <1>4, <1>5, UpTo
<1>7. n \in T
  BY <1>6
<1> USE DEF T
<1> QED
  BY <1>1, <1>2, <1>3, <1>7

LEMMA FlattenSame ==
  ASSUME NEW S, NEW s \in Seq(Seq(S)), NEW t \in Seq(Seq(S)), SameLengths(s, t)
  PROVE  Len(FlattenSeq(s)) = Len(FlattenSeq(t))
<1>1. PICK n \in Nat : n = Len(s) /\ n = Len(t)
  BY DEF SameLengths
<1>2. PICK v, w : v = FlattenSeq(s) /\ w = FlattenSeq(t)
  OBVIOUS
<1>3. PICK a : Grows(a, n, S, s) /\ a[n] = v
  BY <1>1, <1>2, FlattenGrows
<1>4. PICK b : Grows(b, n, S, t) /\ b[n] = w
  BY <1>1, <1>2, FlattenGrows
<1> DEFINE T == {k \in 0..n : Len(a[k]) = Len(b[k])}
<1>5. 0 \in T
  BY <1>3, <1>4 DEF Grows
<1>6. ASSUME NEW k \in 0..n, k < n, k \in T PROVE k + 1 \in T
  <2>1. k + 1 \in 1..n /\ (k + 1) - 1 = k
    BY <1>6
  <2>2. a[k] \in Seq(S) /\ a[k + 1] = a[k] \o s[k + 1] /\ b[k] \in Seq(S) /\ b[k + 1] = b[k] \o t[k + 1]
    BY <1>3, <1>4, <2>1 DEF Grows
  <2>3. s[k + 1] \in Seq(S) /\ t[k + 1] \in Seq(S) /\ Len(s[k + 1]) = Len(t[k + 1])
    BY <1>1, <2>1 DEF SameLengths
  <2>4. PICK x \in Seq(S), y \in Seq(S), u \in Seq(S), w1 \in Seq(S) :
           x = a[k] /\ y = s[k + 1] /\ u = b[k] /\ w1 = t[k + 1]
    BY <2>2, <2>3
  <2>5. Len(x \o y) = Len(x) + Len(y) /\ Len(u \o w1) = Len(u) + Len(w1)
    OBVIOUS
  <2>6. Len(x) = Len(u)
    BY <1>6, <2>4
  <2>7. Len(a[k + 1]) = Len(b[k + 1])
    BY <2>2, <2>3, <2>4, <2>5, <2>6
  <2> QED
    BY <2>1, <2>7
<1> HIDE DEF T
<1>7. \A k \in 0..n : k \in T
  BY <1>5, <1>6, UpTo
<1>8. n \in T
  BY <1>7
<1> USE DEF T
<1> QED
  BY <1>2, <1>3, <1>4, <1>8

(* The rounds of a loop are alike.                                         *)
LEMMA PrecedingIs ==
  ASSUME Given, NEW x \in Instances, x.i > 1
  PROVE  Preceding(x).i = x.i - 1
<1>1. PICK l \in Nat \ {0}, r \in Nat, i \in Nat, m \in Nat \ {0} :
         l = Len(code) /\ r = x.rnd /\ i = x.i /\ m = Rounds /\ 1 < i /\ i <= l
  BY CodeFacts, InstanceFacts
<1>2. PICK q \in Nat : q = r + m
  OBVIOUS
<1>3. PICK s \in 0..l - 1 : s = i - 2
  BY <1>1
<1>4. (l * q + s) % l = s
  BY Quotient
<1>5. r * l + (i - 1) + (m * l - 1) = l * q + s
  <2>1. PICK rl \in Nat, ml \in Nat : rl = r * l /\ ml = m * l
    OBVIOUS
  <2>2. l * q = rl + ml
    BY <1>2, <2>1
  <2>3. PICK lq \in Nat : lq = l * q /\ lq = rl + ml
    BY <2>2
  <2>4. rl + (i - 1) + (ml - 1) = lq + s
    BY <1>3, <2>3
  <2> QED
    BY <2>1, <2>3, <2>4
<1>6. Preceding(x).i = ((r * l + (i - 1) + (m * l - 1)) % l) + 1
  BY <1>1 DEF Preceding, Later
<1> QED
  BY <1>1, <1>3, <1>4, <1>5, <1>6

LEMMA AlikeRounds ==
  ASSUME Given, ~Linear, NEW x \in Instances, NEW y \in Instances, x.i = y.i
  PROVE  UopCount(x) = UopCount(y)
<1>1. Address(x) = Address(y)
  BY DEF Address
<1>2. x.i > 1 => Preceding(x).i = Preceding(y).i
  BY PrecedingIs
<1>3. FusedWithPrev(x) <=> FusedWithPrev(y)
  BY <1>1, <1>2 DEF FusedWithPrev
<1> QED
  BY <1>3 DEF UopCount

LEMMA LSDUopsFit ==
  ASSUME Given, Fits, ~Linear, RoundUops <= IDQWidth, NEW r \in Nat
  PROVE  Len(LSDUops(r)) <= IDQWidth
<1>1. PICK n \in Nat \ {0}, l \in Nat, m \in Nat \ {0, 1} :
         n = LSDUnrollCount /\ l = Len(code) /\ m = Rounds /\ DOMAIN code = 1..l
  BY CodeFacts, StartFacts
<1>2. PICK c \in Nat : c = RoundUops
  <2>1. 0 \in 0..Rounds - 1
    BY CodeFacts
  <2>2. Round(0) \in Seq(Instances)
    BY <2>1, RoundTyped
  <2>3. UopsOf(Round(0)) \in Seq(Uops)
    BY <2>2, UopsOfTyped
  <2> QED
    BY <2>3 DEF RoundUops
<1> DEFINE lam(s) == [j \in 1..l |-> LamUops([rnd |-> s, i |-> j])]
<1>3. ASSUME NEW s \in 0..m - 1
      PROVE  /\ lam(s) \in Seq(Seq(Uops)) /\ Len(lam(s)) = l
             /\ UopsOf(Round(s)) = FlattenSeq(lam(s))
             /\ \A j \in 1..l : Len(lam(s)[j]) = UopCount([rnd |-> s, i |-> j])
  <2>1. ASSUME NEW j \in 1..l PROVE [rnd |-> s, i |-> j] \in Instances
    BY <1>1 DEF Instances
  <2>2. ASSUME NEW j \in 1..l
        PROVE  LamUops([rnd |-> s, i |-> j]) \in Seq(Uops)
               /\ Len(LamUops([rnd |-> s, i |-> j])) = UopCount([rnd |-> s, i |-> j])
    <3>1. PICK x \in Instances : x = [rnd |-> s, i |-> j]
      BY <2>1
    <3>2. LamUops(x) \in Seq(Uops) /\ UopCount(x) \in Nat
      BY LamUopsTyped, CountTyped
    <3>3. Len(LamUops(x)) = UopCount(x)
      BY <3>2 DEF LamUops
    <3> QED
      BY <3>1, <3>2, <3>3
  <2>3. PICK g \in [1..l -> Seq(Uops)] : g = lam(s)
    BY <2>2
  <2>4. g \in Seq(Seq(Uops)) /\ Len(g) = l
    OBVIOUS
  <2>5. UopsOf(Round(s)) = FlattenSeq(lam(s))
    <3>1. DOMAIN Round(s) = 1..l /\ \A j \in 1..l : Round(s)[j] = [rnd |-> s, i |-> j]
      BY <1>1 DEF Round
    <3>2. [j \in DOMAIN Round(s) |-> LamUops(Round(s)[j])] = lam(s)
      BY <3>1
    <3> QED
      BY <3>2 DEF UopsOf
  <2>6. \A j \in 1..l : Len(lam(s)[j]) = UopCount([rnd |-> s, i |-> j])
    BY <2>2
  <2> HIDE DEF lam
  <2> QED
    BY <2>3, <2>4, <2>5, <2>6
<1>4. ASSUME NEW s \in 0..m - 1 PROVE UopsOf(Round(s)) \in Seq(Uops) /\ Len(UopsOf(Round(s))) = c
  <2>1. PICK zero \in 0..m - 1 : zero = 0
    OBVIOUS
  <2>2. ASSUME NEW j \in 1..l PROVE UopCount([rnd |-> s, i |-> j]) = UopCount([rnd |-> zero, i |-> j])
    <3>1. [rnd |-> s, i |-> j] \in Instances /\ [rnd |-> zero, i |-> j] \in Instances
      BY <1>1 DEF Instances
    <3> QED
      BY <3>1, AlikeRounds
  <2>3. PICK g \in Seq(Seq(Uops)), h \in Seq(Seq(Uops)) : g = lam(s) /\ h = lam(zero)
    BY <1>3
  <2>4. SameLengths(g, h)
    <3>1. /\ Len(g) = l /\ \A j \in 1..l : Len(g[j]) = UopCount([rnd |-> s, i |-> j])
          /\ Len(h) = l /\ \A j \in 1..l : Len(h[j]) = UopCount([rnd |-> zero, i |-> j])
      <4> HIDE DEF lam
      <4> QED
        BY <1>3, <2>3
    <3> QED
      BY <2>2, <3>1 DEF SameLengths
  <2>5. Len(FlattenSeq(g)) = Len(FlattenSeq(h))
    BY <2>4, FlattenSame
  <2>6. UopsOf(Round(s)) = FlattenSeq(g) /\ UopsOf(Round(zero)) = FlattenSeq(h)
    <3> HIDE DEF lam
    <3> QED
      BY <1>3, <2>3
  <2>7. Round(s) \in Seq(Instances)
    BY <1>1, RoundTyped
  <2> QED
    BY <1>2, <2>1, <2>5, <2>6, <2>7, UopsOfTyped DEF RoundUops
<1>5. PICK g \in Seq(Seq(Uops)) : LSDUops(r) = FlattenSeq(g) /\ Len(g) = n /\ Even(g, c)
  <2>1. ASSUME NEW j \in 1..n
        PROVE  /\ UopsOf(Round((r + j - 1) % m)) \in Seq(Uops)
               /\ Len(UopsOf(Round((r + j - 1) % m))) = c
    <3>1. PICK s \in 0..m - 1 : s = (r + j - 1) % m
      OBVIOUS
    <3> QED
      BY <1>4, <3>1
  <2>2. PICK g \in [1..n -> Seq(Uops)] : g = [j \in 1..n |-> UopsOf(Round((r + j - 1) % m))]
    BY <2>1
  <2>3. g \in Seq(Seq(Uops)) /\ Len(g) = n
    OBVIOUS
  <2>4. Even(g, c)
    BY <2>1, <2>2, <2>3 DEF Even
  <2>5. LSDUops(r) = FlattenSeq(g)
    BY <1>1, <2>2 DEF LSDUops
  <2> QED
    BY <2>3, <2>4, <2>5
<1>6. Len(LSDUops(r)) = n * c
  BY <1>5, FlattenEven
<1>7. n * c <= IDQWidth
  <2>1. CASE c \in DOMAIN LSDUnrolling
    <3>1. n = LSDUnrolling[c]
      BY <1>1, <1>2, <2>1 DEF LSDUnrollCount
    <3>2. c * n <= IDQWidth
      BY <2>1, <3>1 DEF Fits
    <3> QED
      BY <3>2
  <2>2. CASE c \notin DOMAIN LSDUnrolling
    <3>1. n = 1
      BY <1>1, <1>2, <2>2 DEF LSDUnrollCount
    <3>2. c <= IDQWidth
      BY <1>2
    <3> QED
      BY <3>1, <3>2
  <2> QED
    BY <2>1, <2>2
<1> QED
  BY <1>6, <1>7

(* The decoders there are for a group that begins with x.                  *)
Slots(x) ==
  IF code[x.i].complex THEN 1 + Min({NDecoders - 1, code[x.i].simple}) ELSE NDecoders

(* What has been decoded of the first k places.                            *)
GroupSoFar(g, k, queue) ==
  /\ g \in Seq(Instances) /\ Len(g) = Cardinality(DecodedAmong(queue, k))
  /\ \A i \in 1..Len(g) : ~FusedWithPrev(g[i])
  /\ \A i \in 2..Len(g) : ~code[g[i].i].complex
  /\ g # <<>> => /\ g[1] = queue[Min(DecodedAmong(queue, k))].inst
                 /\ Len(g) <= Slots(g[1])

GoesOn(queue, k) == \A j \in DecodedAmong(queue, k) : ~EndsGroup(queue, j)

LEMMA SlotsTyped ==
  ASSUME Given, NEW x \in Instances
  PROVE  Slots(x) \in Nat \ {0}
<1>1. PICK n \in Nat, s \in Nat : n = NDecoders - 1 /\ s = code[x.i].simple
  <2>1. NDecoders \in Nat \ {0}
    BY DEF Given, Machine
  <2>2. code[x.i] \in Instr
    BY InstanceFacts
  <2>3. code[x.i].simple \in Nat
    BY <2>2 DEF Instr
  <2> QED
    BY <2>1, <2>3
<1>2. Min({n, s}) \in Nat
  BY LesserOf
<1>3. NDecoders \in Nat \ {0}
  BY DEF Given, Machine
<1> QED
  BY <1>1, <1>2, <1>3 DEF Slots

LEMMA AmongFacts ==
  ASSUME NEW queue, NEW k \in Nat
  PROVE  /\ DecodedAmong(queue, k) \in SUBSET (1..k) /\ IsFiniteSet(DecodedAmong(queue, k))
         /\ Cardinality(DecodedAmong(queue, k)) \in Nat
         /\ Cardinality(DecodedAmong(queue, k)) = 0 <=> DecodedAmong(queue, k) = {}
<1>1. DecodedAmong(queue, k) \in SUBSET (1..k)
  BY DEF DecodedAmong
<1>2. IsFiniteSet(1..k)
  BY FS_Interval
<1>3. IsFiniteSet(DecodedAmong(queue, k))
  BY <1>1, <1>2, FS_Subset
<1> QED
  BY <1>1, <1>3, FS_CardinalityType, FS_EmptySet

(* As long as the group goes on, a decoder is left.                        *)
LEMMA DecoderLeft ==
  ASSUME Given, NEW queue \in Seq(IQEntries), NEW k \in Nat, k < Len(queue),
         GoesOn(queue, k), NEW g \in Seq(Instances), g # <<>>, GroupSoFar(g, k, queue)
  PROVE  Len(g) < Slots(g[1])
<1> DEFINE D == DecodedAmong(queue, k)
<1>1. PICK c \in Nat, s \in Nat \ {0} : c = Len(g) /\ s = Slots(g[1]) /\ c # 0
  <2>1. Len(g) \in Nat /\ Len(g) # 0 /\ g[1] \in Instances
    BY EmptySeq
  <2> QED
    BY <2>1, SlotsTyped
<1>2. D \in SUBSET (1..k) /\ Cardinality(D) = c /\ D # {}
  BY <1>1, AmongFacts DEF GroupSoFar
<1>3. PICK j \in 1..k : j = Max(D) /\ j \in D /\ \A i \in D : i <= j
  <2>1. D \in SUBSET (0..k)
    BY <1>2
  <2> HIDE DEF D
  <2>2. Max(D) \in D /\ \A i \in D : i <= Max(D)
    BY <1>2, <2>1, MaxIs
  <2> QED
    BY <1>2, <2>2
<1>4. DecodedAmong(queue, j) = D
  <2>1. ASSUME NEW i \in D PROVE i \in DecodedAmong(queue, j)
    <3>1. i \in 1..k /\ i <= j
      BY <1>2, <1>3
    <3>2. ~FusedWithPrev(queue[i].inst)
      BY DEF DecodedAmong
    <3> QED
      BY <3>1, <3>2 DEF DecodedAmong
  <2>2. ASSUME NEW i \in DecodedAmong(queue, j) PROVE i \in D
    BY <1>3 DEF DecodedAmong
  <2> HIDE DEF D
  <2> QED
    BY <2>1, <2>2
<1>5. SlotsLeft(queue, j) # 0
  BY <1>3 DEF GoesOn, EndsGroup
<1>6. SlotsLeft(queue, j) = s - c
  <2>1. g[1] = queue[Min(D)].inst
    BY DEF GroupSoFar
  <2> HIDE DEF D
  <2> QED
    BY <1>1, <1>2, <1>4, <2>1 DEF SlotsLeft, Slots
<1>7. c <= s
  BY <1>1 DEF GroupSoFar
<1> QED
  BY <1>1, <1>5, <1>6, <1>7

LEMMA GroupGrows ==
  ASSUME Given, NEW queue \in Seq(IQEntries), NEW k \in Nat, k < Len(queue),
         k + 1 \in DecodedAmong(queue, k + 1) => ~NotYet(queue, k + 1),
         GoesOn(queue, k), NEW g \in Seq(Instances), GroupSoFar(g, k, queue)
  PROVE  GroupSoFar(g \o Unfused(queue, k + 1), k + 1, queue)
<1> DEFINE D == DecodedAmong(queue, k)
           E == DecodedAmong(queue, k + 1)
<1>1. PICK x \in Instances, c \in Nat : x = queue[k + 1].inst /\ c = Len(g)
  <2>1. queue[k + 1] \in IQEntries
    OBVIOUS
  <2> QED
    BY <2>1 DEF IQEntries
<1>2. CASE FusedWithPrev(x)
  <2>1. E = D
    BY <1>1, <1>2 DEF DecodedAmong
  <2>2. g \o Unfused(queue, k + 1) = g
    BY <1>1, <1>2, ConcatEmptySeq DEF Unfused
  <2> QED
    BY <2>1, <2>2 DEF GroupSoFar
<1>3. CASE ~FusedWithPrev(x)
  <2>1. E = D \cup {k + 1} /\ k + 1 \notin D
    BY <1>1, <1>3 DEF DecodedAmong
  <2>2. /\ D \in SUBSET (1..k) /\ IsFiniteSet(D) /\ Cardinality(D) = c
        /\ (c = 0 <=> D = {})
    BY <1>1, AmongFacts DEF GroupSoFar
  <2>3. Cardinality(E) = c + 1
    BY <2>1, <2>2, FS_AddElement
  <2>4. PICK h \in Seq(Instances) : /\ h = g \o Unfused(queue, k + 1) /\ Len(h) = c + 1
                                   /\ h[c + 1] = x /\ \A i \in 1..c : h[i] = g[i]
    <3>0. <<x>> \in Seq(Instances)
      BY FewTyped
    <3>1. PICK one \in Nat \ {0}, t \in Seq(Instances) : one = 1 /\ t = <<x>> /\ Len(t) = one /\ t[one] = x
      <4>1. PICK t \in Seq(Instances) : t = <<x>>
        BY <3>0
      <4>2. Len(t) = 1 /\ t[1] = x
        BY <4>1
      <4>3. PICK one \in Nat \ {0} : one = 1
        OBVIOUS
      <4> QED
        BY <4>1, <4>2, <4>3
    <3>2. PICK h \in Seq(Instances) : h = g \o t
      BY Joined
    <3>3. /\ Len(h) = c + one /\ \A i \in 1..c : h[i] = g[i]
          /\ \A i \in 1..one : h[c + i] = t[i]
      <4>0. Len(g) = c
        BY <1>1
      <4>1. Len(h) = Len(g) + Len(t)
        BY <3>2, Joined
      <4>2. \A i \in 1..Len(g) : h[i] = g[i]
        BY <3>2, Joined
      <4>3. \A i \in 1..Len(t) : h[Len(g) + i] = t[i]
        BY <3>2, Joined
      <4> QED
        BY <3>1, <4>0, <4>1, <4>2, <4>3
    <3>4. one \in 1..one
      OBVIOUS
    <3>5. h[c + one] = x
      BY <3>1, <3>3, <3>4
    <3>6. Unfused(queue, k + 1) = t
      BY <1>1, <1>3, <3>1 DEF Unfused
    <3> QED
      BY <3>1, <3>2, <3>3, <3>5, <3>6
  <2>5. \A i \in 1..c + 1 : ~FusedWithPrev(h[i])
    <3> TAKE i \in 1..c + 1
    <3>1. CASE i = c + 1
      BY <1>3, <2>4, <3>1
    <3>2. CASE i \in 1..c
      <4>1. ~FusedWithPrev(g[i])
        BY <1>1, <3>2 DEF GroupSoFar
      <4> QED
        BY <2>4, <3>2, <4>1
    <3> QED
      BY <3>1, <3>2
  <2>6. c # 0 => ~code[x.i].complex
    <3>1. ~NotYet(queue, k + 1)
      BY <2>1
    <3>2. (k + 1) - 1 = k
      OBVIOUS
    <3>3. ~(code[x.i].complex /\ Cardinality(DecodedAmong(queue, (k + 1) - 1)) > 0)
      BY <1>1, <3>1 DEF NotYet
    <3> QED
      BY <2>2, <3>2, <3>3
  <2>7. \A i \in 2..c + 1 : ~code[h[i].i].complex
    <3> TAKE i \in 2..c + 1
    <3>1. CASE i = c + 1
      BY <2>4, <2>6, <3>1, SMTT(20)
    <3>2. CASE i \in 2..c
      <4>1. ~code[g[i].i].complex
        BY <1>1, <3>2 DEF GroupSoFar
      <4> QED
        BY <2>4, <3>2, <4>1, SMTT(20)
    <3> QED
      BY <3>1, <3>2
  <2>8. h[1] = queue[Min(E)].inst /\ c + 1 <= Slots(h[1])
    <3>1. CASE c = 0
      <4>1. E = {k + 1}
        BY <2>1, <2>2, <3>1
      <4>2. Min(E) = k + 1
        <5>1. E \in SUBSET Nat /\ E # {}
          BY <4>1
        <5>2. Min(E) \in E
          <6> HIDE DEF E
          <6> QED
            BY <5>1, MinIs
        <5> QED
          BY <4>1, <5>2
      <4> QED
        BY <1>1, <2>4, <3>1, <4>2, SlotsTyped
    <3>2. CASE c # 0
      <4>1. D # {} /\ g # <<>>
        BY <1>1, <2>2, <3>2, EmptySeq
      <4>2. Min(E) = Min(D)
        <5>1. D \in SUBSET Nat /\ E \in SUBSET Nat /\ E # {}
          BY <2>1, <2>2
        <5> HIDE DEF D, E
        <5>2. Min(D) \in D /\ \A y \in D : Min(D) <= y
          BY <4>1, <5>1, MinIs
        <5>3. Min(E) \in E /\ \A y \in E : Min(E) <= y
          BY <5>1, MinIs
        <5>4. \A y \in D : y <= k
          BY <2>2
        <5>5. PICK a \in Nat, b \in Nat : a = Min(D) /\ b = Min(E)
          BY <5>1, <5>2, <5>3
        <5>6. a \in E /\ a \in 1..k /\ b <= a
          BY <2>1, <2>2, <5>2, <5>3, <5>5
        <5>7. b \in D
          BY <2>1, <5>3, <5>5, <5>6
        <5>8. a <= b
          BY <5>2, <5>5, <5>7
        <5> QED
          BY <5>5, <5>6, <5>8
      <4>3. Len(g) < Slots(g[1])
        BY <4>1, DecoderLeft
      <4>4. h[1] = g[1] /\ g[1] \in Instances
        BY <1>1, <2>4, <3>2
      <4>5. PICK s \in Nat : s = Slots(g[1])
        BY <4>4, SlotsTyped
      <4>6. g[1] = queue[Min(D)].inst
        BY <4>1 DEF GroupSoFar
      <4> HIDE DEF D, E
      <4> QED
        BY <1>1, <4>2, <4>3, <4>4, <4>5, <4>6
    <3> QED
      BY <3>1, <3>2
  <2> HIDE DEF E
  <2> QED
    BY <2>3, <2>4, <2>5, <2>7, <2>8 DEF GroupSoFar, E
<1> QED
  BY <1>2, <1>3

LEMMA GroupIs ==
  ASSUME Given, NEW queue \in Seq(IQEntries)
  PROVE  GroupSoFar(DecodedGroup(queue), GroupLength(queue), queue)
<1>1. PICK n \in Nat, l \in Nat : n = GroupLength(queue) /\ l = Len(queue) /\ n <= l
  BY GroupTyped
<1>2. /\ \A j \in DecodedAmong(queue, n) : ~NotYet(queue, j)
      /\ \A j \in DecodedAmong(queue, n - 1) : ~EndsGroup(queue, j)
  BY <1>1, GroupTyped
<1>3. ASSUME NEW j \in 1..n PROVE Unfused(queue, j) \in Seq(Instances)
  <2>1. queue[j] \in IQEntries
    BY <1>1
  <2>2. PICK x \in Instances : x = queue[j].inst
    BY <2>1 DEF IQEntries
  <2>3. <<x>> \in Seq(Instances) /\ <<>> \in Seq(Instances)
    BY FewTyped
  <2> QED
    BY <2>2, <2>3 DEF Unfused
<1>4. PICK parts \in [1..n -> Seq(Instances)] : parts = [j \in 1..n |-> Unfused(queue, j)]
  BY <1>3
<1>5. parts \in Seq(Seq(Instances)) /\ Len(parts) = n
  OBVIOUS
<1>6. PICK v : v = DecodedGroup(queue) /\ v = FlattenSeq(parts)
  BY <1>1, <1>4 DEF DecodedGroup, Unfused
<1>7. PICK a : Grows(a, n, Instances, parts) /\ a[n] = v
  BY <1>5, <1>6, FlattenGrows
<1> DEFINE T == {k \in 0..n : GroupSoFar(a[k], k, queue)}
<1>8. 0 \in T
  <2>1. DecodedAmong(queue, 0) = {}
    BY DEF DecodedAmong
  <2>2. Cardinality(DecodedAmong(queue, 0)) = 0
    BY <2>1, FS_EmptySet
  <2>3. a[0] = <<>>
    BY <1>7 DEF Grows
  <2>4. PICK e \in Seq(Instances) : e = <<>> /\ Len(e) = 0
    <3>1. <<>> \in Seq(Instances) /\ Len(<<>>) = 0
      OBVIOUS
    <3> QED
      BY <3>1
  <2>5. (\A i \in 1..Len(e) : ~FusedWithPrev(e[i])) /\ (\A i \in 2..Len(e) : ~code[e[i].i].complex)
    BY <2>4
  <2> HIDE DEF T
  <2>6. GroupSoFar(e, 0, queue)
    BY <2>2, <2>4, <2>5 DEF GroupSoFar
  <2>7. GroupSoFar(a[0], 0, queue) /\ 0 \in 0..n
    BY <2>3, <2>4, <2>6
  <2> QED
    BY <2>7 DEF T
<1>9. ASSUME NEW k \in 0..n, k < n, k \in T PROVE k + 1 \in T
  <2>1. k + 1 \in 1..n /\ (k + 1) - 1 = k /\ k \in Nat /\ k < Len(queue)
    BY <1>1, <1>9
  <2>2. a[k] \in Seq(Instances) /\ a[k + 1] = a[k] \o Unfused(queue, k + 1)
    BY <1>4, <1>7, <2>1 DEF Grows
  <2>3. k + 1 \in DecodedAmong(queue, k + 1) => ~NotYet(queue, k + 1)
    BY <1>2, <2>1 DEF DecodedAmong
  <2>4. GoesOn(queue, k)
    BY <1>2, <2>1, <1>9 DEF GoesOn, DecodedAmong
  <2>5. GroupSoFar(a[k], k, queue)
    BY <1>9
  <2> HIDE DEF T
  <2>6. GroupSoFar(a[k] \o Unfused(queue, k + 1), k + 1, queue)
    BY <2>1, <2>2, <2>3, <2>4, <2>5, GroupGrows
  <2>7. GroupSoFar(a[k + 1], k + 1, queue) /\ k + 1 \in 0..n
    BY <2>1, <2>2, <2>6
  <2> QED
    BY <2>7 DEF T
<1> HIDE DEF T
<1>10. \A k \in 0..n : k \in T
  BY <1>8, <1>9, UpTo
<1>11. n \in T
  BY <1>10
<1> USE DEF T
<1> QED
  BY <1>1, <1>6, <1>7, <1>11

(* The decoders deliver no more in a cycle than the width of the DSB: all  *)
(* of a group but the first take simple decoders.                          *)
LEMMA GroupFits ==
  ASSUME Given, Fits, NEW queue \in Seq(IQEntries), NEW g \in Seq(Instances), g = DecodedGroup(queue)
  PROVE  Len(FlattenSeq([j \in DOMAIN g |-> MiteUops(g[j])])) <= DSBWidth
<1>1. PICK n \in Nat, w \in Nat \ {0}, d \in Nat \ {0} :
         n = Len(g) /\ DOMAIN g = 1..n /\ w = DSBWidth /\ d = NDecoders
  BY DEF Given, Machine
<1>2. GroupSoFar(g, GroupLength(queue), queue)
  BY GroupIs
<1>3. PICK m \in [1..n -> 0..4] : \A j \in 1..n : m[j] = code[g[j].i].mite
  <2>1. ASSUME NEW j \in 1..n PROVE code[g[j].i].mite \in 0..4
    <3>1. g[j] \in Instances
      BY <1>1
    <3> QED
      BY <3>1, CountTyped
  <2>2. PICK m \in [1..n -> 0..4] : m = [j \in 1..n |-> code[g[j].i].mite]
    BY <2>1
  <2> QED
    BY <2>2
<1>4. ASSUME NEW j \in 1..n, ~code[g[j].i].complex PROVE m[j] <= 1
  <2>1. g[j] \in Instances /\ m[j] = code[g[j].i].mite
    BY <1>1, <1>3
  <2>2. g[j].i \in 1..Len(code) /\ code[g[j].i].ms \in Nat
    BY <2>1, InstanceFacts, CountTyped
  <2>3. code[g[j].i].mite + code[g[j].i].ms <= 1
    BY <1>4, <2>2 DEF Fits
  <2>4. PICK e \in Nat : e = code[g[j].i].ms
    BY <2>2
  <2>5. m[j] + e <= 1
    BY <2>1, <2>3, <2>4
  <2> QED
    BY <1>3, <2>5, SMTT(20)
<1>5. \A j \in 2..n : m[j] <= 1
  <2> TAKE j \in 2..n
  <2>1. j \in 1..n /\ ~code[g[j].i].complex
    BY <1>1, <1>2 DEF GroupSoFar
  <2> QED
    BY <1>4, <2>1
<1>6. PICK parts \in [1..n -> Seq(Uops)] :
         parts = [j \in 1..n |-> MiteUops(g[j])] /\ \A j \in 1..n : Len(parts[j]) = m[j]
  <2>1. ASSUME NEW j \in 1..n PROVE MiteUops(g[j]) \in Seq(Uops) /\ Len(MiteUops(g[j])) = m[j]
    <3>1. g[j] \in Instances /\ m[j] = code[g[j].i].mite
      BY <1>1, <1>3
    <3> QED
      BY <3>1, LamUopsTyped
  <2>2. PICK parts \in [1..n -> Seq(Uops)] : parts = [j \in 1..n |-> MiteUops(g[j])]
    BY <2>1
  <2> QED
    BY <2>1, <2>2
<1>7. parts \in Seq(Seq(Uops)) /\ Len(parts) = n
  OBVIOUS
<1>8. PICK v : v = FlattenSeq(parts) /\ v = FlattenSeq([j \in DOMAIN g |-> MiteUops(g[j])])
  BY <1>1, <1>6
<1>9. PICK a : Grows(a, n, Uops, parts) /\ a[n] = v
  BY <1>7, <1>8, FlattenGrows
<1>10. ASSUME n # 0 PROVE Len(v) <= m[1] + (n - 1)
  <2> DEFINE T == {k \in 0..n : k # 0 => Len(a[k]) <= m[1] + (k - 1)}
  <2>1. 0 \in T
    OBVIOUS
  <2>2. ASSUME NEW k \in 0..n, k < n, k \in T PROVE k + 1 \in T
    <3>1. k + 1 \in 1..n /\ (k + 1) - 1 = k
      BY <2>2
    <3>2. PICK s \in Seq(Uops), t \in Seq(Uops) : s = a[k] /\ t = parts[k + 1] /\ a[k + 1] = s \o t
      <4>1. a[k] \in Seq(Uops) /\ parts[k + 1] \in Seq(Uops)
        BY <1>9, <3>1 DEF Grows
      <4>2. a[k + 1] = a[k] \o parts[k + 1]
        BY <1>9, <3>1 DEF Grows
      <4> QED
        BY <4>1, <4>2
    <3>3. Len(a[k + 1]) = Len(s) + Len(t)
      BY <3>2, Joined
    <3>4. Len(t) = m[k + 1]
      BY <1>6, <3>1, <3>2
    <3>5. PICK b \in Nat, e \in Nat, f \in Nat : b = Len(s) /\ e = m[k + 1] /\ f = m[1]
      <4>1. 1 \in 1..n
        BY <1>10
      <4>2. m[k + 1] \in 0..4 /\ m[1] \in 0..4
        BY <3>1, <4>1
      <4>3. m[k + 1] \in Nat /\ m[1] \in Nat
        BY <4>2, SMTT(20)
      <4> QED
        BY <3>2, <4>3
    <3>6. Len(a[k + 1]) = b + e
      BY <3>3, <3>4, <3>5
    <3>7. CASE k = 0
      <4>1. Len(s) = 0
        BY <1>9, <3>2, <3>7 DEF Grows
      <4>2. b + e <= f + ((k + 1) - 1)
        BY <3>5, <3>7, <4>1
      <4> QED
        BY <3>1, <3>5, <3>6, <4>2
    <3>8. CASE k # 0
      <4>1. e <= 1
        BY <1>5, <3>1, <3>5, <3>8
      <4>2. b <= f + (k - 1)
        BY <2>2, <3>2, <3>5, <3>8
      <4>3. b + e <= f + ((k + 1) - 1)
        BY <4>1, <4>2, <3>8
      <4> QED
        BY <3>1, <3>5, <3>6, <4>3
    <3> QED
      BY <3>7, <3>8
  <2> HIDE DEF T
  <2>3. \A k \in 0..n : k \in T
    BY <2>1, <2>2, UpTo
  <2>4. n \in T
    BY <2>3
  <2> QED
    BY <1>9, <1>10, <2>4 DEF T
<1>11. v \in Seq(Uops)
  BY <1>9 DEF Grows
<1>12. CASE n = 0
  BY <1>1, <1>8, <1>9, <1>12 DEF Grows
<1>13. CASE n # 0
  <2>1. PICK l \in Nat, f \in 0..4 : l = Len(v) /\ f = m[1] /\ l <= f + (n - 1)
    BY <1>3, <1>10, <1>11, <1>13
  <2>2. PICK x \in Instances : x = g[1] /\ f = code[x.i].mite
    BY <1>1, <1>3, <1>13, <2>1
  <2>3. n <= Slots(x)
    BY <1>1, <1>2, <1>13, <2>2, EmptySeq DEF GroupSoFar
  <2>4. CASE code[x.i].complex
    <3>1. PICK avail \in Nat : avail = Min({NDecoders - 1, code[x.i].simple})
      <4>1. code[x.i] \in Instr
        BY InstanceFacts
      <4>2. PICK p \in Nat, q \in Nat : p = NDecoders - 1 /\ q = code[x.i].simple
        <5>1. code[x.i].simple \in Nat
          BY <4>1 DEF Instr
        <5>2. NDecoders - 1 \in Nat
          BY <1>1
        <5> QED
          BY <5>1, <5>2
      <4>3. Min({p, q}) \in Nat
        BY LesserOf
      <4> QED
        BY <4>2, <4>3
    <3>2. n <= 1 + avail
      BY <2>3, <2>4, <3>1 DEF Slots
    <3>3. f + avail <= w
      BY <1>1, <2>2, <2>4, <3>1, InstanceFacts DEF Fits
    <3>4. l <= w
      BY <2>1, <3>2, <3>3
    <3> QED
      BY <1>1, <1>8, <2>1, <3>4
  <2>5. CASE ~code[x.i].complex
    <3>1. n <= d
      BY <1>1, <2>3, <2>5 DEF Slots
    <3>2. f <= 1
      <4>1. 1 \in 1..n /\ ~code[g[1].i].complex
        BY <1>13, <2>2, <2>5
      <4>2. m[1] <= 1
        BY <1>4, <4>1
      <4> QED
        BY <2>1, <4>2
    <3>3. d <= w
      BY <1>1 DEF Fits
    <3>4. l <= w
      BY <2>1, <3>1, <3>2, <3>3
    <3> QED
      BY <1>1, <1>8, <2>1, <3>4
  <2> QED
    BY <2>4, <2>5
<1> QED
  BY <1>12, <1>13

-------------------------------------------------------------------------------
(* The width of the decode queue.                                          *)

(* Nothing that RoundUops is made of changes.                              *)
LEMMA RoundUopsKept ==
  ASSUME UNCHANGED <<arch, code>>
  PROVE  RoundUops' = RoundUops
BY DEF RoundUops, UopsOf, Round, LamUops, UopCount, Uop, FusedWithPrev, Address, Preceding, Later,
       CodeSize, SizeOf, RoundBytes, Linear, Unroll, Rounds, AlignmentOffset, SimpleFrontEnd

(* Which source fills the queue of which code.                             *)
SourceInv ==
  /\ source = "none" => SimpleFrontEnd
  /\ source = "LSD" => ~Linear /\ RoundUops <= IDQWidth

QueueInv == FrontInv /\ SourceInv /\ IDQWithinWidth

LEMMA WithinByReals ==
  ASSUME Cardinality(Reals(idq)) <= IDQWidth
  PROVE  IDQWithinWidth
BY DEF Reals, IDQWithinWidth

LEMMA QueueInvInit ==
  ASSUME Init
  PROVE  QueueInv
<1>1. FrontInv /\ Given /\ Fits
  BY FrontInvInit, SetUpGiven, SetUpFits DEF FrontInv
<1>2. PICK w \in Nat : w = IDQWidth
  BY <1>1 DEF Given, Machine
<1>3. CASE idq = <<>>
  <2>1. idq \in Seq(Uops) /\ Len(idq) = 0
    BY <1>3
  <2>2. Cardinality(Reals(idq)) <= w
    <3>1. Cardinality(Reals(idq)) \in 0..Len(idq)
      BY <2>1, RealsBounded
    <3> QED
      BY <2>1, <3>1
  <2>3. SourceInv
    BY <1>3 DEF Init, SourceInv, Linear, UseLSD
  <2> QED
    BY <1>1, <1>2, <2>2, <2>3, WithinByReals DEF QueueInv
<1>4. CASE ~Linear /\ UseLSD /\ source = "LSD" /\ idq = LSDUops(0)
  <2>1. RoundUops <= IDQWidth
    BY <1>4 DEF UseLSD
  <2>2. idq \in Seq(Uops) /\ Len(idq) <= w
    BY <1>1, <1>2, <1>4, <2>1, LSDUopsFit DEF FrontInv
  <2>3. PICK c \in Nat, l \in Nat : c = Cardinality(Reals(idq)) /\ l = Len(idq) /\ c <= l
    BY <2>2, RealsBounded
  <2>4. Cardinality(Reals(idq)) <= w
    BY <2>2, <2>3
  <2>5. SourceInv
    BY <1>4, <2>1 DEF SourceInv
  <2> QED
    BY <1>1, <1>2, <2>4, <2>5, WithinByReals DEF QueueInv
<1>5. idq = <<>> \/ (~Linear /\ UseLSD /\ source = "LSD" /\ idq = LSDUops(0))
  BY DEF Init
<1> QED
  BY <1>3, <1>4, <1>5

(* A source that delivers no more than the DSB is wide fills the room that *)
(* HasRoom has seen.                                                       *)
LEMMA RoomFilled ==
  ASSUME Given, rspOffset \in Offsets, NEW queue \in Seq(Uops), HasRoom(queue),
         NEW uops \in Seq(Uops), Len(uops) <= DSBWidth, Deliver(queue, uops)
  PROVE  Cardinality(Reals(idq')) <= IDQWidth
<1>1. PICK put \in PutStates : put = FoldLeft(PutUop, [idq |-> queue, offset |-> rspOffset], uops)
  BY PutUopsTyped
<1>2. idq' = put.idq
  BY <1>1 DEF Deliver, PutUops
<1>3. Cardinality(Reals(put.idq)) <= Len(queue) + Len(uops)
  BY <1>1, RealsDelivered
<1>4. put.idq \in Seq(Uops)
  BY DEF PutStates
<1>5. PICK c \in Nat, l \in Nat, n \in Nat, d \in Nat, w \in Nat :
         c = Cardinality(Reals(put.idq)) /\ l = Len(queue) /\ n = Len(uops) /\ d = DSBWidth /\ w = IDQWidth
  BY <1>4, RealsBounded DEF Given, Machine
<1>6. c <= l + n /\ n <= d /\ l + d <= w
  BY <1>3, <1>5 DEF HasRoom
<1>7. c <= w
  BY <1>6
<1> QED
  BY <1>2, <1>5, <1>7

(* What the renamer left is no more than what was there.                   *)
LEMMA LeftWithin ==
  ASSUME QueueInv, ~SimpleFrontEnd, NEW n \in Nat, n <= Len(idq), NEW queue \in Seq(Uops),
         queue = SubSeq(idq, n + 1, Len(idq)), idq' = queue
  PROVE  Cardinality(Reals(idq')) <= IDQWidth
<1>1. idq \in Seq(Uops)
  BY DEF QueueInv, FrontInv
<1>2. Cardinality(Reals(idq)) <= IDQWidth
  BY DEF QueueInv, IDQWithinWidth, Reals
<1>3. Cardinality(Reals(queue)) <= Cardinality(Reals(idq))
  BY <1>1, RealsTaken
<1>4. PICK a \in Nat, b \in Nat, w \in Nat :
         a = Cardinality(Reals(queue)) /\ b = Cardinality(Reals(idq)) /\ w = IDQWidth
  <2>1. Cardinality(Reals(queue)) \in Nat /\ Cardinality(Reals(idq)) \in Nat
    <3>1. \A q \in Seq(Uops) : Cardinality(Reals(q)) \in 0..Len(q) /\ Len(q) \in Nat
      BY RealsBounded
    <3>2. \A q \in Seq(Uops) : Cardinality(Reals(q)) \in Nat
      BY <3>1
    <3> QED
      BY <1>1, <3>2
  <2>2. IDQWidth \in Nat
    BY SetUpGiven DEF QueueInv, FrontInv, Given, Machine
  <2> QED
    BY <2>1, <2>2
<1>5. a <= w
  BY <1>2, <1>3, <1>4
<1> QED
  BY <1>4, <1>5

LEMMA MSFillWithin ==
  ASSUME FrontInv, Fits, NEW queue \in Seq(Uops), HasRoom(queue), MSFill(queue)
  PROVE  Cardinality(Reals(idq')) <= IDQWidth
<1>1. Given /\ rspOffset \in Offsets /\ ms \in MSStates
  BY SetUpGiven DEF FrontInv
<1>2. PICK uops \in Seq(Uops) : uops = MSCycle(ms).uops /\ Len(uops) <= MSWidth
  BY <1>1, MSCycleTyped
<1>3. Len(uops) <= DSBWidth
  BY <1>1, <1>2 DEF Fits, MSWidth, Given, Machine
<1>4. Deliver(queue, uops)
  BY <1>2 DEF MSFill
<1> QED
  BY <1>1, <1>3, <1>4, RoomFilled

(* What the predecoder hands the decoders.                                 *)
LEMMA PreDecodedTyped ==
  ASSUME FrontInv
  PROVE  PreDecode(RefilledPreDecoder, Aged(iq)).iq \in Seq(IQEntries)
<1>1. Given /\ iq \in Seq(IQEntries)
  BY SetUpGiven DEF FrontInv
<1>2. PICK aged \in Seq(IQEntries) : aged = Aged(iq) /\ Len(aged) = Len(iq)
  BY <1>1, AgedTyped
<1>3. PICK p \in PreDecoders : p = RefilledPreDecoder /\ p.preDecQueue = predecoder.preDecQueue
  BY QueuesTyped
<1>4. Len(aged) + Len(p.preDecQueue) <= IQWidth
  BY <1>2, <1>3 DEF FrontInv, IQWithinWidth
<1>5. PreDecode(p, aged).iq \in Seq(IQEntries)
  BY <1>1, <1>4, PreDecodeTyped
<1> QED
  BY <1>2, <1>3, <1>5

LEMMA MITEFillWithin ==
  ASSUME FrontInv, Fits, NEW queue \in Seq(Uops), HasRoom(queue), MITEFill(queue)
  PROVE  Cardinality(Reals(idq')) <= IDQWidth
<1>1. Given /\ rspOffset \in Offsets
  BY SetUpGiven DEF FrontInv
<1>2. PICK q \in Seq(IQEntries) : q = PreDecode(RefilledPreDecoder, Aged(iq)).iq
  BY PreDecodedTyped
<1>3. PICK group \in Seq(Instances) : group = DecodedGroup(q)
  BY DecodedGroupTyped
<1>4. PICK uops \in Seq(Uops) : uops = FlattenSeq([j \in DOMAIN group |-> MiteUops(group[j])])
  BY <1>1, GroupUopsTyped
<1>5. Len(uops) <= DSBWidth
  BY <1>1, <1>3, <1>4, GroupFits
<1>6. Deliver(queue, uops)
  BY <1>2, <1>3, <1>4 DEF MITEFill
<1> QED
  BY <1>1, <1>5, <1>6, RoomFilled

(* The uops the DSB hands over.                                            *)
LEMMA DsbUopsTyped ==
  ASSUME FrontInv, NEW queue \in Seq(Uops), DSBFill(queue)
  PROVE  \E uops \in Seq(Uops) : Len(uops) <= DSBWidth /\ Deliver(queue, uops)
<1>1. Given /\ ms \in MSStates
  BY SetUpGiven DEF FrontInv
<1>2. PICK buffer \in [blockQueue : EntryBlocks, delayed : BOOLEAN] : buffer = RefilledDsb
  BY QueuesTyped
<1>3. PICK read \in ReadStates : read = DsbRead(buffer)
  BY <1>1, DsbReadTyped
<1>4. PICK n \in Nat, out \in Seq(Entries), s \in Nat, d \in Nat :
         out = read.out /\ n = Len(out) /\ s = read.slots /\ d = DSBWidth /\ n + s <= d
  BY <1>1 DEF ReadStates, Given, Machine
<1>5. PICK uops \in Seq(Uops) : uops = [j \in DOMAIN out |-> Uop(out[j].inst, out[j].k)] /\ Len(uops) = n
  <2>1. ASSUME NEW j \in 1..n PROVE Uop(out[j].inst, out[j].k) \in Uops
    <3>1. out[j] \in Entries
      BY <1>4
    <3>2. out[j].inst \in Instances /\ out[j].k \in Nat
      BY <3>1 DEF Entries
    <3> QED
      BY <1>1, <3>2, UopTyped
  <2>2. PICK g \in [1..n -> Uops] : g = [j \in 1..n |-> Uop(out[j].inst, out[j].k)]
    BY <2>1
  <2>3. g \in Seq(Uops) /\ Len(g) = n /\ DOMAIN out = 1..n
    BY <1>4
  <2> QED
    BY <2>2, <2>3
<1>6. Deliver(queue, uops)
  BY <1>2, <1>3, <1>4, <1>5 DEF DSBFill
<1>7. Len(uops) <= DSBWidth
  BY <1>4, <1>5
<1> QED
  BY <1>6, <1>7

LEMMA DSBFillWithin ==
  ASSUME FrontInv, NEW queue \in Seq(Uops), HasRoom(queue), DSBFill(queue)
  PROVE  Cardinality(Reals(idq')) <= IDQWidth
<1>1. Given /\ rspOffset \in Offsets
  BY SetUpGiven DEF FrontInv
<1>2. PICK uops \in Seq(Uops) : Len(uops) <= DSBWidth /\ Deliver(queue, uops)
  BY DsbUopsTyped
<1> QED
  BY <1>1, <1>2, RoomFilled

LEMMA QueueInvStep ==
  ASSUME QueueInv, [Next]_vars
  PROVE  QueueInv'
<1>1. FrontInv' /\ FrontInv /\ Given /\ Fits
  BY FrontInvStep, SetUpGiven, SetUpFits DEF QueueInv, FrontInv
<1>2. CASE UNCHANGED vars
  <2>1. UNCHANGED <<arch, code, source, idq>>
    BY <1>2 DEF vars
  <2>2. RoundUops' = RoundUops
    BY <2>1, RoundUopsKept
  <2>3. SourceInv'
    BY <2>1, <2>2 DEF QueueInv, SourceInv, SimpleFrontEnd, Linear, Unroll, IDQWidth
  <2>4. IDQWithinWidth'
    BY <2>1 DEF QueueInv, IDQWithinWidth, SimpleFrontEnd, IDQWidth
  <2> QED
    BY <1>1, <2>3, <2>4 DEF QueueInv
<1>3. CASE Next
  <2>1. PICK n \in 0..IssueWidth : Cycle(n)
    BY <1>3 DEF Next
  <2>2. n \in Nat /\ n <= Len(idq)
    BY <1>1, <2>1 DEF Cycle, Take, Given, Machine
  <2>3. PICK queue \in Seq(Uops) : queue = SubSeq(idq, n + 1, Len(idq))
    BY <1>1, <2>2, TakenTyped
  <2>4. UNCHANGED <<arch, code>>
    BY <2>1 DEF Cycle
  <2>5. RoundUops' = RoundUops /\ IDQWidth' = IDQWidth /\ SimpleFrontEnd' = SimpleFrontEnd
        /\ Linear' = Linear
    BY <2>4, RoundUopsKept DEF IDQWidth, SimpleFrontEnd, Linear, Unroll
  <2>6. \/ Full(queue)
        \/ SimpleFill(queue)
        \/ LSDFill(queue)
        \/ HasRoom(queue) /\ (MSFill(queue) \/ MITEFill(queue) \/ DSBFill(queue))
    BY <2>1, <2>3 DEF Cycle
  <2>7. SourceInv'
    <3>1. source' = source \/ source' \in {"MITE", "DSB"}
      BY <2>6 DEF Full, SimpleFill, LSDFill, MSFill, MITEFill, DSBFill
    <3> QED
      BY <2>5, <3>1 DEF QueueInv, SourceInv
  <2>8. ~SimpleFrontEnd => Cardinality(Reals(idq')) <= IDQWidth
    <3> SUFFICES ASSUME ~SimpleFrontEnd PROVE Cardinality(Reals(idq')) <= IDQWidth
      OBVIOUS
    <3>1. CASE Full(queue)
      BY <2>2, <2>3, <3>1, LeftWithin DEF Full
    <3>2. ~SimpleFill(queue)
      BY DEF SimpleFill, QueueInv, SourceInv
    <3>3. CASE LSDFill(queue) /\ queue # <<>>
      BY <2>2, <2>3, <3>3, LeftWithin DEF LSDFill
    <3>4. CASE LSDFill(queue) /\ queue = <<>>
      <4>1. ~Linear /\ RoundUops <= IDQWidth /\ idq' = LSDUops(nextInst.rnd)
        BY <3>4 DEF LSDFill, QueueInv, SourceInv
      <4>2. nextInst.rnd \in Nat
        BY <1>1, InstanceFacts DEF FrontInv
      <4>3. PICK q \in Seq(Uops) : q = idq' /\ Len(q) <= IDQWidth
        BY <1>1, <4>1, <4>2, LSDUopsFit, StartFacts
      <4>4. PICK c \in Nat, l \in Nat, w \in Nat :
               c = Cardinality(Reals(q)) /\ l = Len(q) /\ c <= l /\ w = IDQWidth
        BY <1>1, RealsBounded DEF Given, Machine
      <4>5. c <= w
        BY <4>3, <4>4
      <4> QED
        BY <4>3, <4>4, <4>5
    <3>5. CASE HasRoom(queue) /\ MSFill(queue)
      BY <1>1, <3>5, MSFillWithin
    <3>6. CASE HasRoom(queue) /\ MITEFill(queue)
      BY <1>1, <3>6, MITEFillWithin
    <3>7. CASE HasRoom(queue) /\ DSBFill(queue)
      BY <1>1, <3>7, DSBFillWithin
    <3> QED
      BY <2>6, <3>1, <3>2, <3>3, <3>4, <3>5, <3>6, <3>7
  <2>9. IDQWithinWidth'
    <3>1. Reals(idq') = {j \in DOMAIN idq' : ~IsSync(idq'[j])}
      BY DEF Reals
    <3> QED
      BY <2>5, <2>8, <3>1 DEF IDQWithinWidth
  <2> QED
    BY <1>1, <2>7, <2>9 DEF QueueInv
<1> QED
  BY <1>2, <1>3

(* Both queues of the front end keep within their widths. The room for a   *)
(* group that FrontEnd::cycle tests for holds whatever the source then     *)
(* delivers, a loop the LSD unrolls fits, and the predecoder has reserved  *)
(* the room of what it hands over; only stack synchronisations may come on *)
(* top.                                                                    *)
THEOREM QueuesKeepWidth == Spec => []QueuesWithinWidth
<1>1. Init => QueueInv
  BY QueueInvInit
<1>2. QueueInv /\ [Next]_vars => QueueInv'
  BY QueueInvStep
<1>3. QueueInv => QueuesWithinWidth
  BY DEF QueueInv, FrontInv, QueuesWithinWidth
<1> QED
  BY <1>1, <1>2, <1>3, PTL DEF Spec

-------------------------------------------------------------------------------
(* Changing to the DSB.                                                    *)

(* Behind the last instruction decoded of a round of a loop the next uop   *)
(* is the first of a round.                                                *)
LEMMA RoundEnds ==
  ASSUME Given, ~Linear, NEW x \in Instances, LastDecoded(x)
  PROVE  FirstUopFrom(Following(x)).i = 1
<1>1. PICK l \in Nat \ {0}, i \in Nat : l = Len(code) /\ i = x.i /\ 1 <= i /\ i <= l
  BY CodeFacts, InstanceFacts
<1>2. ASSUME NEW y \in Instances, y.i = l PROVE Following(y).i = 1
  BY <1>1, <1>2, FollowingIs
<1>3. ASSUME NEW y, y.i = 1 PROVE ~FusedWithPrev(y)
  BY <1>3 DEF FusedWithPrev
<1>4. Following(x) \in Instances
  <2>1. PICK one \in Nat : one = 1
    OBVIOUS
  <2> QED
    BY <2>1, LaterTyped DEF Following
<1>5. CASE i = l
  <2>1. Following(x).i = 1
    BY <1>1, <1>2, <1>5
  <2>2. FirstUopFrom(Following(x)) = Uop(Following(x), 1)
    BY <1>3, <2>1 DEF FirstUopFrom
  <2> QED
    BY <2>1, <2>2 DEF Uop
<1>6. CASE i = l - 1 /\ FusedWithNext(x)
  <2>1. Following(x).i = l
    <3>1. x.i < Len(code)
      BY <1>1, <1>6
    <3>2. PICK y : y = Following(x) /\ y = [rnd |-> x.rnd, i |-> x.i + 1]
      BY <3>1, FollowingIs
    <3>3. y.i = x.i + 1
      BY <3>2
    <3> QED
      BY <1>1, <1>6, <3>2, <3>3
  <2>2. Following(Following(x)).i = 1
    BY <1>2, <1>4, <2>1
  <2>3. FirstUopFrom(Following(x)) = Uop(Following(Following(x)), 1)
    BY <1>6 DEF FirstUopFrom, FusedWithNext
  <2> QED
    BY <2>2, <2>3 DEF Uop
<1> QED
  BY <1>1, <1>5, <1>6 DEF LastDecoded

LEMMA LastFlattened ==
  ASSUME NEW S, NEW parts \in Seq(Seq(S)), parts # <<>>,
         NEW t \in Seq(S), t = parts[Len(parts)], t # <<>>
  PROVE  /\ FlattenSeq(parts) \in Seq(S) /\ FlattenSeq(parts) # <<>>
         /\ FlattenSeq(parts)[Len(FlattenSeq(parts))] = t[Len(t)]
<1>1. PICK n \in Nat \ {0}, m \in Nat \ {0} : n = Len(parts) /\ m = Len(t)
  BY EmptySeq
<1>2. PICK v : v = FlattenSeq(parts)
  OBVIOUS
<1>3. PICK a : Grows(a, n, S, parts) /\ a[n] = v
  BY <1>1, <1>2, FlattenGrows
<1>4. PICK b \in Seq(S), l \in Nat : b = a[n - 1] /\ l = Len(b) /\ v = b \o t
  <2>1. n \in 1..n /\ n - 1 \in 0..n
    OBVIOUS
  <2>2. a[n - 1] \in Seq(S) /\ a[n] = a[n - 1] \o t
    BY <1>1, <1>3, <2>1 DEF Grows
  <2>3. PICK b \in Seq(S) : b = a[n - 1]
    BY <2>2
  <2>4. v = b \o t
    BY <1>3, <2>2, <2>3
  <2>5. Len(b) \in Nat
    OBVIOUS
  <2> QED
    BY <2>3, <2>4, <2>5
<1>5. PICK w \in Seq(S) : w = v /\ Len(w) = l + m /\ w[l + m] = t[m]
  <2>1. /\ b \o t \in Seq(S) /\ Len(b \o t) = l + m
        /\ \A j \in 1..m : (b \o t)[l + j] = t[j]
    <3>1. PICK c \in Seq(S) : c = t
      OBVIOUS
    <3>2. /\ b \o c \in Seq(S) /\ Len(b \o c) = Len(b) + Len(c)
          /\ \A j \in 1..Len(c) : (b \o c)[Len(b) + j] = c[j]
      BY Joined
    <3> QED
      BY <1>1, <1>4, <3>1, <3>2
  <2>2. m \in 1..m
    OBVIOUS
  <2> QED
    BY <1>4, <2>1, <2>2
<1>6. Len(w) # 0
  BY <1>5
<1> QED
  BY <1>1, <1>2, <1>5, <1>6, EmptySeq

(* The last uop delivered is the last of the queue.                        *)
QueueWith(queue, o, uops) == FoldLeft(PutUop, [idq |-> queue, offset |-> o], uops).idq

LEMMA LastPut ==
  ASSUME Given, NEW queue \in Seq(Uops), NEW o \in Offsets, NEW uops \in Seq(Uops), uops # <<>>
  PROVE  /\ QueueWith(queue, o, uops) \in Seq(Uops) /\ QueueWith(queue, o, uops) # <<>>
         /\ QueueWith(queue, o, uops)[Len(QueueWith(queue, o, uops))] = uops[Len(uops)]
<1>0. PICK q : q = QueueWith(queue, o, uops)
  OBVIOUS
<1>1. PICK n \in Nat \ {0} : n = Len(uops)
  BY EmptySeq
<1>2. PICK v : v = FoldLeft(PutUop, [idq |-> queue, offset |-> o], uops) /\ q = v.idq
  BY <1>0 DEF QueueWith
<1>3. PICK a : PutRun(a, n, queue, o, uops) /\ a[n] = v
  BY <1>1, <1>2, PutsRun
<1>4. PICK acc \in PutStates, u \in Uops : u = uops[n] /\ v = PutUop(acc, u)
  <2>1. n \in 1..n /\ n - 1 \in 0..n
    OBVIOUS
  <2>2. a[n - 1] \in PutStates /\ uops[n] \in Uops /\ a[n] = PutUop(a[n - 1], uops[n])
    BY <1>1, <1>3, <2>1 DEF PutRun
  <2> QED
    BY <1>3, <2>2
<1>5. PICK b \in Seq(Uops), l \in Nat : b = acc.idq /\ l = Len(b)
  <2>1. acc.idq \in Seq(Uops)
    BY DEF PutStates
  <2> QED
    BY <2>1
<1>6. PICK s \in Uops : s = [u EXCEPT !.k = 0]
  <2>1. [u EXCEPT !.k = 0] \in Uops
    BY DEF Uops
  <2> QED
    BY <2>1
<1>7. PICK t \in Seq(Uops), m \in Nat \ {0} : q = b \o t /\ m = Len(t) /\ t[m] = u
  <2>1. q = b \o <<s, u>> \/ q = b \o <<u>>
    <3>1. PutUop(acc, u).idq = b \o <<s, u>> \/ PutUop(acc, u).idq = b \o <<u>>
      BY <1>5, <1>6 DEF PutUop
    <3> QED
      BY <1>2, <1>4, <3>1
  <2>2. <<s, u>> \in Seq(Uops) /\ <<u>> \in Seq(Uops)
    BY FewTyped
  <2>3. PICK t \in Seq(Uops) : q = b \o t /\ (t = <<s, u>> \/ t = <<u>>)
    BY <2>1, <2>2
  <2>4. Len(t) \in Nat \ {0} /\ t[Len(t)] = u
    <3>1. CASE t = <<s, u>>
      <4>1. Len(t) = 2 /\ t[2] = u
        BY <3>1
      <4> QED
        BY <4>1
    <3>2. CASE t = <<u>>
      <4>1. Len(t) = 1 /\ t[1] = u
        BY <3>2
      <4> QED
        BY <4>1
    <3> QED
      BY <2>3, <3>1, <3>2
  <2> QED
    BY <2>3, <2>4
<1>8. PICK w \in Seq(Uops) : w = q /\ Len(w) = l + m /\ w[l + m] = u
  <2>1. /\ b \o t \in Seq(Uops) /\ Len(b \o t) = l + m
        /\ \A j \in 1..m : (b \o t)[l + j] = t[j]
    BY <1>5, <1>7, Joined
  <2>2. m \in 1..m
    OBVIOUS
  <2> QED
    BY <1>7, <2>1, <2>2
<1>9. Len(w) # 0
  BY <1>8
<1> QED
  BY <1>0, <1>1, <1>4, <1>8, <1>9, EmptySeq

LEMMA BehindLast ==
  ASSUME NEW queue \in Seq(Uops), queue # <<>>, ~IsSync(queue[Len(queue)]), NEW u
  PROVE  Behind(queue, u) = NextUop(queue[Len(queue)])
<1>1. PICK n \in Nat \ {0} : n = Len(queue) /\ DOMAIN queue = 1..n
  BY EmptySeq
<1>2. Reals(queue) \in SUBSET (0..n) /\ n \in Reals(queue)
  BY <1>1 DEF Reals
<1>3. Max(Reals(queue)) \in Reals(queue) /\ \A y \in Reals(queue) : y <= Max(Reals(queue))
  BY <1>2, MaxIs
<1>4. PICK m \in 0..n : m = Max(Reals(queue))
  BY <1>2, <1>3
<1>5. m = n
  BY <1>2, <1>3, <1>4
<1>6. Reals(queue) # {}
  BY <1>2
<1> QED
  BY <1>1, <1>4, <1>5, <1>6 DEF Behind, Reals

(* Behind what was decoded when the source changes to the DSB.             *)
LEMMA EntersBehindLast ==
  ASSUME FrontInv, NEW queue \in Seq(Uops), MITEFill(queue), ms' \in MSStates,
         NEW group \in Seq(Instances),
         group = DecodedGroup(PreDecode(RefilledPreDecoder, Aged(iq)).iq), group # <<>>
  PROVE  /\ idq' \o ms'.queue \in Seq(Uops)
         /\ \A u : Behind(idq' \o ms'.queue, u) = FirstUopFrom(Following(Last(group)))
<1>1. Given /\ rspOffset \in Offsets /\ ms \in MSStates
  BY SetUpGiven DEF FrontInv
<1>2. PICK n \in Nat \ {0} : n = Len(group) /\ DOMAIN group = 1..n
  BY EmptySeq
<1>3. PICK x \in Instances : x = group[n] /\ x = Last(group)
  <2>1. n \in 1..n
    OBVIOUS
  <2> QED
    BY <1>2, <2>1 DEF Last
<1>4. ~FusedWithPrev(x)
  <2>1. PICK q \in Seq(IQEntries) : q = PreDecode(RefilledPreDecoder, Aged(iq)).iq
    BY PreDecodedTyped
  <2>2. GroupSoFar(group, GroupLength(q), q)
    BY <1>1, <2>1, GroupIs
  <2>3. n \in 1..n
    OBVIOUS
  <2> QED
    BY <1>2, <1>3, <2>2, <2>3 DEF GroupSoFar
<1>5. PICK mite \in Nat, rest \in Nat :
         mite = code[x.i].mite /\ rest = code[x.i].ms /\ UopCount(x) = mite + rest /\ mite + rest > 0
  <2>1. code[x.i].mite \in Nat /\ code[x.i].ms \in Nat /\ code[x.i].mite + code[x.i].ms > 0
    <3>1. code[x.i].mite \in 0..4
      BY <1>1, CountTyped
    <3> QED
      BY <1>1, <3>1, CountTyped
  <2>2. UopCount(x) = code[x.i].mite + code[x.i].ms
    BY <1>4 DEF UopCount
  <2> QED
    BY <2>1, <2>2
<1>6. PICK uops \in Seq(Uops) : uops = FlattenSeq([j \in DOMAIN group |-> MiteUops(group[j])])
  BY <1>1, GroupUopsTyped
<1>7. PICK added \in Seq(Uops) : added = idq' /\ added = FoldLeft(PutUop, [idq |-> queue, offset |-> rspOffset], uops).idq
  <2>1. Deliver(queue, uops)
    BY <1>6 DEF MITEFill
  <2>2. FoldLeft(PutUop, [idq |-> queue, offset |-> rspOffset], uops) \in PutStates
    BY <1>1, PutUopsTyped
  <2> QED
    BY <2>1, <2>2 DEF Deliver, PutUops, PutStates
<1>8. ms.queue = <<>>
  BY DEF MITEFill, MSBusy
<1>9. ms' = IF rest > 0 THEN AddToMS(ms, MSUops(x), "MITE") ELSE ms
  BY <1>3, <1>5 DEF MITEFill
<1>10. PICK later \in Seq(Uops) : later = ms'.queue
  BY DEF MSStates
<1>11. PICK all \in Seq(Uops), l \in Nat \ {0} :
          /\ all = added \o later /\ l = Len(all)
          /\ all[l] = Uop(x, mite + rest)
  <2>1. CASE rest > 0
    <3>1. later = ms.queue \o MSUops(x) /\ ms.queue \in Seq(Uops)
      BY <1>1, <1>9, <1>10, <2>1 DEF AddToMS, MSStates
    <3>2. PICK new \in Seq(Uops) : new = MSUops(x) /\ Len(new) = rest
      BY <1>1, <1>5, LamUopsTyped
    <3>3. later = new
      BY <1>8, <3>1, <3>2, ConcatEmptySeq
    <3>4. rest \in 1..rest
      BY <2>1
    <3>5. new[rest] = Uop(x, mite + rest)
      BY <1>5, <3>2, <3>4 DEF MSUops
    <3>6. PICK all \in Seq(Uops) : all = added \o new
      BY Joined
    <3>7. Len(all) = Len(added) + rest /\ all[Len(added) + rest] = new[rest]
      <4>1. Len(all) = Len(added) + Len(new) /\ \A j \in 1..Len(new) : all[Len(added) + j] = new[j]
        BY <3>6, Joined
      <4> QED
        BY <3>2, <3>4, <4>1
    <3>8. Len(all) \in Nat \ {0}
      BY <2>1, <3>7
    <3> QED
      BY <3>3, <3>5, <3>6, <3>7, <3>8
  <2>2. CASE rest = 0
    <3>1. later = <<>>
      BY <1>8, <1>9, <1>10, <2>2
    <3>2. added \o later = added
      BY <3>1, ConcatEmptySeq
    <3>3. PICK parts \in [1..n -> Seq(Uops)] : parts = [j \in 1..n |-> MiteUops(group[j])]
      <4>1. ASSUME NEW j \in 1..n PROVE MiteUops(group[j]) \in Seq(Uops)
        <5>1. group[j] \in Instances
          BY <1>2
        <5> QED
          BY <1>1, <5>1, LamUopsTyped
      <4> QED
        BY <4>1
    <3>4. parts \in Seq(Seq(Uops)) /\ Len(parts) = n /\ parts # <<>>
      <4>1. parts \in Seq(Seq(Uops)) /\ Len(parts) = n
        OBVIOUS
      <4> QED
        BY <4>1, EmptySeq
    <3>5. PICK t \in Seq(Uops) : t = MiteUops(x) /\ Len(t) = mite /\ t = parts[n]
      <4>1. n \in 1..n
        OBVIOUS
      <4>2. MiteUops(x) \in Seq(Uops) /\ Len(MiteUops(x)) = mite
        BY <1>1, <1>5, LamUopsTyped
      <4> QED
        BY <1>3, <3>3, <4>1, <4>2
    <3>6. mite \in 1..mite /\ t # <<>>
      BY <1>5, <2>2, <3>5, EmptySeq, SMTT(20)
    <3>7. t[mite] = Uop(x, mite + rest)
      BY <1>5, <2>2, <3>5, <3>6 DEF MiteUops
    <3>8. uops = FlattenSeq(parts)
      BY <1>2, <1>6, <3>3
    <3>9. uops # <<>> /\ uops[Len(uops)] = t[Len(t)]
      BY <3>4, <3>5, <3>6, <3>8, LastFlattened, SMTT(20)
    <3>10. added # <<>> /\ added[Len(added)] = uops[Len(uops)]
      <4>1. added = QueueWith(queue, rspOffset, uops)
        BY <1>7 DEF QueueWith
      <4> QED
        BY <1>1, <3>9, <4>1, LastPut
    <3>11. Len(added) \in Nat \ {0}
      BY <3>10, EmptySeq
    <3> QED
      BY <3>2, <3>5, <3>7, <3>9, <3>10, <3>11
  <2>3. rest > 0 \/ rest = 0
    OBVIOUS
  <2> QED
    BY <2>1, <2>2, <2>3, Zenon
<1>12. all # <<>> /\ ~IsSync(all[Len(all)])
  <2>1. all # <<>>
    BY <1>11, EmptySeq
  <2>2. Uop(x, mite + rest).k # 0
    BY <1>5 DEF Uop
  <2> QED
    BY <1>11, <2>1, <2>2 DEF IsSync
<1>13. NextUop(all[Len(all)]) = FirstUopFrom(Following(x))
  <2>1. PICK k \in Nat : k = mite + rest
    OBVIOUS
  <2>2. all[Len(all)] = [rnd |-> x.rnd, i |-> x.i, k |-> k]
    BY <1>11, <2>1 DEF Uop
  <2>3. x = [rnd |-> x.rnd, i |-> x.i]
    BY <1>1, InstanceFacts
  <2>4. ~(k < UopCount(x))
    BY <1>5, <2>1
  <2> QED
    BY <2>2, <2>3, <2>4 DEF NextUop
<1>14. ASSUME NEW u PROVE Behind(all, u) = NextUop(all[Len(all)])
  BY <1>12, BehindLast
<1> QED
  BY <1>3, <1>7, <1>10, <1>11, <1>13, <1>14

(* Unrolled code and the simple front end know no iterations to enter the  *)
(* DSB with.                                                               *)
SimpleInv == SimpleFrontEnd => source = "none"

EntersInv == FrontInv /\ SimpleInv

LEMMA EntersInvInit ==
  ASSUME Init
  PROVE  EntersInv
BY FrontInvInit DEF EntersInv, SimpleInv, Init, Linear

LEMMA EntersInvStep ==
  ASSUME EntersInv, [Next]_vars
  PROVE  EntersInv'
<1>1. FrontInv'
  BY FrontInvStep DEF EntersInv
<1>2. CASE UNCHANGED vars
  BY <1>1, <1>2 DEF EntersInv, SimpleInv, SimpleFrontEnd, vars
<1>3. CASE Next
  <2>1. PICK n \in 0..IssueWidth : Cycle(n)
    BY <1>3 DEF Next
  <2>2. PICK queue : queue = SubSeq(idq, n + 1, Len(idq))
    OBVIOUS
  <2>3. \/ Full(queue) \/ SimpleFill(queue) \/ LSDFill(queue)
        \/ MSFill(queue) \/ MITEFill(queue) \/ DSBFill(queue)
    BY <2>1, <2>2 DEF Cycle
  <2>4. source' = source \/ source \in {"MITE", "DSB"}
    BY <2>3 DEF Full, SimpleFill, LSDFill, MSFill, MITEFill, DSBFill
  <2>5. SimpleFrontEnd' = SimpleFrontEnd
    BY <2>1 DEF Cycle, SimpleFrontEnd
  <2> QED
    BY <1>1, <2>4, <2>5 DEF EntersInv, SimpleInv
<1> QED
  BY <1>2, <1>3

LEMMA EntersAtRoundStart ==
  ASSUME EntersInv, [Next]_vars, source = "MITE", source' = "DSB"
  PROVE  Behind(idq' \o ms'.queue, expected').i = 1
<1>1. FrontInv /\ FrontInv' /\ Given
  BY FrontInvStep, SetUpGiven DEF EntersInv, FrontInv
<1>2. PICK n \in 0..IssueWidth : Cycle(n)
  BY DEF Next, vars
<1>3. n \in Nat /\ n <= Len(idq)
  BY <1>1, <1>2 DEF Cycle, Take, Given, Machine
<1>4. PICK queue \in Seq(Uops) : queue = SubSeq(idq, n + 1, Len(idq))
  BY <1>1, <1>3, TakenTyped
<1>5. \/ Full(queue) \/ SimpleFill(queue) \/ LSDFill(queue)
      \/ MSFill(queue) \/ MITEFill(queue) \/ DSBFill(queue)
  BY <1>2, <1>4 DEF Cycle
<1>6. MITEFill(queue)
  BY <1>5 DEF Full, SimpleFill, LSDFill, MSFill, DSBFill
<1>7. PICK q \in Seq(IQEntries) : q = PreDecode(RefilledPreDecoder, Aged(iq)).iq
  BY <1>1, PreDecodedTyped
<1>8. PICK group \in Seq(Instances) : group = DecodedGroup(q)
  BY DecodedGroupTyped
<1>9. EntersDsb(group)
  BY <1>6, <1>7, <1>8 DEF MITEFill
<1>10. PICK x \in Instances : x = Last(group) /\ LastDecoded(x) /\ group # <<>> /\ ~Unroll
  <2>1. group # <<>> /\ LastDecoded(Last(group)) /\ ~Unroll
    BY <1>9 DEF EntersDsb
  <2>2. Last(group) \in Instances
    BY <2>1, EmptySeq DEF Last
  <2> QED
    BY <2>1, <2>2
<1>11. ~Linear
  BY <1>10 DEF Linear, EntersInv, SimpleInv
<1>12. FirstUopFrom(Following(x)).i = 1
  BY <1>1, <1>10, <1>11, RoundEnds
<1>13. ms' \in MSStates
  <2>1. MSStates' = MSStates
    BY <1>2 DEF Cycle, MSStates, Uops, Rounds
  <2> QED
    BY <1>1, <2>1 DEF FrontInv
<1>14. Behind(idq' \o ms'.queue, expected') = FirstUopFrom(Following(x))
  BY <1>1, <1>6, <1>7, <1>8, <1>10, <1>13, EntersBehindLast
<1> QED
  BY <1>12, <1>14

(* The source changes from the decoders to the DSB only where the next uop *)
(* is the first of an iteration: everything decoded before is in the       *)
(* decode queue or with the microcode sequencer, and it ends with the last *)
(* uop of the round (FrontEnd::cycle).                                     *)
THEOREM DsbEnteredAtRoundStart == Spec => EntersDsbAtRoundStart
<1>1. Init => EntersInv
  BY EntersInvInit
<1>2. EntersInv /\ [Next]_vars => EntersInv'
  BY EntersInvStep
<1>3. EntersInv /\ [Next]_vars
      => [source = "MITE" /\ source' = "DSB"
            => Behind(idq' \o ms'.queue, expected').i = 1]_vars
  BY EntersAtRoundStart
<1> QED
  BY <1>1, <1>2, <1>3, PTL DEF Spec, EntersDsbAtRoundStart

-------------------------------------------------------------------------------
(* Stack synchronisation.                                                  *)

(* A uop in front of which a synchronisation goes, given the offset there, *)
(* and the offset behind it.                                               *)
SyncsAt(o, u) == u.k = 1 /\ (ReadsPending(o, u) \/ ChangedOffset(o, u) > MaxRSPOffset)

OffsetAfter(o, u) ==
  IF u.k # 1 THEN o
  ELSE IF ChangedOffset(o, u) > MaxRSPOffset \/ code[u.i].rspDef THEN 0
  ELSE ChangedOffset(o, u)

(* The offsets along a queue, which ends at the given one, and what they   *)
(* say of the synchronisations in it.                                      *)
Chain(o, queue, offset) ==
  /\ o \in [0..Len(queue) -> Int] /\ o[Len(queue)] = offset
  /\ \A j \in 1..Len(queue) : o[j] = OffsetAfter(o[j - 1], queue[j])
  /\ \A j \in 2..Len(queue) :
       queue[j].k = 1 => (IsSync(queue[j - 1]) <=> SyncsAt(o[j - 1], queue[j]))

Traced(queue, offset) ==
  /\ \E o : Chain(o, queue, offset)
  /\ \A j \in 1..Len(queue) : j = Len(queue) => ~IsSync(queue[j])

(* The uops that are no synchronisations.                                  *)
Laminated == {u \in Uops : ~IsSync(u)}

LEMMA OffsetAfterTyped ==
  ASSUME Given, NEW o \in Int, NEW u \in Uops
  PROVE  OffsetAfter(o, u) \in Int /\ ChangedOffset(o, u) \in Int /\ code[u.i].rspDelta \in Int
<1>1. code[u.i] \in Instr
  BY CodeFacts DEF Uops
<1>2. PICK d \in Int : d = code[u.i].rspDelta
  BY <1>1 DEF Instr
<1> QED
  BY <1>2 DEF OffsetAfter, ChangedOffset

LEMMA ChainGrows ==
  ASSUME Given, NEW q \in Seq(Uops), NEW offset \in Int, NEW o, Chain(o, q, offset), NEW u \in Uops,
         \A j \in 1..Len(q) : j = Len(q) /\ u.k = 1 => (IsSync(q[j]) <=> SyncsAt(offset, u))
  PROVE  \E p : Chain(p, Append(q, u), OffsetAfter(offset, u))
<1>1. PICK l \in Nat : l = Len(q)
  OBVIOUS
<1>2. PICK after \in Int : after = OffsetAfter(offset, u)
  BY OffsetAfterTyped
<1>3. PICK r \in Seq(Uops) : r = Append(q, u) /\ Len(r) = l + 1 /\ r[l + 1] = u
                             /\ \A j \in 1..l : r[j] = q[j]
  <2>1. PICK r \in Seq(Uops) : r = Append(q, u)
    BY AppendProperties
  <2>2. Len(r) = l + 1 /\ r[l + 1] = u
    BY <1>1, <2>1, AppendProperties
  <2>3. \A j \in 1..l : r[j] = q[j]
    BY <1>1, <2>1, AppendProperties
  <2> QED
    BY <2>1, <2>2, <2>3
<1>4. /\ o \in [0..l -> Int] /\ o[l] = offset
      /\ \A j \in 1..l : o[j] = OffsetAfter(o[j - 1], q[j])
      /\ \A j \in 2..l : q[j].k = 1 => (IsSync(q[j - 1]) <=> SyncsAt(o[j - 1], q[j]))
  BY <1>1 DEF Chain
<1>5. PICK p \in [0..l + 1 -> Int] : p = [j \in 0..l + 1 |-> IF j = l + 1 THEN after ELSE o[j]]
  <2>1. [j \in 0..l + 1 |-> IF j = l + 1 THEN after ELSE o[j]] \in [0..l + 1 -> Int]
    BY <1>4
  <2> QED
    BY <2>1
<1>6. p[l + 1] = after /\ \A j \in 0..l : p[j] = o[j]
  BY <1>5
<1>7. ASSUME NEW j \in 1..l + 1 PROVE p[j] = OffsetAfter(p[j - 1], r[j])
  <2>1. CASE j = l + 1
    <3>1. j - 1 = l /\ l \in 0..l
      BY <2>1
    <3>2. p[j] = after /\ p[j - 1] = offset /\ r[j] = u
      BY <1>3, <1>4, <1>6, <2>1, <3>1
    <3> QED
      BY <1>2, <3>2
  <2>2. CASE j # l + 1
    <3>1. j \in 1..l /\ j \in 0..l /\ j - 1 \in 0..l
      BY <2>2
    <3>2. p[j] = o[j] /\ p[j - 1] = o[j - 1] /\ r[j] = q[j]
      BY <1>3, <1>6, <3>1
    <3> QED
      BY <1>4, <3>1, <3>2
  <2> QED
    BY <2>1, <2>2
<1>8. ASSUME NEW j \in 2..l + 1, r[j].k = 1 PROVE IsSync(r[j - 1]) <=> SyncsAt(p[j - 1], r[j])
  <2>1. CASE j = l + 1
    <3>1. j - 1 = l /\ l \in 0..l /\ l \in 1..l
      BY <2>1
    <3>2. p[j - 1] = offset /\ r[j] = u /\ r[j - 1] = q[l]
      BY <1>3, <1>4, <1>6, <2>1, <3>1
    <3>3. IsSync(q[l]) <=> SyncsAt(offset, u)
      BY <1>1, <1>8, <3>1, <3>2
    <3> QED
      BY <3>2, <3>3
  <2>2. CASE j # l + 1
    <3>1. j \in 1..l /\ j \in 2..l /\ j - 1 \in 0..l /\ j - 1 \in 1..l
      BY <2>2
    <3>2. p[j - 1] = o[j - 1] /\ r[j] = q[j] /\ r[j - 1] = q[j - 1]
      BY <1>3, <1>6, <3>1
    <3> QED
      BY <1>4, <1>8, <3>1, <3>2
  <2> QED
    BY <2>1, <2>2
<1>9. Chain(p, r, after)
  BY <1>3, <1>6, <1>7, <1>8 DEF Chain
<1> QED
  BY <1>2, <1>3, <1>9

LEMMA Appended ==
  ASSUME NEW q \in Seq(Uops), NEW u \in Uops
  PROVE  \E r \in Seq(Uops) : r = Append(q, u) /\ Len(r) = Len(q) + 1 /\ r[Len(q) + 1] = u
<1>1. Append(q, u) \in Seq(Uops)
  BY AppendProperties
<1>2. Len(Append(q, u)) = Len(q) + 1
  BY AppendProperties
<1>3. Append(q, u)[Len(q) + 1] = u
  BY AppendProperties
<1> QED
  BY <1>1, <1>2, <1>3

LEMMA PutTraced ==
  ASSUME Given, NEW acc \in PutStates, NEW u \in Laminated, Traced(acc.idq, acc.offset)
  PROVE  Traced(PutUop(acc, u).idq, PutUop(acc, u).offset)
<1>1. PICK q \in Seq(Uops), o \in Int : q = acc.idq /\ o = acc.offset
  BY DEF PutStates, Offsets
<1>2. u \in Uops /\ ~IsSync(u)
  BY DEF Laminated
<1>3. PICK s \in Uops : s = [u EXCEPT !.k = 0] /\ s.k = 0
  <2>1. [u EXCEPT !.k = 0] \in Uops /\ [u EXCEPT !.k = 0].k = 0
    BY <1>2 DEF Uops
  <2> QED
    BY <2>1
<1>4. PICK after \in Int : after = OffsetAfter(o, u)
  BY <1>2, OffsetAfterTyped
<1>5. PutUop(acc, u).offset = after
  BY <1>1, <1>4 DEF PutUop, OffsetAfter
<1>6. PutUop(acc, u).idq = q \o (IF SyncsAt(o, u) THEN <<s, u>> ELSE <<u>>)
  BY <1>1, <1>3 DEF PutUop, SyncsAt
<1>7. PICK c : Chain(c, q, o)
  BY <1>1 DEF Traced
<1>8. \A j \in 1..Len(q) : j = Len(q) => ~IsSync(q[j])
  BY <1>1 DEF Traced
<1>9. CASE ~SyncsAt(o, u)
  <2>1. PICK r \in Seq(Uops) : r = Append(q, u) /\ Len(r) = Len(q) + 1 /\ r[Len(q) + 1] = u
    BY <1>2, Appended
  <2>2. PutUop(acc, u).idq = r
    BY <1>2, <1>6, <1>9, <2>1
  <2>3. \E p : Chain(p, r, after)
    BY <1>2, <1>4, <1>7, <1>8, <1>9, <2>1, ChainGrows
  <2>4. \A j \in 1..Len(r) : j = Len(r) => ~IsSync(r[j])
    BY <1>2, <2>1
  <2> QED
    BY <1>5, <2>2, <2>3, <2>4 DEF Traced
<1>10. CASE SyncsAt(o, u)
  <2>1. PICK r \in Seq(Uops) : r = Append(q, s) /\ Len(r) = Len(q) + 1 /\ r[Len(q) + 1] = s
    BY Appended
  <2>2. PICK t \in Seq(Uops) : t = Append(r, u) /\ Len(t) = Len(r) + 1 /\ t[Len(r) + 1] = u
    BY <1>2, Appended
  <2>3. PutUop(acc, u).idq = t
    <3>1. q \o <<s, u>> = Append(Append(q, s), u)
      BY <1>2
    <3> QED
      BY <1>6, <1>10, <2>1, <2>2, <3>1
  <2>4. OffsetAfter(o, s) = o
    BY <1>3 DEF OffsetAfter
  <2>5. PICK p : Chain(p, r, o)
    <3>1. \A j \in 1..Len(q) : j = Len(q) /\ s.k = 1 => (IsSync(q[j]) <=> SyncsAt(o, s))
      BY <1>3
    <3>2. \E p : Chain(p, Append(q, s), OffsetAfter(o, s))
      BY <1>7, <3>1, ChainGrows
    <3> QED
      BY <2>1, <2>4, <3>2
  <2>6. \A j \in 1..Len(r) : j = Len(r) => IsSync(r[j])
    BY <1>3, <2>1 DEF IsSync
  <2>7. \E e : Chain(e, t, after)
    BY <1>2, <1>4, <1>10, <2>2, <2>5, <2>6, ChainGrows
  <2>8. \A j \in 1..Len(t) : j = Len(t) => ~IsSync(t[j])
    BY <1>2, <2>2
  <2> QED
    BY <1>5, <2>3, <2>7, <2>8 DEF Traced
<1> QED
  BY <1>9, <1>10

LEMMA PutsTraced ==
  ASSUME Given, NEW queue \in Seq(Uops), NEW o \in Offsets, NEW uops \in Seq(Laminated), Traced(queue, o)
  PROVE  LET put == FoldLeft(PutUop, [idq |-> queue, offset |-> o], uops) IN Traced(put.idq, put.offset)
<1>1. PICK n \in Nat : n = Len(uops)
  OBVIOUS
<1>2. PICK us \in Seq(Uops) : us = uops
  <2>1. \A j \in 1..n : uops[j] \in Laminated
    BY <1>1
  <2>2. \A j \in 1..n : uops[j] \in Uops
    BY <2>1 DEF Laminated
  <2>3. uops \in [1..n -> Uops]
    BY <1>1, <2>2
  <2> QED
    BY <2>3
<1>3. PICK put : put = FoldLeft(PutUop, [idq |-> queue, offset |-> o], us)
  OBVIOUS
<1>4. PICK a : PutRun(a, n, queue, o, us) /\ a[n] = put
  BY <1>1, <1>2, <1>3, PutsRun
<1>5. /\ a \in [0..n -> PutStates] /\ a[0] = [idq |-> queue, offset |-> o]
      /\ \A k \in 1..n : a[k] = PutUop(a[k - 1], us[k])
  BY <1>4 DEF PutRun
<1> DEFINE T == {k \in 0..n : Traced(a[k].idq, a[k].offset)}
<1>6. 0 \in T
  BY <1>5
<1>7. ASSUME NEW k \in 0..n, k < n, k \in T PROVE k + 1 \in T
  <2>1. k + 1 \in 0..n /\ k + 1 \in 1..n /\ (k + 1) - 1 = k
    BY <1>7
  <2>2. PICK acc \in PutStates : acc = a[k]
    BY <1>5
  <2>3. PICK u \in Laminated : u = us[k + 1]
    BY <1>1, <1>2, <2>1
  <2>4. a[k + 1] = PutUop(acc, u)
    BY <1>5, <2>1, <2>2, <2>3
  <2>5. Traced(acc.idq, acc.offset)
    BY <1>7, <2>2
  <2>6. Traced(PutUop(acc, u).idq, PutUop(acc, u).offset)
    BY <2>5, PutTraced
  <2> QED
    BY <2>1, <2>4, <2>6
<1> HIDE DEF T
<1>8. \A k \in 0..n : k \in T
  BY <1>6, <1>7, UpTo
<1>9. Traced(put.idq, put.offset)
  <2>1. n \in T
    BY <1>8
  <2> QED
    BY <1>4, <2>1 DEF T
<1> QED
  BY <1>2, <1>3, <1>9

(* The renamer takes from the front.                                       *)
LEMMA LeftTraced ==
  ASSUME NEW queue \in Seq(Uops), NEW n \in Nat, n <= Len(queue), NEW offset, Traced(queue, offset)
  PROVE  Traced(SubSeq(queue, n + 1, Len(queue)), offset)
<1>1. PICK l \in Nat : l = Len(queue) /\ n <= l
  OBVIOUS
<1>2. PICK m \in Nat \ {0} : m = n + 1
  OBVIOUS
<1>3. PICK c \in Nat : c = l - n
  <2>1. l - n \in Nat
    BY <1>1
  <2> QED
    BY <2>1
<1>4. PICK rest \in Seq(Uops) : rest = SubSeq(queue, m, l) /\ Len(rest) = c
                               /\ \A i \in 1..c : rest[i] = queue[n + i]
  <2>1. /\ SubSeq(queue, m, l) \in Seq(Uops)
        /\ Len(SubSeq(queue, m, l)) = (IF m <= l THEN l - m + 1 ELSE 0)
        /\ \A i \in 1..(l - m) + 1 : SubSeq(queue, m, l)[i] = queue[(m + i) - 1]
    BY <1>1, PartOf
  <2>2. Len(SubSeq(queue, m, l)) = c
    BY <1>1, <1>2, <1>3, <2>1
  <2>3. ASSUME NEW i \in 1..c PROVE SubSeq(queue, m, l)[i] = queue[n + i]
    <3>1. i \in 1..(l - m) + 1 /\ (m + i) - 1 = n + i
      BY <1>1, <1>2, <1>3
    <3> QED
      BY <2>1, <3>1
  <2> QED
    BY <2>1, <2>2, <2>3
<1>5. PICK o : Chain(o, queue, offset)
  BY DEF Traced
<1>6. /\ o \in [0..l -> Int] /\ o[l] = offset
      /\ \A j \in 1..l : o[j] = OffsetAfter(o[j - 1], queue[j])
      /\ \A j \in 2..l : queue[j].k = 1 => (IsSync(queue[j - 1]) <=> SyncsAt(o[j - 1], queue[j]))
  BY <1>1, <1>5 DEF Chain
<1>7. PICK p \in [0..c -> Int] : p = [j \in 0..c |-> o[n + j]]
  <2>1. \A j \in 0..c : n + j \in 0..l
    BY <1>1, <1>3
  <2>2. [j \in 0..c |-> o[n + j]] \in [0..c -> Int]
    BY <1>6, <2>1
  <2> QED
    BY <2>2
<1>8. ASSUME NEW j \in 1..c PROVE p[j] = OffsetAfter(p[j - 1], rest[j])
  <2>1. j - 1 \in 0..c /\ j \in 0..c /\ n + j \in 1..l /\ (n + j) - 1 = n + (j - 1)
    BY <1>1, <1>3
  <2>2. o[n + j] = OffsetAfter(o[n + (j - 1)], queue[n + j])
    BY <1>6, <2>1
  <2> QED
    BY <1>4, <1>7, <2>1, <2>2
<1>9. ASSUME NEW j \in 2..c, rest[j].k = 1 PROVE IsSync(rest[j - 1]) <=> SyncsAt(p[j - 1], rest[j])
  <2>1. /\ j \in 1..c /\ j - 1 \in 1..c /\ j - 1 \in 0..c /\ n + j \in 2..l /\ (n + j) - 1 = n + (j - 1)
    BY <1>1, <1>3
  <2>2. rest[j] = queue[n + j] /\ rest[j - 1] = queue[n + (j - 1)] /\ p[j - 1] = o[n + (j - 1)]
    BY <1>4, <1>7, <2>1
  <2> QED
    BY <1>6, <1>9, <2>1, <2>2
<1>10. p[c] = offset
  <2>1. n + c = l /\ c \in 0..c
    BY <1>1, <1>3
  <2> QED
    BY <1>6, <1>7, <2>1
<1>11. Chain(p, rest, offset)
  BY <1>4, <1>8, <1>9, <1>10 DEF Chain
<1>12. ASSUME NEW j \in 1..c, j = c PROVE ~IsSync(rest[j])
  <2>1. n + j \in 1..l /\ n + j = l
    BY <1>1, <1>3, <1>12
  <2>2. ~IsSync(queue[n + j])
    BY <1>1, <2>1 DEF Traced
  <2> QED
    BY <1>4, <2>2
<1> QED
  BY <1>1, <1>2, <1>4, <1>11, <1>12 DEF Traced

(* A queue none of whose uops moves RSP.                                   *)
LEMMA StillTraced ==
  ASSUME Given, NEW queue \in Seq(Laminated), \A i \in 1..Len(code) : code[i].rspDelta = 0
  PROVE  Traced(queue, 0)
<1>1. PICK l \in Nat : l = Len(queue)
  OBVIOUS
<1>2. ASSUME NEW j \in 1..l PROVE queue[j].i \in 1..Len(code) /\ ~IsSync(queue[j])
  <2>1. queue[j] \in Laminated
    BY <1>1
  <2> QED
    BY <2>1, CodeFacts DEF Laminated, Uops
<1>3. ASSUME NEW j \in 1..l PROVE ~SyncsAt(0, queue[j]) /\ OffsetAfter(0, queue[j]) = 0
  <2>1. code[queue[j].i].rspDelta = 0 /\ MaxRSPOffset \in Nat
    BY <1>2 DEF Given, Machine
  <2>2. ~ReadsPending(0, queue[j]) /\ ChangedOffset(0, queue[j]) = 0
    BY <2>1 DEF ReadsPending, ChangedOffset
  <2> QED
    BY <2>1, <2>2 DEF SyncsAt, OffsetAfter
<1>4. PICK o \in [0..l -> Int] : o = [j \in 0..l |-> 0]
  <2>1. [j \in 0..l |-> 0] \in [0..l -> Int]
    OBVIOUS
  <2> QED
    BY <2>1
<1>5. ASSUME NEW j \in 1..l PROVE o[j] = OffsetAfter(o[j - 1], queue[j])
  <2>1. o[j] = 0 /\ o[j - 1] = 0
    BY <1>4
  <2> QED
    BY <1>3, <2>1
<1>6. ASSUME NEW j \in 2..l PROVE IsSync(queue[j - 1]) <=> SyncsAt(o[j - 1], queue[j])
  <2>1. j \in 1..l /\ j - 1 \in 1..l /\ o[j - 1] = 0
    BY <1>4
  <2> QED
    BY <1>2, <1>3, <2>1
<1>7. o[l] = 0
  BY <1>4
<1>8. Chain(o, queue, 0)
  BY <1>1, <1>4, <1>5, <1>6, <1>7 DEF Chain
<1> QED
  BY <1>1, <1>2, <1>8 DEF Traced

(* No source hands over a synchronisation.                                 *)
LEMMA LamUopsReal ==
  ASSUME Given, NEW x \in Instances
  PROVE  /\ LamUops(x) \in Seq(Laminated) /\ MiteUops(x) \in Seq(Laminated)
         /\ MSUops(x) \in Seq(Laminated)
<1>0. UopCount(x) \in Nat /\ code[x.i].mite \in Nat /\ code[x.i].ms \in Nat
  BY CountTyped
<1>1. PICK n \in Nat, m \in Nat, s \in Nat : n = UopCount(x) /\ m = code[x.i].mite /\ s = code[x.i].ms
  BY <1>0
<1>2. ASSUME NEW k \in Nat \ {0} PROVE Uop(x, k) \in Laminated
  <2>1. Uop(x, k) \in Uops /\ Uop(x, k).k = k
    BY UopTyped DEF Uop
  <2> QED
    BY <2>1 DEF Laminated, IsSync
<1>3. LamUops(x) \in [1..n -> Laminated]
  BY <1>1, <1>2 DEF LamUops
<1>4. MiteUops(x) \in [1..m -> Laminated]
  BY <1>1, <1>2 DEF MiteUops
<1>5. MSUops(x) \in [1..s -> Laminated]
  <2>1. \A k \in 1..s : m + k \in Nat \ {0}
    OBVIOUS
  <2> QED
    BY <1>1, <1>2, <2>1 DEF MSUops
<1>6. LamUops(x) \in Seq(Laminated)
  BY <1>3
<1>7. MiteUops(x) \in Seq(Laminated)
  BY <1>4
<1>8. MSUops(x) \in Seq(Laminated)
  BY <1>5
<1> QED
  BY <1>6, <1>7, <1>8

LEMMA UopsOfReal ==
  ASSUME Given, NEW insts \in Seq(Instances)
  PROVE  /\ UopsOf(insts) \in Seq(Laminated)
         /\ FlattenSeq([j \in DOMAIN insts |-> MiteUops(insts[j])]) \in Seq(Laminated)
<1>1. PICK n \in Nat : n = Len(insts) /\ DOMAIN insts = 1..n
  OBVIOUS
<1>2. ASSUME NEW j \in 1..n
      PROVE  LamUops(insts[j]) \in Seq(Laminated) /\ MiteUops(insts[j]) \in Seq(Laminated)
  <2>1. insts[j] \in Instances
    BY <1>1
  <2> QED
    BY <2>1, LamUopsReal
<1>3. PICK g \in [1..n -> Seq(Laminated)] : g = [j \in 1..n |-> LamUops(insts[j])]
  BY <1>2
<1>4. PICK h \in [1..n -> Seq(Laminated)] : h = [j \in 1..n |-> MiteUops(insts[j])]
  BY <1>2
<1>5. g \in Seq(Seq(Laminated)) /\ h \in Seq(Seq(Laminated))
  OBVIOUS
<1>6. FlattenSeq(g) \in Seq(Laminated)
  BY <1>5, FlattenTyped
<1>7. FlattenSeq(h) \in Seq(Laminated)
  BY <1>5, FlattenTyped
<1> QED
  BY <1>1, <1>3, <1>4, <1>6, <1>7 DEF UopsOf

LEMMA LSDUopsReal ==
  ASSUME Given, NEW r \in Nat
  PROVE  LSDUops(r) \in Seq(Laminated)
<1>1. PICK count \in Nat \ {0} : count = LSDUnrollCount
  BY StartFacts
<1>2. ASSUME NEW j \in 1..count PROVE UopsOf(Round((r + j - 1) % Rounds)) \in Seq(Laminated)
  <2>1. PICK m \in 0..Rounds - 1 : m = (r + j - 1) % Rounds
    BY CodeFacts
  <2> QED
    BY <2>1, RoundTyped, UopsOfReal
<1>3. PICK g \in [1..count -> Seq(Laminated)] : g = [j \in 1..count |-> UopsOf(Round((r + j - 1) % Rounds))]
  BY <1>2
<1>4. g \in Seq(Seq(Laminated))
  OBVIOUS
<1> QED
  BY <1>1, <1>3, <1>4, FlattenTyped DEF LSDUops

LEMMA MSCycleReal ==
  ASSUME NEW m \in MSStates, m.queue \in Seq(Laminated)
  PROVE  MSCycle(m).ms.queue \in Seq(Laminated) /\ MSCycle(m).uops \in Seq(Laminated)
<1>1. PICK q \in Seq(Laminated), st \in Nat : q = m.queue /\ st = m.stalled
  BY DEF MSStates
<1>2. PICK l \in Nat : l = Len(q)
  OBVIOUS
<1>3. PICK n \in 0..4 : n <= l /\ n = IF st > 0 THEN 0 ELSE Min({MSWidth, l})
  <2>1. Min({4, l}) \in Nat /\ Min({4, l}) = (IF 4 < l THEN 4 ELSE l)
    BY LesserOf
  <2> QED
    BY <2>1 DEF MSWidth
<1>4. PICK rest \in Seq(Laminated) : rest = SubSeq(q, n + 1, l)
  <2>1. PICK b \in Nat \ {0} : b = n + 1
    OBVIOUS
  <2>2. SubSeq(q, b, l) \in Seq(Laminated)
    BY <1>2, PartOf
  <2> QED
    BY <2>1, <2>2
<1>5. PICK out \in Seq(Laminated) : out = SubSeq(q, 1, n)
  <2>1. PICK one \in Nat \ {0} : one = 1
    OBVIOUS
  <2>2. n \in Nat /\ n <= Len(q)
    BY <1>2, <1>3
  <2>3. SubSeq(q, one, n) \in Seq(Laminated)
    BY <2>2, PartOf
  <2> QED
    BY <2>1, <2>3
<1>6. MSCycle(m).uops = out /\ MSCycle(m).ms.queue = rest
  <2>1. MSCycle(m).uops = out
    BY <1>1, <1>2, <1>3, <1>5 DEF MSCycle
  <2>2. MSCycle(m).ms.queue = rest
    BY <1>1, <1>2, <1>3, <1>4 DEF MSCycle, MSStates
  <2> QED
    BY <2>1, <2>2
<1> QED
  BY <1>6

LEMMA AddToMSReal ==
  ASSUME Given, NEW m, m.queue \in Seq(Laminated), NEW x \in Instances, NEW from
  PROVE  AddToMS(m, MSUops(x), from).queue \in Seq(Laminated)
<1>1. PICK q \in Seq(Laminated), r \in Seq(Laminated) : q = m.queue /\ r = MSUops(x)
  BY LamUopsReal
<1>2. q \o r \in Seq(Laminated)
  OBVIOUS
<1>3. AddToMS(m, MSUops(x), from).queue = q \o r
  BY <1>1 DEF AddToMS
<1> QED
  BY <1>2, <1>3

(* What the DSB delivers are uops, and the microcode it starts is too.     *)
ReadReal(s) ==
  /\ \A j \in 1..Len(s.out) : s.out[j].k # 0
  /\ s.ms.queue \in Seq(Laminated)

LEMMA DsbStepReal ==
  ASSUME Given, NEW s \in ReadStates, ~DsbStops(s), ReadReal(s)
  PROVE  ReadReal(DsbStep(s))
<1>1. PICK q \in EntryBlocks, o \in Seq(Entries), l \in Nat : q = s.queue /\ o = s.out /\ l = Len(o)
  BY DEF ReadStates
<1>2. q # <<>>
  BY <1>1 DEF DsbStops
<1>3. PICK b \in EntryLists : b = q[1]
  <2>1. Len(q) >= 1
    BY <1>2, EmptySeq DEF EntryBlocks
  <2> QED
    BY <2>1 DEF EntryBlocks
<1>4. b \in Seq(Entries) /\ b # <<>>
  BY DEF EntryLists
<1>5. PICK entry \in Entries : entry = b[1]
  <2>1. Len(b) >= 1
    BY <1>4, EmptySeq
  <2> QED
    BY <1>4, <2>1
<1>6. PICK d : d = DsbStep(s)
  OBVIOUS
<1>7. d.out = IF entry.k = 0 THEN o ELSE Append(o, entry)
  BY <1>1, <1>3, <1>5, <1>6 DEF DsbStep, ReadStates
<1>8. d.ms = IF entry.ms THEN AddToMS(s.ms, MSUops(entry.inst), "DSB") ELSE s.ms
  BY <1>1, <1>3, <1>5, <1>6 DEF DsbStep, ReadStates
<1>9. d.ms.queue \in Seq(Laminated)
  <2>1. entry.inst \in Instances /\ s.ms.queue \in Seq(Laminated)
    BY DEF Entries, ReadReal
  <2>2. AddToMS(s.ms, MSUops(entry.inst), "DSB").queue \in Seq(Laminated)
    BY <2>1, AddToMSReal
  <2> QED
    BY <1>8, <2>1, <2>2
<1>10. \A j \in 1..Len(d.out) : d.out[j].k # 0
  <2>1. \A j \in 1..l : o[j].k # 0
    BY <1>1 DEF ReadReal
  <2>2. CASE entry.k = 0
    BY <1>1, <1>7, <2>1, <2>2
  <2>3. CASE entry.k # 0
    <3>1. PICK e \in Seq(Entries) : e = Append(o, entry)
      BY AppendProperties
    <3>2. Len(e) = l + 1 /\ e[l + 1] = entry
      BY <1>1, <3>1, AppendProperties
    <3>3. \A j \in 1..l : e[j] = o[j]
      BY <1>1, <3>1, AppendProperties
    <3>4. ASSUME NEW j \in 1..l + 1 PROVE e[j].k # 0
      <4>1. CASE j = l + 1
        BY <2>3, <3>2, <4>1
      <4>2. CASE j # l + 1
        <5>1. j \in 1..l
          BY <4>2
        <5> QED
          BY <2>1, <3>3, <5>1
      <4> QED
        BY <4>1, <4>2
    <3> QED
      BY <1>7, <2>3, <3>1, <3>2, <3>4
  <2> QED
    BY <2>2, <2>3
<1> QED
  BY <1>6, <1>9, <1>10 DEF ReadReal

LEMMA DsbReadReal ==
  ASSUME Given, NEW buffer \in [blockQueue : EntryBlocks, delayed : BOOLEAN], ms \in MSStates,
         ms.queue \in Seq(Laminated)
  PROVE  ReadReal(DsbRead(buffer))
<1> DEFINE start == [queue |-> buffer.blockQueue, out |-> <<>>, slots |-> DSBWidth,
                     second |-> FALSE, ranOut |-> FALSE, ms |-> ms,
                     delayed |-> buffer.blockQueue = <<>> /\ buffer.delayed,
                     wasDelayed |-> buffer.delayed,
                     started |-> buffer.blockQueue # <<>> /\ buffer.blockQueue[1][1].slot = 0]
<1>1. PICK st \in ReadStates : st = start
  <2>1. DSBWidth \in Nat
    BY DEF Given, Machine
  <2>2. <<>> \in Seq(Entries) /\ Len(<<>>) = 0
    OBVIOUS
  <2>3. PICK d \in BOOLEAN, w \in BOOLEAN, b \in BOOLEAN :
          /\ d = (buffer.blockQueue = <<>> /\ buffer.delayed) /\ w = buffer.delayed
          /\ b = (buffer.blockQueue # <<>> /\ buffer.blockQueue[1][1].slot = 0)
    OBVIOUS
  <2>4. start = [queue |-> buffer.blockQueue, out |-> <<>>, slots |-> DSBWidth,
                 second |-> FALSE, ranOut |-> FALSE, ms |-> ms,
                 delayed |-> d, wasDelayed |-> w, started |-> b]
    BY <2>3
  <2>5. start \in ReadStates
    <3> HIDE DEF start
    <3> QED
      BY <2>1, <2>2, <2>4 DEF ReadStates
  <2> QED
    BY <2>5
<1>2. PICK t \in Seq(Turns) : t = [n \in 1..2 * BlockEntries |-> n]
  <2>1. PICK l \in Nat : l = 2 * BlockEntries
    BY DEF BlockEntries
  <2>2. [n \in 1..l |-> n] \in [1..l -> Turns]
    BY DEF Turns
  <2>3. [n \in 1..l |-> n] \in Seq(Turns)
    BY <2>2
  <2> QED
    BY <2>1, <2>3
<1>3. DsbRead(buffer) = FoldLeft(LAMBDA s, k: IF DsbStops(s) THEN s ELSE DsbStep(s), st, t)
  BY <1>1, <1>2 DEF DsbRead
<1>4. PICK l \in Nat : l = Len(t)
  OBVIOUS
<1>5. PICK v : v = DsbRead(buffer)
  OBVIOUS
<1>6. st.out = <<>> /\ st.ms = ms
  BY <1>1
<1> HIDE DEF start
<1>7. PICK a : FoldRun(a, ReadStates, Read, st, l, t) /\ a[l] = v
  BY <1>3, <1>4, <1>5, ReadRun DEF RunsTo
<1>8. /\ a \in [0..l -> ReadStates] /\ a[0] = st
      /\ \A k \in 1..l : a[k] = Read[<<a[k - 1], t[k]>>]
  BY <1>7 DEF FoldRun
<1> DEFINE T == {k \in 0..l : ReadReal(a[k])}
<1>9. 0 \in T
  <2>1. Len(<<>>) = 0
    OBVIOUS
  <2>2. ReadReal(st)
    BY <1>6, <2>1 DEF ReadReal
  <2> QED
    BY <1>8, <2>2
<1>10. ASSUME NEW k \in 0..l, k < l, k \in T PROVE k + 1 \in T
  <2>1. k + 1 \in 0..l /\ k + 1 \in 1..l /\ (k + 1) - 1 = k
    BY <1>10
  <2>2. PICK s \in ReadStates : s = a[k]
    BY <1>8
  <2>3. t[k + 1] \in Turns
    BY <1>4, <2>1
  <2>4. a[k + 1] = Read[<<s, t[k + 1]>>]
    BY <1>8, <2>1, <2>2
  <2>5. Read[<<s, t[k + 1]>>] = IF DsbStops(s) THEN s ELSE DsbStep(s)
    BY <2>3 DEF Read
  <2>6. ReadReal(s)
    BY <1>10, <2>2
  <2>7. ReadReal(a[k + 1])
    BY <2>4, <2>5, <2>6, DsbStepReal
  <2> QED
    BY <2>1, <2>7
<1> HIDE DEF T
<1>11. \A k \in 0..l : k \in T
  BY <1>9, <1>10, UpTo
<1>12. ReadReal(v)
  <2>1. l \in T
    BY <1>11
  <2> QED
    BY <1>7, <2>1 DEF T
<1> QED
  BY <1>5, <1>12

LEMMA LineAddedTraced ==
  ASSUME Given, NEW f \in FillStates, Traced(f.idq, f.offset)
  PROVE  Traced(LineAdded(f).idq, LineAdded(f).offset)
<1>1. PICK q \in Seq(Uops), o \in Offsets, x \in Instances : q = f.idq /\ o = f.offset /\ x = f.at
  BY DEF FillStates
<1>2. PICK line \in Seq(Instances) : line = Generated(x)
  BY GeneratedTyped
<1>3. PICK uops \in Seq(Laminated) : uops = UopsOf(line)
  BY UopsOfReal
<1>4. PICK put : put = FoldLeft(PutUop, [idq |-> q, offset |-> o], uops)
  OBVIOUS
<1>5. Traced(put.idq, put.offset)
  BY <1>1, <1>4, PutsTraced
<1>6. AddLine(f) = [idq |-> put.idq, offset |-> put.offset, at |-> Advanced(x, line)]
  BY <1>1, <1>2, <1>3, <1>4 DEF AddLine
<1>7. AddLine(f).idq = put.idq /\ AddLine(f).offset = put.offset
  BY <1>6
<1> QED
  BY <1>5, <1>7 DEF LineAdded

LEMMA FilledTraced ==
  ASSUME Given, NEW queue \in Seq(Uops), NEW o \in Offsets, NEW x \in Instances, NEW turns \in Seq(Turns),
         Traced(queue, o)
  PROVE  LET fill == FoldLeft(LAMBDA f, k: IF Len(f.idq) < IssueWidth THEN AddLine(f) ELSE f,
                              [idq |-> queue, offset |-> o, at |-> x], turns)
         IN Traced(fill.idq, fill.offset)
<1>0. PICK fill : fill = FoldLeft(LAMBDA f, k: IF Len(f.idq) < IssueWidth THEN AddLine(f) ELSE f,
                                  [idq |-> queue, offset |-> o, at |-> x], turns)
  OBVIOUS
<1>1. PICK n \in Nat : n = Len(turns)
  OBVIOUS
<1>2. PICK a : /\ FoldRun(a, FillStates, FillLine, [idq |-> queue, offset |-> o, at |-> x], n, turns)
               /\ a[n] = fill
  BY <1>0, <1>1, FilledRun DEF RunsTo
<1>3. /\ a \in [0..n -> FillStates] /\ a[0] = [idq |-> queue, offset |-> o, at |-> x]
      /\ \A k \in 1..n : a[k] = FillLine[<<a[k - 1], turns[k]>>]
  BY <1>2 DEF FoldRun
<1> DEFINE T == {k \in 0..n : Traced(a[k].idq, a[k].offset)}
<1>4. 0 \in T
  BY <1>3
<1>5. ASSUME NEW k \in 0..n, k < n, k \in T PROVE k + 1 \in T
  <2>1. k + 1 \in 0..n /\ k + 1 \in 1..n /\ (k + 1) - 1 = k
    BY <1>5
  <2>2. PICK f \in FillStates : f = a[k]
    BY <1>3
  <2>3. turns[k + 1] \in Turns
    BY <1>1, <2>1
  <2>4. a[k + 1] = LineAdded(f)
    BY <1>3, <2>1, <2>2, <2>3 DEF FillLine
  <2>5. Traced(LineAdded(f).idq, LineAdded(f).offset)
    BY <1>5, <2>2, LineAddedTraced
  <2> QED
    BY <2>1, <2>4, <2>5
<1> HIDE DEF T
<1>6. \A k \in 0..n : k \in T
  BY <1>4, <1>5, UpTo
<1>7. n \in T
  BY <1>6
<1>8. Traced(fill.idq, fill.offset)
  BY <1>2, <1>7 DEF T
<1> QED
  BY <1>0, <1>8

(* The operators of StackSynced, by name.                                  *)
Firsts == {j \in DOMAIN idq : idq[j].k = 1}
Synced(j) == j > 1 /\ IsSync(idq[j - 1])
Reads(j)  == code[idq[j].i].rspUse
Moves(j)  == code[idq[j].i].rspDelta
Known(j)  == Synced(j) \/ code[idq[j].i].rspDef
Left(j)   == IF code[idq[j].i].rspDef \/ ~Reads(j) THEN 0 ELSE Moves(j)
Between(p, q) == {j \in Firsts : p < j /\ j < q}
Deltas(S) == MapThenSumSet(LAMBDA j : code[idq[j].i].rspDelta, S)

LEMMA DeltasAreSum ==
  ASSUME NEW S, IsFiniteSet(S), NEW h \in [S -> Int],
         \A x \in S : h[x] = code[idq[x].i].rspDelta, NEW m, IsSum(m, h, S)
  PROVE  Deltas(S) = m[S]
<1> DEFINE c(s) == CHOOSE x \in s : TRUE
           F(it) == [s \in SUBSET S |-> IF s = {} THEN 0 ELSE code[idq[c(s)].i].rspDelta + it[s \ {c(s)}]]
           G(it) == [s \in SUBSET S |-> IF s = {} THEN 0 ELSE h[c(s)] + it[s \ {c(s)}]]
<1>1. Deltas(S) = (CHOOSE it : it = F(it))[S]
  BY DEF Deltas, MapThenSumSet, MapThenFoldSet
<1>2. \A it : F(it) = G(it)
  <2>1. \A s \in SUBSET S : s # {} => c(s) \in S
    OBVIOUS
  <2> HIDE DEF c
  <2> QED
    BY <2>1
<1>3. m = G(m) /\ \A it : it = G(it) => it[S] = m[S]
  <2>1. SumEquation(m, h, S) /\ \A it : SumEquation(it, h, S) => \A A \in SUBSET S : it[A] = m[A]
    BY SumIsChosen
  <2>2. \A it : SumEquation(it, h, S) <=> it = G(it)
    BY Zenon DEF SumEquation
  <2> HIDE DEF G
  <2> QED
    BY <2>1, <2>2
<1> DEFINE chosen == CHOOSE it : it = F(it)
<1>4. chosen = F(chosen)
  <2> HIDE DEF F, G
  <2>1. m = F(m)
    BY <1>2, <1>3
  <2> QED
    BY <2>1
<1> HIDE DEF F, G
<1>5. chosen[S] = m[S]
  <2> HIDE DEF chosen
  <2> QED
    BY <1>2, <1>3, <1>4
<1> QED
  BY <1>1, <1>5

LEMMA SyncedIs ==
  ASSUME \A p, q \in Firsts :
           /\ p < q /\ Known(p) /\ Reads(q)
           /\ \A j \in Firsts : p < j /\ j < q => ~Known(j)
           => (Synced(q) <=> Left(p) + Deltas(Between(p, q)) # 0)
  PROVE  StackSynced
BY DEF StackSynced, Firsts, Synced, Reads, Moves, Known, Left, Between, Deltas

(* What a cycle finds: the queue and the offset belong together, and the   *)
(* loop stream detector repeats code that leaves RSP alone.                *)
StackInv ==
  /\ FrontInv
  /\ ms.queue \in Seq(Laminated)
  /\ Traced(idq, rspOffset)
  /\ source = "LSD" => rspOffset = 0 /\ \A i \in 1..Len(code) : code[i].rspDelta = 0

LEMMA EmptyTraced ==
  ASSUME NEW offset \in Int
  PROVE  Traced(<<>>, offset)
<1>1. PICK e \in Seq(Uops) : e = <<>> /\ Len(e) = 0
  <2>1. <<>> \in Seq(Uops) /\ Len(<<>>) = 0
    OBVIOUS
  <2> QED
    BY <2>1
<1>2. PICK o \in [0..0 -> Int] : o = [j \in 0..0 |-> offset]
  <2>1. [j \in 0..0 |-> offset] \in [0..0 -> Int]
    OBVIOUS
  <2> QED
    BY <2>1
<1>3. Chain(o, e, offset)
  BY <1>1, <1>2 DEF Chain
<1> QED
  BY <1>1, <1>3 DEF Traced

LEMMA LSDStill ==
  ASSUME Given, UseLSD
  PROVE  \A i \in 1..Len(code) : code[i].rspDelta = 0
BY CodeFacts DEF UseLSD, Given, Recorded

LEMMA StackInvInit ==
  ASSUME Init
  PROVE  StackInv
<1>1. FrontInv /\ Given /\ rspOffset = 0 /\ ms.queue = <<>>
  BY FrontInvInit, SetUpGiven DEF FrontInv, Init
<1>2. ms.queue \in Seq(Laminated)
  BY <1>1
<1>3. CASE idq = <<>> /\ source # "LSD"
  <2>1. Traced(idq, rspOffset)
    BY <1>1, <1>3, EmptyTraced
  <2> QED
    BY <1>1, <1>2, <1>3, <2>1 DEF StackInv
<1>4. CASE UseLSD /\ idq = LSDUops(0)
  <2>1. \A i \in 1..Len(code) : code[i].rspDelta = 0
    BY <1>1, <1>4, LSDStill
  <2>2. idq \in Seq(Laminated)
    BY <1>1, <1>4, LSDUopsReal
  <2>3. Traced(idq, rspOffset)
    BY <1>1, <2>1, <2>2, StillTraced
  <2> QED
    BY <1>1, <1>2, <2>1, <2>3 DEF StackInv
<1>5. (idq = <<>> /\ source # "LSD") \/ (UseLSD /\ idq = LSDUops(0))
  BY DEF Init
<1> QED
  BY <1>3, <1>4, <1>5

(* Whatever a source delivers, as long as it is no synchronisation.        *)
LEMMA DeliveredTraced ==
  ASSUME Given, rspOffset \in Offsets, NEW queue \in Seq(Uops), NEW uops \in Seq(Laminated),
         Traced(queue, rspOffset), Deliver(queue, uops)
  PROVE  Traced(idq', rspOffset')
<1>1. PICK put : put = FoldLeft(PutUop, [idq |-> queue, offset |-> rspOffset], uops)
  OBVIOUS
<1>2. Traced(put.idq, put.offset)
  BY <1>1, PutsTraced
<1>3. idq' = put.idq /\ rspOffset' = put.offset
  BY <1>1 DEF Deliver, PutUops
<1> QED
  BY <1>2, <1>3

(* What a source leaves of the invariant.                                  *)
StackKept ==
  /\ ms'.queue \in Seq(Laminated) /\ Traced(idq', rspOffset')
  /\ source' = "LSD" => source = "LSD" /\ rspOffset' = rspOffset

LEMMA SimpleFillKept ==
  ASSUME StackInv, NEW queue \in Seq(Uops), Traced(queue, rspOffset), SimpleFill(queue)
  PROVE  StackKept
<1>1. Given /\ rspOffset \in Offsets /\ nextInst \in Instances
  BY SetUpGiven DEF StackInv, FrontInv
<1>2. PICK w \in Nat \ {0} : w = IssueWidth
  BY <1>1 DEF Given, Machine
<1>3. PICK turns \in Seq(Turns) : turns = [n \in 1..2 * w |-> n]
  <2>1. [n \in 1..2 * w |-> n] \in [1..2 * w -> Turns]
    BY DEF Turns
  <2>2. PICK g \in [1..2 * w -> Turns] : g = [n \in 1..2 * w |-> n]
    BY <2>1
  <2>3. g \in Seq(Turns)
    OBVIOUS
  <2> QED
    BY <2>2, <2>3
<1>4. PICK fill :
         fill = FoldLeft(LAMBDA f, k: IF Len(f.idq) < IssueWidth THEN AddLine(f) ELSE f,
                         [idq |-> queue, offset |-> rspOffset, at |-> nextInst], turns)
  OBVIOUS
<1>5. Traced(fill.idq, fill.offset)
  BY <1>1, <1>4, FilledTraced
<1>6. idq' = fill.idq /\ rspOffset' = fill.offset
  BY <1>2, <1>3, <1>4 DEF SimpleFill, AddLine
<1>7. source' = "none" /\ ms' = ms
  BY DEF SimpleFill, queueVars
<1> QED
  BY <1>5, <1>6, <1>7 DEF StackInv, StackKept

LEMMA LSDFillKept ==
  ASSUME StackInv, NEW queue \in Seq(Uops), Traced(queue, rspOffset), LSDFill(queue)
  PROVE  StackKept
<1>1. Given /\ nextInst \in Instances
  BY SetUpGiven DEF StackInv, FrontInv
<1>2. /\ rspOffset' = rspOffset /\ source' = source /\ source = "LSD" /\ ms' = ms
      /\ \/ queue = <<>> /\ idq' = LSDUops(nextInst.rnd)
         \/ idq' = queue
  BY DEF LSDFill, queueVars
<1>3. CASE idq' = LSDUops(nextInst.rnd)
  <2>1. nextInst.rnd \in Nat
    BY <1>1, InstanceFacts
  <2>2. PICK q \in Seq(Laminated) : q = idq'
    BY <1>1, <1>3, <2>1, LSDUopsReal
  <2>3. Traced(q, 0)
    BY <1>1, <1>2, StillTraced DEF StackInv
  <2>4. rspOffset' = 0
    BY <1>2 DEF StackInv
  <2> QED
    BY <1>2, <2>2, <2>3, <2>4 DEF StackInv, StackKept
<1>4. CASE idq' = queue
  BY <1>2, <1>4 DEF StackInv, StackKept
<1> QED
  BY <1>2, <1>3, <1>4

LEMMA MSFillKept ==
  ASSUME StackInv, NEW queue \in Seq(Uops), Traced(queue, rspOffset), MSFill(queue)
  PROVE  StackKept
<1>1. Given /\ rspOffset \in Offsets /\ ms \in MSStates /\ ms.queue \in Seq(Laminated)
  BY SetUpGiven DEF StackInv, FrontInv
<1>2. MSCycle(ms).ms.queue \in Seq(Laminated) /\ MSCycle(ms).uops \in Seq(Laminated)
  BY <1>1, MSCycleReal
<1>3. Deliver(queue, MSCycle(ms).uops) /\ ms' = MSCycle(ms).ms /\ source' = source /\ source # "LSD"
  BY DEF MSFill
<1>4. Traced(idq', rspOffset')
  BY <1>1, <1>2, <1>3, DeliveredTraced
<1> QED
  BY <1>2, <1>3, <1>4 DEF StackKept

LEMMA MITEFillKept ==
  ASSUME StackInv, NEW queue \in Seq(Uops), Traced(queue, rspOffset), MITEFill(queue)
  PROVE  StackKept
<1>1. FrontInv /\ Given /\ rspOffset \in Offsets /\ ms.queue \in Seq(Laminated)
  BY SetUpGiven DEF StackInv, FrontInv
<1>2. PICK q \in Seq(IQEntries) : q = PreDecode(RefilledPreDecoder, Aged(iq)).iq
  BY <1>1, PreDecodedTyped
<1>3. PICK group \in Seq(Instances) : group = DecodedGroup(q)
  BY <1>2, DecodedGroupTyped
<1>4. PICK uops \in Seq(Laminated) : uops = FlattenSeq([j \in DOMAIN group |-> MiteUops(group[j])])
  BY <1>1, UopsOfReal
<1>5. Deliver(queue, uops)
  BY <1>2, <1>3, <1>4 DEF MITEFill
<1>6. Traced(idq', rspOffset')
  BY <1>1, <1>5, DeliveredTraced
<1>7. ms'.queue \in Seq(Laminated)
  <2>1. ms' = IF group # <<>> /\ code[Last(group).i].ms > 0
              THEN AddToMS(ms, MSUops(Last(group)), "MITE") ELSE ms
    BY <1>2, <1>3 DEF MITEFill
  <2>2. group # <<>> => Last(group) \in Instances
    BY EmptySeq DEF Last
  <2> QED
    BY <1>1, <2>1, <2>2, AddToMSReal
<1>8. source' # "LSD"
  BY DEF MITEFill
<1> QED
  BY <1>6, <1>7, <1>8 DEF StackKept

LEMMA DSBFillKept ==
  ASSUME StackInv, NEW queue \in Seq(Uops), Traced(queue, rspOffset), DSBFill(queue)
  PROVE  StackKept
<1>1. FrontInv /\ Given /\ rspOffset \in Offsets /\ ms \in MSStates /\ ms.queue \in Seq(Laminated)
  BY SetUpGiven DEF StackInv, FrontInv
<1>2. PICK buffer \in [blockQueue : EntryBlocks, delayed : BOOLEAN] : buffer = RefilledDsb
  BY <1>1, QueuesTyped
<1>3. PICK read \in ReadStates : read = DsbRead(buffer)
  BY <1>1, DsbReadTyped
<1>4. ReadReal(read)
  BY <1>1, <1>3, DsbReadReal
<1>5. PICK n \in Nat, out \in Seq(Entries) : out = read.out /\ n = Len(out)
  BY DEF ReadStates
<1>6. PICK uops \in Seq(Laminated) : uops = [j \in DOMAIN out |-> Uop(out[j].inst, out[j].k)]
  <2>1. ASSUME NEW j \in 1..n PROVE Uop(out[j].inst, out[j].k) \in Laminated
    <3>1. out[j] \in Entries /\ out[j].k # 0
      BY <1>4, <1>5 DEF ReadReal
    <3>2. out[j].inst \in Instances /\ out[j].k \in Nat
      BY <3>1 DEF Entries
    <3>3. Uop(out[j].inst, out[j].k) \in Uops
      BY <1>1, <3>2, UopTyped
    <3> QED
      BY <3>1, <3>3 DEF Laminated, IsSync, Uop
  <2>2. PICK g \in [1..n -> Laminated] : g = [j \in 1..n |-> Uop(out[j].inst, out[j].k)]
    BY <2>1
  <2>3. g \in Seq(Laminated)
    OBVIOUS
  <2>4. DOMAIN out = 1..n
    BY <1>5
  <2> QED
    BY <2>2, <2>3, <2>4
<1>7. Deliver(queue, uops) /\ ms' = read.ms /\ source' # "LSD"
  BY <1>2, <1>3, <1>5, <1>6 DEF DSBFill
<1>8. Traced(idq', rspOffset')
  BY <1>1, <1>7, DeliveredTraced
<1> QED
  BY <1>4, <1>7, <1>8 DEF StackKept, ReadReal

LEMMA TracedNext ==
  ASSUME UNCHANGED <<arch, code>>, Traced(idq', rspOffset')
  PROVE  Traced(idq, rspOffset)'
BY DEF Traced, Chain, OffsetAfter, SyncsAt, ReadsPending, ChangedOffset

LEMMA StackInvStep ==
  ASSUME StackInv, [Next]_vars
  PROVE  StackInv'
<1>1. FrontInv' /\ FrontInv /\ Given
  BY FrontInvStep, SetUpGiven DEF StackInv, FrontInv
<1>2. ASSUME StackKept, UNCHANGED <<arch, code>> PROVE StackInv'
  <2>1. Traced(idq, rspOffset)'
    BY <1>2, TracedNext DEF StackKept
  <2>2. Laminated' = Laminated
    BY <1>2 DEF Laminated, Uops, Rounds
  <2> QED
    BY <1>1, <1>2, <2>1, <2>2 DEF StackInv, StackKept
<1>3. CASE UNCHANGED vars
  <2>1. UNCHANGED <<arch, code, source, idq, rspOffset, ms>>
    BY <1>3 DEF vars, queueVars
  <2>2. StackKept
    BY <2>1 DEF StackInv, StackKept
  <2> QED
    BY <1>2, <2>1, <2>2
<1>4. CASE Next
  <2>1. PICK n \in 0..IssueWidth : Cycle(n)
    BY <1>4 DEF Next
  <2>2. n \in Nat /\ n <= Len(idq) /\ idq \in Seq(Uops)
    BY <1>1, <2>1 DEF Cycle, Take, Given, Machine, FrontInv
  <2>3. PICK queue \in Seq(Uops) : queue = SubSeq(idq, n + 1, Len(idq))
    BY <1>1, <2>2, TakenTyped
  <2>4. Traced(queue, rspOffset)
    BY <2>2, <2>3, LeftTraced DEF StackInv
  <2>5. UNCHANGED <<arch, code>>
    BY <2>1 DEF Cycle
  <2>6. \/ Full(queue) \/ SimpleFill(queue) \/ LSDFill(queue)
        \/ MSFill(queue) \/ MITEFill(queue) \/ DSBFill(queue)
    BY <2>1, <2>3 DEF Cycle
  <2>7. CASE Full(queue)
    <3>1. StackKept
      BY <2>4, <2>7 DEF Full, StackInv, StackKept
    <3> QED
      BY <1>2, <2>5, <3>1
  <2>8. CASE ~Full(queue)
    <3>1. StackKept
      BY <2>4, <2>6, <2>8, SimpleFillKept, LSDFillKept, MSFillKept, MITEFillKept, DSBFillKept
    <3> QED
      BY <1>2, <2>5, <3>1
  <2> QED
    BY <2>7, <2>8
<1> QED
  BY <1>3, <1>4

(* No instruction alone moves RSP out of the range of the stack engine.    *)
LEMMA SetUpWithin ==
  ASSUME SetUp
  PROVE  \A i \in 1..Len(code) : code[i].rspDelta <= MaxRSPOffset
<1>0. PICK s \in Setups : \E prog \in s.programs : code = LaidOut(prog)
  BY DEF SetUp
<1>1. PICK prog \in s.programs : code = LaidOut(prog)
  BY <1>0
<1>2. prog \in Seq(Instr) /\ prog # <<>>
  BY CacheBlocksAssumption DEF ProgramOK
<1>3. Len(code) = Len(prog) /\ \A i \in 1..Len(prog) : SameInstr(code[i], prog[i])
  BY <1>1, <1>2, LaidOutIsLaid
<1>4. ASSUME NEW i \in 1..Len(code) PROVE code[i].rspDelta <= MaxRSPOffset
  <2>1. i \in DOMAIN prog
    BY <1>2, <1>3
  <2>2. prog[i].rspDelta <= MaxRSPOffset
    BY <2>1, StackAssumption
  <2>3. code[i].rspDelta = prog[i].rspDelta
    BY <1>3 DEF SameInstr
  <2> QED
    BY <2>2, <2>3
<1> QED
  BY <1>4

(* The offset behind one uop of the queue.                                 *)
LEMMA OffsetMoves ==
  ASSUME Given, \A i \in 1..Len(code) : code[i].rspDelta <= MaxRSPOffset,
         NEW o \in Int, NEW u \in Uops, NEW d \in Int, d = code[u.i].rspDelta
  PROVE  /\ u.k # 1 => OffsetAfter(o, u) = o
         /\ u.k = 1 /\ code[u.i].rspDef => OffsetAfter(o, u) = 0
         /\ u.k = 1 /\ ~code[u.i].rspDef /\ SyncsAt(o, u)
              => OffsetAfter(o, u) = IF code[u.i].rspUse THEN d ELSE 0
         /\ u.k = 1 /\ ~code[u.i].rspDef /\ ~SyncsAt(o, u) => OffsetAfter(o, u) = o + d
         /\ u.k = 1 /\ code[u.i].rspUse => (SyncsAt(o, u) <=> o # 0)
<1>1. u.i \in 1..Len(code) /\ code[u.i] \in Instr
  BY CodeFacts DEF Uops
<1>2. code[u.i].rspDef \in BOOLEAN /\ code[u.i].rspUse \in BOOLEAN
  BY <1>1 DEF Instr
<1>3. PICK x \in Nat : x = MaxRSPOffset
  BY DEF Given, Machine
<1>4. d <= x
  BY <1>1, <1>3
<1>5. PICK changed \in Int : /\ changed = ChangedOffset(o, u)
                             /\ changed = (IF o # 0 /\ code[u.i].rspUse THEN 0 ELSE o) + d
  BY DEF ChangedOffset, ReadsPending
<1>6. SyncsAt(o, u) <=> u.k = 1 /\ ((o # 0 /\ code[u.i].rspUse) \/ changed > x)
  BY <1>3, <1>5 DEF SyncsAt, ReadsPending
<1>7. OffsetAfter(o, u) = IF u.k # 1 THEN o ELSE IF changed > x \/ code[u.i].rspDef THEN 0 ELSE changed
  BY <1>3, <1>5 DEF OffsetAfter
<1>8. u.k = 1 /\ ~code[u.i].rspDef /\ SyncsAt(o, u) => OffsetAfter(o, u) = IF code[u.i].rspUse THEN d ELSE 0
  BY <1>4, <1>5, <1>6, <1>7
<1>9. u.k = 1 /\ ~code[u.i].rspDef /\ ~SyncsAt(o, u) => OffsetAfter(o, u) = o + d
  BY <1>5, <1>6, <1>7
<1>10. u.k = 1 /\ code[u.i].rspUse => (SyncsAt(o, u) <=> o # 0)
  BY <1>4, <1>5, <1>6
<1> QED
  BY <1>7, <1>8, <1>9, <1>10

LEMMA SyncedExactly ==
  ASSUME Given, \A i \in 1..Len(code) : code[i].rspDelta <= MaxRSPOffset,
         idq \in Seq(Uops), Traced(idq, rspOffset),
         NEW p \in Firsts, NEW q \in Firsts, p < q, Known(p), Reads(q),
         \A j \in Firsts : p < j /\ j < q => ~Known(j)
  PROVE  Synced(q) <=> Left(p) + Deltas(Between(p, q)) # 0
<1>1. PICK l \in Nat : l = Len(idq) /\ DOMAIN idq = 1..l /\ idq \in [1..l -> Uops]
  OBVIOUS
<1>2. PICK o : Chain(o, idq, rspOffset)
  BY DEF Traced
<1>3. o \in [0..l -> Int] /\ \A j \in 1..l : o[j] = OffsetAfter(o[j - 1], idq[j])
  BY <1>1, <1>2 DEF Chain
<1>4. p \in 1..l /\ q \in 1..l /\ idq[p].k = 1 /\ idq[q].k = 1
  BY <1>1 DEF Firsts
<1>5. ASSUME NEW j \in 1..l
      PROVE  idq[j] \in Uops /\ Moves(j) \in Int /\ o[j - 1] \in Int
  <2>1. idq[j] \in Uops
    BY <1>1
  <2>2. o[j - 1] \in Int
    <3>1. j - 1 \in 0..l
      OBVIOUS
    <3> QED
      BY <1>3, <3>1
  <2>3. PICK u \in Uops : u = idq[j]
    BY <2>1
  <2>4. code[u.i].rspDelta \in Int
    BY <2>2, OffsetAfterTyped
  <2> QED
    BY <2>1, <2>2, <2>3, <2>4 DEF Moves
<1>6. ASSUME NEW j \in 2..l, idq[j].k = 1 PROVE Synced(j) <=> SyncsAt(o[j - 1], idq[j])
  <2>1. IsSync(idq[j - 1]) <=> SyncsAt(o[j - 1], idq[j])
    BY <1>1, <1>2, <1>6 DEF Chain
  <2> QED
    BY <2>1 DEF Synced
<1>7. PICK left \in Int : left = Left(p)
  <2>1. Moves(p) \in Int
    BY <1>4, <1>5
  <2>2. Left(p) \in Int
    BY <2>1 DEF Left
  <2> QED
    BY <2>2
<1>8. o[p] = left
  <2>1. o[p] = OffsetAfter(o[p - 1], idq[p])
    BY <1>3, <1>4
  <2>2. PICK before \in Int, u \in Uops, d \in Int :
           before = o[p - 1] /\ u = idq[p] /\ d = Moves(p)
    BY <1>4, <1>5
  <2>3. d = code[u.i].rspDelta /\ u.k = 1
    BY <1>4, <2>2 DEF Moves
  <2>4. CASE code[u.i].rspDef
    <3>1. OffsetAfter(before, u) = 0
      BY <2>3, <2>4, OffsetMoves
    <3> QED
      BY <1>7, <2>1, <2>2, <2>4, <3>1 DEF Left
  <2>5. CASE ~code[u.i].rspDef
    <3>1. Synced(p) /\ p \in 2..l
      BY <1>4, <2>2, <2>5 DEF Known, Synced
    <3>2. SyncsAt(before, u)
      BY <1>4, <1>6, <2>2, <3>1
    <3>3. OffsetAfter(before, u) = IF code[u.i].rspUse THEN d ELSE 0
      BY <2>3, <2>5, <3>2, OffsetMoves
    <3> QED
      BY <1>7, <2>1, <2>2, <2>5, <3>3 DEF Left, Reads
  <2> QED
    BY <2>4, <2>5
<1>9. PICK S \in SUBSET (1..l) : S = Between(p, q) /\ \A j \in S : j \in Firsts /\ p < j /\ j < q
  <2>1. Between(p, q) \in SUBSET (1..l)
    BY <1>1 DEF Between, Firsts
  <2> QED
    BY <2>1 DEF Between
<1>10. IsFiniteSet(S)
  <2>1. IsFiniteSet(1..l)
    BY FS_Interval
  <2> QED
    BY <2>1, FS_Subset
<1>11. PICK h \in [S -> Int] : h = [j \in S |-> Moves(j)]
  <2>1. \A j \in S : Moves(j) \in Int
    BY <1>5
  <2>2. [j \in S |-> Moves(j)] \in [S -> Int]
    BY <2>1
  <2> QED
    BY <2>2
<1>12. PICK m : IsSum(m, h, S)
  BY <1>10, SumExists
<1>13. Deltas(S) = m[S]
  <2>1. \A x \in S : h[x] = code[idq[x].i].rspDelta
    BY <1>11 DEF Moves
  <2> QED
    BY <1>10, <1>12, <2>1, DeltasAreSum
<1>14. PICK n \in Nat : n = (q - 1) - p
  <2>1. (q - 1) - p \in Nat
    BY <1>4
  <2> QED
    BY <2>1
<1> DEFINE Upto(k) == {j \in S : j <= k}
           T == {d \in 0..n : o[p + d] = left + m[Upto(p + d)]}
<1>15. 0 \in T
  <2>1. p + 0 = p
    BY <1>4
  <2>2. Upto(p) = {}
    BY <1>4, <1>9
  <2>3. m[{}] = 0
    BY <1>12 DEF IsSum
  <2> HIDE DEF Upto
  <2>4. m[Upto(p)] = 0
    BY <2>2, <2>3
  <2>5. o[p] = left + m[Upto(p)]
    BY <1>8, <2>4
  <2>6. o[p + 0] = left + m[Upto(p + 0)]
    BY <2>1, <2>5
  <2> QED
    BY <2>6
<1>16. ASSUME NEW d \in 0..n, d < n, d \in T PROVE d + 1 \in T
  <2>1. PICK k \in 2..l : k = p + (d + 1) /\ k - 1 = p + d /\ p < k /\ k < q
    <3>1. p + (d + 1) \in 2..l /\ (p + (d + 1)) - 1 = p + d /\ p < p + (d + 1) /\ p + (d + 1) < q
      BY <1>4, <1>14, <1>16
    <3> QED
      BY <3>1
  <2>2. PICK before \in Int, u \in Uops, move \in Int :
           before = o[k - 1] /\ u = idq[k] /\ move = Moves(k)
    <3>1. k \in 1..l
      OBVIOUS
    <3>2. idq[k] \in Uops /\ Moves(k) \in Int /\ o[k - 1] \in Int
      BY <1>5, <3>1
    <3> QED
      BY <3>2
  <2>3. o[k] = OffsetAfter(before, u) /\ move = code[u.i].rspDelta
    BY <1>3, <2>2 DEF Moves
  <2>4. before = left + m[Upto(k - 1)]
    BY <1>16, <2>1, <2>2
  <2>5. Upto(k - 1) \in SUBSET S /\ m[Upto(k - 1)] \in Int
    BY <1>12 DEF IsSum
  <2>6. CASE u.k # 1
    <3>1. o[k] = before
      BY <2>3, <2>6, OffsetMoves
    <3>2. k \notin S
      BY <1>9, <2>2, <2>6 DEF Firsts
    <3>3. Upto(k) = Upto(k - 1)
      <4>1. \A j \in S : j <= k /\ j # k <=> j <= k - 1
        OBVIOUS
      <4> QED
        BY <3>2, <4>1
    <3> HIDE DEF Upto
    <3> QED
      BY <1>16, <2>1, <2>4, <3>1, <3>3
  <2>7. CASE u.k = 1
    <3>1. k \in Firsts /\ k \in S
      BY <1>1, <1>9, <2>1, <2>2, <2>7 DEF Between, Firsts
    <3>2. ~Synced(k) /\ ~code[u.i].rspDef
      BY <2>1, <2>2, <3>1 DEF Known
    <3>3. ~SyncsAt(before, u)
      BY <1>6, <2>2, <2>7, <3>2
    <3>4. o[k] = before + move
      BY <2>3, <2>7, <3>2, <3>3, OffsetMoves
    <3>5. Upto(k) = Upto(k - 1) \cup {k} /\ k \notin Upto(k - 1)
      <4>1. \A j \in S : j <= k <=> j <= k - 1 \/ j = k
        OBVIOUS
      <4>2. ~(k <= k - 1)
        OBVIOUS
      <4> QED
        BY <3>1, <4>1, <4>2
    <3>6. m[Upto(k)] = m[Upto(k - 1)] + h[k]
      <4> HIDE DEF Upto
      <4> QED
        BY <1>12, <2>5, <3>1, <3>5 DEF IsSum
    <3>7. h[k] = move
      BY <1>11, <2>2, <3>1
    <3> HIDE DEF Upto
    <3>8. o[k] = left + m[Upto(k)]
      BY <2>4, <2>5, <3>4, <3>6, <3>7
    <3> QED
      BY <1>16, <2>1, <3>8
  <2> QED
    BY <2>6, <2>7
<1>17. o[q - 1] = left + m[S]
  <2> HIDE DEF T
  <2>1. \A d \in 0..n : d \in T
    BY <1>15, <1>16, UpTo
  <2>2. n \in T
    BY <2>1
  <2>3. p + n = q - 1
    BY <1>4, <1>14
  <2>4. Upto(q - 1) = S
    BY <1>4, <1>9
  <2> HIDE DEF Upto
  <2> QED
    BY <2>2, <2>3, <2>4 DEF T
<1>18. Synced(q) <=> o[q - 1] # 0
  <2>1. PICK before \in Int, u \in Uops, d \in Int :
           before = o[q - 1] /\ u = idq[q] /\ d = Moves(q)
    BY <1>4, <1>5
  <2>2. d = code[u.i].rspDelta /\ u.k = 1 /\ code[u.i].rspUse /\ q \in 2..l
    BY <1>4, <2>1 DEF Moves, Reads
  <2>3. SyncsAt(before, u) <=> before # 0
    BY <2>2, OffsetMoves
  <2> QED
    BY <1>4, <1>6, <2>1, <2>2, <2>3
<1> QED
  BY <1>7, <1>9, <1>13, <1>17, <1>18

(* An instruction that reads RSP finds a synchronisation before it exactly *)
(* if what the pushes and pops have moved since RSP was last known does    *)
(* not cancel out: add_stack_sync_uop carries the offset over every        *)
(* delivery, of whichever source, the renamer takes from the front without *)
(* parting a synchronisation from what it stands for, and the loop stream  *)
(* detector, which adds none, only repeats code that leaves RSP alone.     *)
THEOREM StackKeptInSync == Spec => []StackSynced
<1>1. Init => StackInv
  BY StackInvInit
<1>2. StackInv /\ [Next]_vars => StackInv'
  BY StackInvStep
<1>3. StackInv => StackSynced
  <2> SUFFICES ASSUME StackInv,
                      NEW p \in Firsts, NEW q \in Firsts, p < q, Known(p), Reads(q),
                      \A j \in Firsts : p < j /\ j < q => ~Known(j)
               PROVE  Synced(q) <=> Left(p) + Deltas(Between(p, q)) # 0
    BY SyncedIs
  <2>1. Given /\ idq \in Seq(Uops) /\ Traced(idq, rspOffset)
    BY SetUpGiven DEF StackInv, FrontInv
  <2>2. \A i \in 1..Len(code) : code[i].rspDelta <= MaxRSPOffset
    BY SetUpWithin DEF StackInv, FrontInv
  <2> QED
    BY <2>1, <2>2, SyncedExactly
<1> QED
  BY <1>1, <1>2, <1>3, PTL DEF Spec
=============================================================================
