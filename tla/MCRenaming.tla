----------------------------- MODULE MCRenaming -----------------------------
(***************************************************************************)
(* What happens to a uop between the decode queue and the scheduler: short *)
(* programs for the renamer, and groups of uops for the port assignment of *)
(* three kinds of cores.                                                   *)
(***************************************************************************)
EXTENDS RenamerProperties, PortAssignment

Lam(uops, fused) == [uops |-> uops, fused |-> fused, sync |-> FALSE]
Alu(ins, outs) == [ins |-> ins, outs |-> outs, ports |-> TRUE, kind |-> "alu", addr |-> NoAddr]
NoPort(ins, outs) == [Alu(ins, outs) EXCEPT !.ports = FALSE]
Instr(lams, op, imm, args) ==
  [lams |-> lams, op |-> op, imm |-> imm, args |-> args, eliminable |-> FALSE, narrow |-> FALSE,
   serializing |-> FALSE, pointer |-> FALSE, reads |-> {}, writes |-> {}]
One(uop, op, imm, args) == Instr(<<Lam(<<uop>>, 1)>>, op, imm, args)

Add(d, imm) == One(Alu(<<R(d)>>, <<R(d)>>), "add", imm, <<d>>)
Sub(d, imm) == One(Alu(<<R(d)>>, <<R(d)>>), "sub", imm, <<d>>)
Or(d, s)    == One(Alu(<<R(d), R(s)>>, <<R(d)>>), "other", 0, <<d, s>>)
Zero(d)     == One(NoPort(<<>>, <<R(d)>>), "other", 0, <<>>)
Fxch(d, s)  == One(NoPort(<<R(d), R(s)>>, <<R(s), R(d)>>), "other", 0, <<d, s>>)
Mov(d, s)   == [One(Alu(<<R(s)>>, <<R(d)>>), "mov", 0, <<s>>) EXCEPT !.eliminable = TRUE]
Mov32(d, s) == [Mov(d, s) EXCEPT !.narrow = TRUE]
Movaps(d, s) == Mov(d, s)
Cpuid(d)    == [One(Alu(<<>>, <<R(d)>>), "other", 0, <<>>) EXCEPT !.serializing = TRUE]
Address3(b, i, disp) == [base |-> b, index |-> i, disp |-> disp]
\* the operands of an address are not inputs of the instruction's value
Load(d, b, i, disp) ==
  [One([ins |-> IF i = "none" THEN <<R(b)>> ELSE <<R(b), R(i)>>, outs |-> <<R(d)>>, ports |-> TRUE,
        kind |-> "load", addr |-> Address3(b, i, disp)], "mov", 0, <<>>) EXCEPT !.pointer = TRUE]
Store(b, disp, s) ==
  LET sta == [ins |-> <<R(b)>>, outs |-> <<>>, ports |-> TRUE, kind |-> "sta", addr |-> Address3(b, "none", disp)]
      std == [ins |-> <<R(s)>>, outs |-> <<>>, ports |-> TRUE, kind |-> "std", addr |-> Address3(b, "none", disp)] IN
  Instr(<<Lam(<<sta, std>>, 1)>>, "other", 0, <<s>>)
Xchg(a, b) ==
  Instr(<<Lam(<<Alu(<<R(a)>>, <<P(1)>>)>>, 1), Lam(<<Alu(<<R(b)>>, <<R(a)>>)>>, 1), Lam(<<Alu(<<P(1), R(a)>>, <<R(b)>>)>>, 1)>>,
        "other", 0, <<a, b>>)
\* one laminated uop that loads, and one that loads and another that stores
AddFrom(d, b, disp) ==
  Instr(<<Lam(<<[ins |-> <<R(b)>>, outs |-> <<P(1)>>, ports |-> TRUE, kind |-> "load", addr |-> Address3(b, "none", disp)],
                Alu(<<P(1), R(d)>>, <<R(d)>>)>>, 1)>>, "other", 0, <<d>>)
AddTo(b, disp, s) ==
  LET sta == [ins |-> <<R(b)>>, outs |-> <<>>, ports |-> TRUE, kind |-> "sta", addr |-> Address3(b, "none", disp)]
      std == [sta EXCEPT !.ins = <<P(2)>>, !.kind = "std"] IN
  Instr(<<Lam(<<[sta EXCEPT !.outs = <<P(1)>>, !.kind = "load"], Alu(<<P(1), R(s)>>, <<P(2)>>)>>, 1), Lam(<<sta, std>>, 1)>>,
        "other", 0, <<s>>)
Synced(i) == [i EXCEPT !.lams = <<[Lam(<<Alu(<<R("RSP")>>, <<R("RSP")>>)>>, 1) EXCEPT !.sync = TRUE]>> \o @]
Bytes(i, reads, writes) == [i EXCEPT !.reads = reads, !.writes = writes]

StreamNamed(name) ==
  CASE name = "producers" ->   \* exchanges, ports and no ports, across cycle boundaries
         <<Add("RAX", 1), Xchg("RAX", "RBX"), Mov("RDX", "RAX"), Or("ST0", "ST1"), Fxch("ST0", "ST1"), Or("RAX", "RDX"),
           Or("ST0", "ST1"), Zero("RBX"),
           Xchg("RBX", "RDX"), Or("RBX", "RDX")>>
    [] name = "aliases" ->     \* moves that share operands, are repeated and are overwritten
         <<Mov("RBX", "RAX"), Mov("RDX", "RBX"), Mov("RBX", "RAX"), Add("RAX", 1), Mov("RAX", "RDX"), Movaps("XMM1", "XMM0"),
           Or("RBX", "RDX"), Mov("RDX", "RDX"), Movaps("XMM0", "XMM1"), Cpuid("RAX"), Mov("RBX", "RDX")>>
    [] name = "slots" ->       \* more moves than slots
         <<Mov("RBX", "RAX"), Mov("RDX", "RSI"), Add("RBX", 1), Add("RDX", 1), Mov("RSI", "RAX"), Mov("RAX", "RDX"), Mov("RDX", "RSI"),
           Add("RSI", 1), Mov("RBX", "RDX")>>
    [] name = "memory" ->      \* one address computed in several ways
         <<AddTo("RBX", 8, "RAX"), Mov("RDX", "RBX"), Add("RDX", 16), Store("RDX", 0, "RAX"), Sub("RDX", 8),
           Load("RSI", "RDX", "none", 0), Store("RBX", 8, "RSI"), Load("RAX", "RDX", "none", 8), Load("RAX", "RDX", "none", 0),
           Xchg("RDX", "RBX"), Load("RSI", "RDX", "none", 8)>>
    [] name = "pointers" ->    \* chasing pointers through moves
         <<Load("RAX", "RBX", "none", 0), Load("RDX", "RAX", "none", 8), Mov("RBX", "RDX"), Load("RSI", "RBX", "none", 0),
           Mov32("RBX", "RSI"), Load("RDX", "RBX", "none", 0), Zero("RBX"), Load("RDX", "RDX", "RBX", 0), Add("RDX", 1), Load("RAX", "RDX", "none", 0)>>
    [] name = "stack" ->       \* RSP is synchronised in front of a move from it, and merges of high bytes
         <<Store("RSP", 8, "RAX"), Synced(Mov("RBP", "RSP")), Load("RSI", "RBP", "none", 8), Synced(AddFrom("RSI", "RSP", 16)),
           Bytes(Add("RAX", 1), {<<"RAX", "high">>}, {<<"RAX", "high">>}), Bytes(Or("RBX", "RAX"), {<<"RAX", "wide">>, <<"RBX", "wide">>}, {<<"RBX", "wide">>}),
           Store("RBX", 0, "RSI"), Bytes(Add("RBX", 1), {<<"RBX", "high">>}, {<<"RBX", "high">>}), Load("RDX", "RBX", "none", 0), Cpuid("RAX")>>
MCGPRs == {"RAX", "RBX", "RDX", "RSI", "RSP", "RBP"}
MCOthers == {"ST0", "ST1"}
MCSIMDs == {"XMM0", "XMM1"}

Arch(width, gprSlots, simdSlots, length, init, allAliases, fast, high8) ==
  [issueWidth |-> width, gprSlots |-> gprSlots, simdSlots |-> simdSlots, pipelineLength |-> length, initPolicy |-> init,
   allAliasesMustBeOverwritten |-> allAliases, fastPointerChasing |-> fast, high8RenamedSeparately |-> high8]
MCSetups == {
  [arch |-> Arch(3, 2, Unlimited, 2, "stack", FALSE, TRUE, TRUE),
   programs |-> {<<>>} \cup {StreamNamed(n) : n \in {"memory", "pointers", "stack", "producers"}}],
  [arch |-> Arch(4, 2, 1, 2, "diff", TRUE, FALSE, FALSE), programs |-> {StreamNamed("aliases")}],
  [arch |-> Arch(4, 2, NoSlots, 3, "diff", FALSE, FALSE, FALSE), programs |-> {StreamNamed("slots")}]}

-----------------------------------------------------------------------------
\* What a cycle may issue, given what a slot may hold: no set of ports is
\* asked for more uops than it has ports.
Uops(slots) == FlattenSeq([s \in DOMAIN slots |-> [k \in DOMAIN slots[s] |-> [slot |-> s - 1, ports |-> slots[s][k]]]])
Sustainable(uops, ports) ==
  \A T \in SUBSET ports : Cardinality({i \in DOMAIN uops : ToSet(uops[i].ports) \subseteq T}) <= Cardinality(T)
GroupsOf(choices, n, ports) == {uops \in {Uops(slots) : slots \in [1..n -> choices]} : Sustainable(uops, ports)}

Core(style, ports, choices, slots, rsWidth, dispatches, backlog) ==
  [style |-> style, ports |-> ports, groups |-> GroupsOf(choices, slots, ports), rsWidth |-> rsWidth,
   dispatches |-> dispatches, backlog |-> backlog]
\* ALU uops of the three kinds of cores; loads and stores of those with ten
\* ports, where the order in a list matters
AluSlots == {<<>>, <<<<0, 1, 5>>>>, <<<<0, 1>>>>}
MCCores == {
  Core("six", {0, 1, 5}, AluSlots, 3, 54, "all", 8),
  Core("eight", {0, 1, 5}, AluSlots, 3, 60, "all", 8),
  Core("ten", {0, 1}, {<<>>, <<<<0, 1>>>>, <<<<0>>>>}, 5, 97, "all", 9),
  Core("ten", {2, 3, 4, 9}, {<<>>, <<<<2, 3>>>>, <<<<4, 9>>>>, <<<<2, 3>>, <<4, 9>>>>}, 2, 3, "any", 5)}

-----------------------------------------------------------------------------
\* Instructions that are synchronised and need more than that: a merge, and
\* a second laminated uop.
SyncArch == Arch(3, 2, Unlimited, 2, "stack", FALSE, TRUE, TRUE)
MergedSetups == {
  [arch |-> SyncArch,
   programs |-> {<<Bytes(Add("RAX", 1), {<<"RAX", "high">>}, {<<"RAX", "high">>}),
                   Bytes(Synced(AddFrom("RAX", "RSP", 8)), {<<"RAX", "wide">>}, {<<"RAX", "wide">>})>>}]}
SplitSetups == {[arch |-> SyncArch, programs |-> {<<Add("RAX", 1), Synced(AddTo("RSP", 8, "RAX"))>>}]}

-----------------------------------------------------------------------------
\* Ports are assigned while the renamer has nothing to do, and conversely.
NoPorts ==
  /\ core = [dispatches |-> "none", ports |-> {}]
  /\ portUsage = <<>> /\ usageBefore = <<>> /\ next = <<>> /\ inPrevCycle = {} /\ drift = <<>>

MCInit == Init /\ meaning = Meaning /\ ((Program # <<>> /\ NoPorts) \/ (Program = <<>> /\ PortInit))
MCNext ==
  /\ UNCHANGED meaning
  /\ \/ Program # <<>> /\ Cycle /\ UNCHANGED portVars
     \/ Program = <<>> /\ PortNext /\ UNCHANGED vars
MCSpec == MCInit /\ [][MCNext]_<<vars, meaning, portVars>>
=============================================================================
