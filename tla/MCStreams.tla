----------------------------- MODULE MCStreams -----------------------------
(***************************************************************************)
(* Building blocks for the instruction streams of the model-checking runs. *)
(***************************************************************************)
LOCAL INSTANCE Integers
LOCAL INSTANCE Sequences

LOCAL Absent == -1

(* A one-cycle ALU uop that is an instruction of its own.                  *)
Alu(ports, inputs) ==
  [ports |-> ports, inputs |-> inputs, outputs |-> {1}, kind |-> "alu",
   eliminated |-> FALSE, first |-> TRUE, fences |-> {}, instr |-> "any", tp |-> Absent,
   div |-> 0, m256 |-> FALSE, entry |-> Absent, disp |-> Absent, queueIdx |-> 0, fused |-> 0]

From(u, lat) == [uop |-> u, lat |-> lat]

Load(ports, inputs, store) ==
  [Alu(ports, inputs) EXCEPT !.kind = "load", !.outputs = {5}, !.entry = store]

StoreAddress(ports, inputs, self, disp) ==
  [Alu(ports, inputs) EXCEPT !.kind = "sta", !.outputs = {}, !.entry = self, !.disp = disp]

StoreData(ports, inputs, store) ==
  [Alu(ports, inputs) EXCEPT !.kind = "std", !.outputs = {}, !.entry = store, !.first = FALSE]

Lam(start, mid, end) ==
  [start |-> start, mid |-> mid, end |-> end, serializing |-> FALSE, sync |-> FALSE]

(* A sequence given by a function expression, as a tuple: TLC would        *)
(* evaluate the expression anew each time an element is looked up.         *)
Tuple(f) == f \o <<>>

(* The round a fused uop belongs to: the last one is round 2, the one      *)
(* before it round 1.                                                      *)
Round(f, last) == IF f >= last THEN 2 ELSE IF f = last - 1 THEN 1 ELSE 0

(* A stream from its uops, the fused uops they form and the laminated uops *)
(* those form.                                                             *)
StreamOf(s) ==
  [uops  |-> Tuple([u \in DOMAIN s.uops |->
                [s.uops[u] EXCEPT
                   !.queueIdx = IF @ = 0 THEN u ELSE @,
                   !.fused = CHOOSE f \in DOMAIN s.fused :
                               \E i \in DOMAIN s.fused[f] : s.fused[f][i] = u]]),
   fused |-> Tuple([f \in DOMAIN s.uops |->
                      IF f \in DOMAIN s.fused THEN s.fused[f] ELSE <<>>]),
   round |-> Tuple([f \in DOMAIN s.uops |-> Round(f, Len(s.fused))]),
   lams  |-> Tuple(s.lams)]

Parts(uops, fusedUops, lams) == [uops |-> uops, fused |-> fusedUops, lams |-> lams]

(* The product of a sequence of tuples with a sequence of last components. *)
Cross(s, t) ==
  Tuple([i \in 1..(Len(s) * Len(t)) |->
           Append(s[(i - 1) \div Len(t) + 1], t[((i - 1) % Len(t)) + 1])])

Over(Op(_), s) == Tuple([i \in DOMAIN s |-> Op(s[i])])
=============================================================================
