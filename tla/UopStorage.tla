----------------------------- MODULE UopStorage -----------------------------
(***************************************************************************)
(* The uops of one simulated instruction stream and the cycle stamps the   *)
(* back end writes on them (sim/uop_storage.rs, sim/types.rs).             *)
(*                                                                         *)
(* The stream itself does not change during a simulation: it is what the   *)
(* front end and the renamer hand to the reorder buffer and the scheduler. *)
(* Init picks one of  Programs  and no action changes the choice.          *)
(* Everything a component may write about a uop is in the records uop,     *)
(* fused and entry; the absent value of the code's Option fields is None.  *)
(***************************************************************************)
EXTENDS Integers, Sequences, FiniteSets

CONSTANTS
  NumUops,      (* Bound: ids of uops (and of fused uops) are 1..NumUops.  *)
  AllPorts,     (* The ports of the microarchitecture, in dispatch order.  *)
  InstrStrs,    (* Names of instructions that occupy a shared resource.    *)
  Programs      (* The instruction streams a run explores, a sequence.     *)

VARIABLES
  stream,  (* Index of the instruction stream being simulated.             *)
  clock,   (* The current cycle.                                           *)
  uop,     (* Per uop: assigned port and ready, dispatch, execution cycle. *)
  fused,   (* Per fused uop: issue and retirement stamps.                  *)
  entry    (* Per store-address uop: its store buffer entry.               *)

storageVars == <<stream, clock, uop, fused, entry>>

None  == -1
Uops  == 1..NumUops
Ports == {AllPorts[i] : i \in DOMAIN AllPorts}
OptNat == Nat \cup {None}

(* t is the latest of the times in T.                                      *)
IsLatest(t, T) == t \in T /\ \A s \in T : s <= t

Max2(a, b) == IF a >= b THEN a ELSE b

(***************************************************************************)
(* The immutable part of a uop: UopProperties, plus what renaming adds to  *)
(* it. An input operand names the uop that produces it and the latency of  *)
(* that result; inputs that are ready from the start (registers never      *)
(* written, results of zero idioms) are left out. entry is the store       *)
(* buffer entry the uop shares, named by the store-address uop that        *)
(* created it, and disp its displacement in the address space, None when   *)
(* the address has no key. fences holds the kinds of access the uop's      *)
(* instruction serializes; fast pointer chasing is folded into lat.        *)
(* Ids follow program order; queueIdx is the creation order the ready      *)
(* queues use, which differs for the uops the renamer and the stack engine *)
(* inject late.                                                            *)
(***************************************************************************)
FenceKinds == {"load", "store"}

Operand == [uop : Uops, lat : Nat]

UopProperties ==
  [ports : SUBSET Ports, inputs : Seq(Operand), outputs : SUBSET Nat,
   kind : {"alu", "load", "sta", "std"}, eliminated : BOOLEAN,
   first : BOOLEAN, fences : SUBSET FenceKinds,
   instr : InstrStrs, tp : OptNat, div : Nat, m256 : BOOLEAN,
   entry : Uops \cup {None}, disp : OptNat,
   queueIdx : Nat, fused : Uops]

(***************************************************************************)
(* A laminated uop is a run of consecutive fused uops mid+1..end, preceded *)
(* by the register-merge uops start+1..mid of its instruction, if any. A   *)
(* stack synchronisation (sync) is a laminated uop of the instruction the  *)
(* next laminated uop begins, and has the merge uops of that instruction   *)
(* in front of it.                                                         *)
(***************************************************************************)
LaminatedUop ==
  [start : Nat, mid : Nat, end : Nat, serializing : BOOLEAN, sync : BOOLEAN]

RunOf(from, to) == [i \in 1..(to - from) |-> from + i]

UsesPort(p, u) == p.uops[u].ports # {} /\ ~p.uops[u].eliminated

(* Operands and store buffer entries only refer to older uops: renaming is *)
(* done in program order. A store-data uop follows its store-address uop,  *)
(* so that an entry belongs to one of each.                                *)
RefersBackwards(p, u) ==
  LET props == p.uops[u]
  IN  /\ \A i \in DOMAIN props.inputs :
           LET o == props.inputs[i]
           IN  o.uop < u /\ UsesPort(p, o.uop) /\ o.lat \in p.uops[o.uop].outputs
      /\ props.kind = "sta" <=> props.entry = u
      /\ props.kind = "alu" => props.entry = None
      /\ props.entry # None => props.entry <= u /\ p.uops[props.entry].kind = "sta"
      /\ props.kind = "load" /\ props.entry # None =>
           \E d \in props.entry..u : p.uops[d].kind = "std" /\ p.uops[d].entry = props.entry

(* The uops of a fused uop follow those of the fused uop before it.        *)
NumberedInOrder(p) ==
  /\ \A u \in Uops : LET f == p.uops[u].fused
                    IN  \E i \in DOMAIN p.fused[f] : p.fused[f][i] = u
  /\ \A f \in Uops : \A i, j \in DOMAIN p.fused[f] : i < j => p.fused[f][i] < p.fused[f][j]
  /\ \A u, v \in Uops : u < v => p.uops[u].fused <= p.uops[v].fused

WellFormed(p) ==
  /\ p.uops \in [Uops -> UopProperties]
  /\ p.fused \in [Uops -> Seq(Uops)]
  /\ p.round \in [Uops -> Nat]
  /\ p.lams \in Seq(LaminatedUop) /\ p.lams # <<>>
  /\ p.lams[1].start = 0
  /\ \A l \in DOMAIN p.lams :
       /\ p.lams[l].start <= p.lams[l].mid
       /\ p.lams[l].mid < p.lams[l].end
       /\ p.lams[l].end <= NumUops
       /\ l > 1 => p.lams[l].start = p.lams[l - 1].end
       /\ p.lams[l].sync => p.lams[l].end = p.lams[l].mid + 1 /\ ~p.lams[l].serializing
       /\ l > 1 /\ p.lams[l - 1].sync => p.lams[l].start = p.lams[l].mid /\ ~p.lams[l].sync
  /\ \A u \in Uops : RefersBackwards(p, u)
  /\ NumberedInOrder(p)
  /\ \A u, v \in Uops :
       /\ p.uops[u].kind = "std" /\ p.uops[v].kind = "std"
       /\ p.uops[u].entry = p.uops[v].entry /\ p.uops[u].entry # None
       => u = v
  /\ \A u, v \in Uops : u # v => p.uops[u].queueIdx # p.uops[v].queueIdx
  /\ \A f \in Uops : \A i \in DOMAIN p.fused[f] : p.uops[p.fused[f][i]].fused = f
  /\ \A f, g \in Uops : f < g => p.round[f] <= p.round[g]

ASSUME NumUopsAssumption == NumUops \in Nat \ {0}
ASSUME PortsAssumption ==
  /\ AllPorts \in Seq(Nat) /\ 0 \in Ports
  /\ \A i, j \in DOMAIN AllPorts : AllPorts[i] = AllPorts[j] => i = j
ASSUME ProgramsAssumption == \A s \in DOMAIN Programs : WellFormed(Programs[s])

(* A definition of its own, so that TLC evaluates the constant once.       *)
Streams == Programs

prog == Streams[stream]

UopIds(f) == {prog.fused[f][i] : i \in DOMAIN prog.fused[f]}

(* Fused uops of the stream; the remaining ids of Uops are not used.       *)
Stream == 1..prog.lams[Len(prog.lams)].end

NeedsPort(u) == UsesPort(prog, u)

(***************************************************************************)
(* RenamedOperand::get_ready_cycle: when a result of latency lat of uop u  *)
(* is available, None as long as that is not known. A load that reads an   *)
(* earlier store also waits for that store's address and data.             *)
(***************************************************************************)
ResultReady(u, lat) ==
  LET done == uop[u].disp + lat
      e    == prog.uops[u].entry
  IN  CASE uop[u].disp = None -> None
        [] uop[u].disp # None /\ ~(prog.uops[u].kind = "load" /\ e # None) -> done
        [] OTHER -> IF entry[e].addr = None \/ entry[e].data = None
                    THEN None
                    ELSE Max2(done, Max2(entry[e].addr, entry[e].data) + 4)

(* Mutant: a load does not wait for the store it reads.                    *)
InputReadyAtDispatch(u, i) ==
  LET o == prog.uops[u].inputs[i]
  IN  IF uop[o.uop].disp = None THEN None ELSE uop[o.uop].disp + o.lat

InputReady(u, i) == ResultReady(prog.uops[u].inputs[i].uop, prog.uops[u].inputs[i].lat)

StorageTypeOK ==
  /\ stream \in DOMAIN Streams
  /\ clock \in Nat
  /\ uop \in [Uops -> [port : Ports \cup {None}, ready : OptNat, disp : OptNat, exec : OptNat]]
  /\ fused \in [Uops -> [issued : OptNat, retired : OptNat, idx : OptNat]]
  /\ entry \in [Uops -> [addr : OptNat, data : OptNat]]

StorageInit ==
  /\ stream \in DOMAIN Streams
  /\ clock = 0
  /\ uop = [u \in Uops |-> [port |-> None, ready |-> None, disp |-> None, exec |-> None]]
  /\ fused = [f \in Uops |-> [issued |-> None, retired |-> None, idx |-> None]]
  /\ entry = [u \in Uops |-> [addr |-> None, data |-> None]]
=============================================================================
