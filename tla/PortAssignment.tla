---------------------------- MODULE PortAssignment ----------------------------
(***************************************************************************)
(* The rules by which the scheduler gives an issued uop one of its         *)
(* possible ports (Scheduler::add_new_uops and the select_port functions). *)
(* In module Scheduler the port is any possible one; here it is the one    *)
(* the rules name, and of the rest of the scheduler only the number of     *)
(* uops that wait for each port is kept.  Ports are numbers.               *)
(***************************************************************************)
EXTENDS Integers, Sequences, FiniteSets, SequencesExt, FiniteSetsExt, Functions

CONSTANT Cores   \* what is explored: records with the fields below

\* What is issued in a cycle is a sequence of uops.
ASSUME CoresAssumption ==
  \A c \in Cores : \A uops \in c.groups : uops \in Seq([slot : Nat, ports : Seq(Nat) \ {<<>>}])

VARIABLES
  core,        \* fixed in a behaviour:
               \*   style: "simple" for simple_port_assignment, else by the number of ports: "six", "eight", "ten"
               \*   ports, rsWidth, and a bound on the uops at a port, backlog
               \*   groups: what may be issued in a cycle: sequences of uops [slot, ports], ports in ascending order
               \*   dispatches: "all" if every port serves a waiting uop in each cycle; "any" if some of them do
  portUsage,   \* uops assigned to a port that were not dispatched before the previous cycle
  usageBefore, \* portUsage at the start of the previous cycle
  next,        \* the port of a pair that is next
  inPrevCycle, \* the ports that dispatched in the previous cycle
  drift        \* history: how many more uops of a pair went to its first port than to its second
portVars == <<core, portUsage, usageBefore, next, inPrevCycle, drift>>

Style == core.style
Ports == core.ports

\* pairs that are served in turn, whatever their usage
Pairs == IF Style = "ten" THEN {<<2, 3>>, <<4, 9>>, <<7, 8>>} ELSE IF Style = "simple" THEN {} ELSE {<<2, 3>>}

\* how much more than the least used port another one may be used and still be given a uop
Slack == IF Style = "ten" THEN 5 ELSE 3
UsageOld == IF Style = "ten" THEN usageBefore ELSE portUsage

\* of equally used ports the one with the larger number, on the oldest cores the smaller one
Less(p, q) ==
  LET u == UsageOld IN u[p] < u[q] \/ (u[p] = u[q] /\ IF Style = "six" THEN p < q ELSE p > q)
ByUsage(S) == SetToSortSeq(S, Less)

\* how many earlier uops of the group had the same ports
EarlierAlike(uops, i) == Cardinality({j \in 1..i - 1 : uops[j].ports = uops[i].ports})

\* Mutant: the alternation starts over with each uop of a cycle.
InTurnForgetting(ports, n) == next[ports]
InTurn(ports, n) == IF n % 2 = 0 THEN next[ports] ELSE CHOOSE p \in ToSet(ports) : p # next[ports]

\* 10 ports: round robin among the ports with little use, two slots apart
TenPorts(slot, S, n) ==
  LET all == ByUsage(S)
      sorted == SelectSeq(all, LAMBDA p : UsageOld[p] < UsageOld[all[1]] + Slack) IN
  IF slot = 4 THEN sorted[1]
  ELSE IF slot = 3 /\ n = 0 /\ Len(sorted) > 1 THEN sorted[2]
  ELSE sorted[(n % Len(sorted)) + 1]
\* 8 ports: the least used one in even slots, the second in odd ones
EightPorts(slot, S) ==
  LET sorted == ByUsage(S) IN
  IF slot % 2 = 0 \/ Len(sorted) = 1 THEN sorted[1]
  ELSE IF UsageOld[sorted[2]] >= UsageOld[sorted[1]] + Slack THEN sorted[1] ELSE sorted[2]
\* Mutant: the difference of the usages is not looked at.
SixPortsNoBound(slot, S) ==
  LET sorted == ByUsage(S) least == sorted[1] IN
  IF S = {0, 1, 5}
  THEN (CASE least = 0 -> <<0, 5, 1, 0>> [] least = 1 -> <<1, 5, 0, 1>> [] OTHER -> <<5, 1, 0, 5>>)[Min({slot, 3}) + 1]
  ELSE IF slot % 2 = 0 THEN least
  ELSE Last(sorted)
\* 6 ports: a table for the ALU ports, else the least and the most used one by turns
SixPorts(slot, S) ==
  LET sorted == ByUsage(S) least == sorted[1] IN
  IF UsageOld[Last(sorted)] >= UsageOld[least] + Slack THEN least
  ELSE IF S = {0, 1, 5}
  THEN (CASE least = 0 -> <<0, 5, 1, 0>> [] least = 1 -> <<1, 5, 0, 1>> [] OTHER -> <<5, 1, 0, 5>>)[Min({slot, 3}) + 1]
  ELSE IF slot % 2 = 0 THEN least
  ELSE Last(sorted)

PortOf(uops, i) ==
  LET ports == uops[i].ports  S == ToSet(ports)  slot == uops[i].slot  n == EarlierAlike(uops, i) IN
  CASE Len(ports) = 1 \/ Style = "simple" -> ports[1]
    [] ports \in Pairs -> InTurn(ports, n)
    [] OTHER -> CASE Style = "ten" -> TenPorts(slot, S, n) [] Style = "eight" -> EightPorts(slot, S) [] OTHER -> SixPorts(slot, S)

-----------------------------------------------------------------------------
PortInit ==
  /\ core \in Cores
  /\ portUsage = [p \in Ports |-> 0]
  /\ usageBefore = portUsage
  /\ next = [pair \in Pairs |-> pair[1]]
  /\ inPrevCycle = {}
  /\ drift = [pair \in Pairs |-> 0]

\* the uops that wait at a port
Waiting(p) == portUsage[p] - (IF p \in inPrevCycle THEN 1 ELSE 0)
MayDispatch == LET S == {p \in Ports : Waiting(p) > 0} IN IF core.dispatches = "all" THEN {S} ELSE SUBSET S

\* One cycle: the group is assigned, the usage of what was dispatched a cycle ago is taken back, some ports dispatch.
PortCycle(uops, dispatched) ==
  LET ports == [i \in DOMAIN uops |-> PortOf(uops, i)]
      given(pair, p) == Cardinality({i \in DOMAIN uops : uops[i].ports = pair /\ ports[i] = p}) IN
  /\ Len(uops) + MapThenSumSet(Waiting, Ports) <= core.rsWidth
  /\ UNCHANGED core
  /\ portUsage' = [p \in Ports |-> Waiting(p) + Cardinality({i \in DOMAIN ports : ports[i] = p})]
  /\ usageBefore' = portUsage
  /\ next' = [pair \in Pairs |-> InTurn(pair, Cardinality({i \in DOMAIN uops : uops[i].ports = pair}))]
  /\ inPrevCycle' = dispatched
  /\ drift' = [pair \in Pairs |-> drift[pair] + given(pair, pair[1]) - given(pair, pair[2])]
PortNext == \E uops \in core.groups : \E dispatched \in MayDispatch : PortCycle(uops, dispatched)
PortSpec == PortInit /\ [][PortNext]_portVars

-----------------------------------------------------------------------------
(* What the rules are for: no port becomes the bottleneck of uops others   *)
(* could execute.                                                          *)

(* Uops that may use either port of a pair go to them in turn, over all    *)
(* cycles and however many come in one.                                    *)
TurnsKept == \A pair \in DOMAIN drift : drift[pair] \in {0, 1}

(* While no cycle issues more uops for any set of ports than it has ports  *)
(* and every port dispatches what waits, the rules -- which look at the    *)
(* usage of an earlier cycle, the same for all uops of a group -- let no   *)
(* port's queue grow beyond a bound: nothing piles up at one port while    *)
(* others idle.                                                            *)
BacklogBounded == core.dispatches = "all" => \A p \in Ports : portUsage[p] <= core.backlog
=============================================================================
