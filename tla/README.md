# uiCA: a TLA+ model of the simulator and what surrounds it

uiCA predicts how many cycles a basic block of x86 code takes per iteration. The Rust workspace
under `src/rust` simulates the pipeline of an Intel core cycle by cycle and computes the
throughput from the cycles in which the uops of successive iterations retired. It is a port of
a Python program (`src/uiCA.py`), which its comments name as the reference.

The simulation is one sequential loop, so nothing in it races in the usual sense. What makes it
hard to test is what it simulates. Uops move through a dozen lists, each filtered and extended
while others are walked, and what a uop does is decided from cycle stamps written earlier by
other uops. Its mistakes (a uop left in a list nobody looks at again, a readiness computed from
a stale stamp, a counter that drifts) do not crash: they end in a slightly wrong throughput, or
in a silent stop at the safety cap.

Around the simulation stand pure computations that are just as hard to test, because their results are
numbers nobody knows beforehand: from the instruction data to uops, from the uops to analytical bounds,
from the retired rounds to a throughput. Several of them exist twice, and the two have to agree. The web
application is the one part that waits for others.

## Inventory

Paths are relative to `src/rust/uica-core/src/` unless they start with `src/`.

| Component | State | Operations | What makes it correct |
|---|---|---|---|
| Uop storage (`sim/uop_storage.rs`, `sim/types.rs`) | arenas of uops, fused uops, laminated uops, store buffer entries; cycle stamps | getters; `get_ready_cycle` of an operand | a stamp is written once; stamps of a uop are ordered |
| Reorder buffer (`sim/reorder_buffer.rs`) | queue of fused uops, retire queue | `is_full`, `cycle` = `retire_uops` + `add_uops` | in-order retirement, capacity |
| Scheduler (`sim/scheduler.rs`) | ready queues, divider queue, `uops_ready_in_cycle`, `non_ready_uops`, `pending_uops`, `dependent_uops`, fences, blocked resources, port usage, alternators | `cycle` with its nine loops, `select_port_*` | data flow respected, no uop lost, one uop per port, fences, exact usage counters, no port starved while others idle |
| Renamer (`sim/renamer.rs`) | register map, pending commits, abstract values, alias lists, slots in use, store buffer keys, `last_reg_merge_issued` | `cycle`: issue loop, `rename_uops`, move elimination | program order, the merges of an instruction in front of it and once (not so if it is synchronised, see Findings), serializing instructions drain; each input names its youngest older writer; slots held exactly as long as needed |
| Front-end cycle (`sim/frontend.rs`) | idq, source switches, ports to issue | `cycle` calls renamer, reorder buffer, scheduler and one source, in that order | stages see each other's results in the intended order |
| Cache blocks (`sim/cache_blocks.rs`, part of `sim/types.rs`) | generator position | generators, splitting, macro fusion | every instance in one block, in order |
| Predecoder, decoders (`sim/predecoder.rs`, `sim/decoder.rs`) | 16-byte blocks, block begun, partial instruction, stall, instruction queue | one `cycle` each | queue within its width, nothing lost at block borders |
| DSB, microcode sequencer (`sim/dsb.rs`, `sim/ms.rs`) | queued DSB blocks, queued microcode, stalls | `Dsb::cycle`, `get_dsb_blocks`, `can_be_in_dsb`; `MicrocodeSequencer::cycle`, `add_lam_idxs` | at most the width a cycle, microcode right behind its instruction |
| Front-end delivery (`sim/frontend.rs`) | source, cacheable addresses, idq, stack offset | constructor, filling of the idq, switches of source, `add_new_cache_block`, `add_stack_sync_uop` | nothing dropped, duplicated or reordered when sources switch; never stuck |
| Run loop (`engine.rs`) | `uops_for_round`, clock | `run_simulation_for_cycles`, `drain_retire_queue` | stops, and only when the rounds it counts are complete |
| Throughput (`engine.rs`) | none | window of relevant rounds, throughput, rows and bottlenecks of the result | the window consists of complete rounds; no block faster than it retires; totals agree |
| Analytical model (`analytical.rs`, part of `engine.rs`) | none | port, decoder, predecode, LSD and dependency limits | sound, and exact where they claim to be; equal to what the simulated components do |
| Instruction facts (parts of `sim/frontend.rs`, `engine.rs`, `sim/types.rs`) | none | metadata of an instruction from its record, twice; macro fusion, twice | both agree; decoders and slots fit |
| Uop expansion (`sim/uop_expand.rs`) | none | operands to registers, ports to uops, uops to fused and laminated uops | every input read, every output written, latencies as recorded, every uop in a slot |
| Matching (`matcher.rs`, `instruction_data.rs`; `x64.rs`, `micro_arch.rs`) | none | choice of a record | the best of those that fit |
| UIPack data (`src/rust/uica-data`) | a read-only byte view | encode, validate, read, look up | what is read is what was written; damage is refused |
| Generation (`src/rust/uica-data-gen`), reports (`report.rs`), traces (`sim/trace.rs`) | none | formatting | - |
| Decoders and entry points (`uica-decode-ir`, `uica-xed*`, `uica-model`, `uica-cli`, `uica-wasm`, `uica-emscripten`) | none | one call each | - |
| Web application (`src/web`) | page, UIPack cache, assembler worker, timers | `runAnalyze`, `fetchCachedUipack`, worker messages, links, copying | results belong to the request; a stale cache entry is replaced; every analysis ends |
| Python program, `src/verification`, scripts, tests | - | comparison of the two programs | - |

The components interact by direct calls and through the shared storage. `FrontEnd::cycle` asks
the renamer for the uops to issue, unless the reorder buffer or the scheduler is full. It stamps
them, passes them to `ReorderBuffer::cycle` (retire first, then add) and to `Scheduler::cycle`,
and finally lets one front-end source fill the idq. The scheduler writes `executed`; the reorder
buffer reads it in a later cycle. The run loop drains the retire queue after every cycle and
decides whether to go on. Before the first cycle each decoded instruction is matched to a record, its uops and
metadata are derived, and the limits computed; after the last one the throughput and the report are
computed from the log of retired uops.

The behaviours that are hard: uops finish in any order and wait for each other; readiness is
decided cycles before dispatch; loads can wait for stores; fences hold back accesses that become
ready in either order; queues and buffers run full, with checks made before the size of what is
added is known; four sources of uops take turns while their queues hold parts of different
rounds; the front end stalls at any time; the simulation stops in the middle of the
stream. In the computations: lists that are matched by position after something was removed from them,
missing rows and their defaults, remainders and roundings, the same fact derived in two places. In the web
application: everything the user, other tabs and the server may do between two awaits. `PROJECT.json` lists the hazards with the lines where they bite.

## Modules

| Module | Models |
|---|---|
| `UopStorage` | the arenas and stamps, the instruction stream as a constant, `get_ready_cycle` |
| `ReorderBuffer` | `sim/reorder_buffer.rs` |
| `Scheduler` | `sim/scheduler.rs`: one action per iteration of each loop of `Scheduler::cycle` |
| `Pipeline` | the renamer's issue loop, `FrontEnd::cycle` and the run loop; composes the two above |
| `OutOfOrderCore` | abstract specification of the back end |
| `PipelineProperties` | the properties of the back end, and the refinement mapping to `OutOfOrderCore` |
| `CacheBlocks` | instruction instances, addresses, macro fusion, laminated uops, cache blocks |
| `PreDecoder` | `PreDecoder::cycle` and `Decoder::cycle`, as functions on their state |
| `Dsb` | `Dsb::cycle`, what the DSB can hold, the microcode sequencer |
| `FrontEnd` | the constructor and the filling of the idq in `FrontEnd::cycle`; composes the two above |
| `Delivery` | abstract specification of the front end |
| `FrontEndProperties` | its properties, and the refinement of `Delivery` |
| `PortAssignment` | the `select_port_*` rules with the usage they look at |
| `Renamer` | `rename_uops`, register merges, move elimination, pending commits, abstract values, store buffer keys |
| `Throughput` | the run loop's stop test and all that is computed from the retired rounds |
| `InstrFacts` | `populate_instr_instance_metadata` and its counterpart for the limits, both macro fusions |
| `Operands` | `mapped_record_operands` and the operand maps of `emit_lam_uops` |
| `UopPlans` | `compute_uop_plans_inner`, `compute_non_mem_uop_plans` |
| `UopGroups` | the grouping loops of `emit_lam_uops` |
| `Limits` | port, decoder, DSB, LSD, predecode and issue limits, high-byte adjustments, bottlenecks |
| `PredecodeRate` | `PreDecoder` on its own, against the limit of `Limits` |
| `LatencyGraph` | latency graph, strongly connected components, maximum cycle ratio |
| `LatencyRate` | a loop executed as early as its graph allows, against the limit |
| `Matcher` | `match_record` and `matcher.rs` |
| `UiPack` | `encode_uipack`, `UiPackView`, `UiPackViewIndex` |
| `WebApp` | `main.js`, `pure-wasm.js`, `uipack-cache.js`, `nasm-assemble.js`, `deep-link.mjs` |
| `...Properties` | the properties of the module of that name; `PortAssignment`, `InstrFacts`, `Operands`, `UopPlans`, `UopGroups`, `Limits`, `PredecodeRate`, `LatencyRate`, `Matcher` and `UiPack`, `Throughput` hold their own |
| `MCExecution`, `MCIssue`, `MCFrontEnd`, `MCRenaming`, `MCAnalysis`, `MCExpansion`, `MCData`, `MCWeb` | instances for TLC |
| `MCStreams` | building blocks for the instruction streams of the runs |
| `Inductions` | induction over numbers, folds, sums and measures, for the modules below |
| `OrderProofs`, `PlaceProofs`, `ExecutionProofs` | proofs about `Pipeline`; each builds on the one before |
| `FrontEndProofs` | proofs about `FrontEnd` |
| `PortProofs` | proofs about `PortAssignment` |
| `ThroughputProofs` | proofs about `Throughput` |
| `WebProofs` | proofs about `WebApp` |

### State

`phase` says which part of `FrontEnd::cycle` (or of the run loop) runs next:
`issue`, `rob`, `ready`, `add`, `dispatch`, `pending`, `wake`, `nonReady`, `fences`, `fill`, `drain`, and `done`.
A loop copies the list it walks over into `work`, and every iteration is a step: what one
iteration writes is seen by the next, as in the code. Lists the code filters in place are
emptied when the loop starts and refilled by it. `uop`, `fused` and `entry` hold the stamps
(`None` = -1 is the absent value of an `Option`). The other variables carry the code's names or are
explained where they are declared.

`FrontEnd` is about one stage instead, so a step is a whole cycle (`Cycle`): the renamer takes
uops, and what the code then does in the branch of the current source is one disjunct: `Full`,
`SimpleFill`, `LSDFill`, `MSFill`, `MITEFill`, `DSBFill`. Each of the components it calls is a function from its
state at the start of the cycle to that at the end; `while` loops are folds, or the longest prefix that meets
the conditions under which the loop goes on (`GroupLength`, `TakeGroup`). A laminated uop is the pair of
an instruction instance and its place in the instruction; place 0 is the stack synchronisation.

The two halves meet at the idq. `Pipeline` takes for granted that laminated uops arrive in program
order, each once, any number of them a cycle; `Delivery` says so of the front end, and `FrontEnd` is shown
to implement it. `FrontEnd` in turn takes of the renamer only that it takes uops from the front.

The other modules are tied to these by what they hand over. `Pipeline` takes operands, ports and
store buffer entries as constants of the stream; `Renamer` computes them from programs, and its `ProducersExact`
is what `WellFormed` takes for granted. `Scheduler` takes any possible port; `PortAssignment` has the
rules. `UopPlans`, `Operands` and `UopGroups` are the three parts of the expansion, in that order: their results are
the laminated uops of `CacheBlocks` and the uops of `Renamer`. `Throughput` takes any sequence of retirements;
`Pipeline`'s `RelevantRoundsComplete` says which can happen. `PredecodeRate` extends `PreDecoder` and instantiates
`Limits`; it compares the simulated with the computed rate.

The modules of pure computations have little state: a block, a record or a table that grows step by step, so that
TLC reaches every one up to a bound, and the computation is a function of it. Loops that carry
something along are folds or actions: `Matcher` takes a step per filter, `UopGroups` one per group, `LatencyRate` one per round.

`Renamer`: a step (`Cycle`) is one call of `Renamer::cycle` with any number of laminated uops. `dict` is `rename_dict`, `pending`
the commits of the instruction in progress, `aliases` the multi-use lists, `moves` and `pressure` the eliminated
moves and the lists in use of the last cycles, `values` and `stores` the abstract values and the store buffer.

`PortAssignment`: a step is one cycle. `portUsage` is the counter, `usageBefore` its snapshot a cycle ago, `next` the
alternators, `inPrevCycle` the ports whose counters go down next; `drift` is a history variable.

`WebApp`: a step is what JavaScript runs between two awaits. `runs[t]` are the pending calls of `runAnalyze` with
the place they wait at (`phase`), and what they read before it. `ClickAnalyze` starts one; `CacheMatch`, `CacheDelete`,
`FetchUipack`, `CachePut`, `AssemblerAnswers` and `AssemblerTimesOut` end a wait. `Edit`, `Open`, `BootFails`, `ClickCopy`,
`CopySucceeds`, `CopyFails`, `FeedbackTimer` and `Deploy` are what else can happen meanwhile. Tabs share `cache` and `deployed`.

`UiPack`: a file is a sequence of four-byte cells; `Encode` lays the sections out, `Read...` follows the offsets, and
an action changes one cell or cuts the end off.

A run explores several machines, programs or parts at once. Which one is a variable that never changes (`prog`,
`arch`, `core`, `setup`, `part`), so that what the code has as parameters is chosen in the initial state. `MCRenaming`, `MCAnalysis`
and `MCExpansion` (with `MCData`) instantiate components that share no state, and keep the variables of all but one at rest.

### Abstractions

- **Instruction stream.** What decoding, expansion and renaming compute about a uop is constant:
  possible ports, inputs (the producing uop and the latency of the result), store buffer entry and
  address, throughput, divider cycles, fence kinds. `WellFormed` states what the renamer guarantees
  about them: operands and entries refer to older uops, an entry has one store-data uop, and a load that reads an
  entry has it before it (every address uop comes with its data uop, `compute_uop_plans_inner`). Uops are
  numbered in program order and each fused uop has consecutive ones (`NumberedInOrder`, `emit_lam_uops`); the ports of a
  configuration are distinct. Every uop the run can meet is in the (finite) stream, so an unrolled
  loop is its unrolled uops with a round each. Ids follow program order; `queueIdx` is the order the
  ready queues sort by, which differs for uops created late.
- **Port choice.** `Scheduler` assigns any of the possible ports. Its properties hold for every
  assignment, in particular the one the code makes (`PortAssignment`). There, of the rest of the scheduler only
  the number of uops that wait for each port is kept, and lists of ports are in ascending order.
- **Ready queues.** A queue is the set of its uops, since the code sorts it before it takes the
  smallest. The choice between the divider queue and the queue of port 0 reads element 0 of two vectors
  that need not be sorted at that moment. This element is kept in `front`.
- **Front-end delivery.** In `Pipeline`, `Deliver` appends 1..`DeliverWidth` next laminated uops, `Stall` none.
- **Merge uops** of an instruction are a prefix `start+1..mid` of its first laminated uop, which is its stack synchronisation (`sync`) if it
  has one. `MergesOf` looks them up as the code does, by the instruction and not by the laminated uop, so that they are due for the synchronisation and
  again for the laminated uop behind it. The properties of the back end exclude streams that have both (`MergesAssumption`): on these
  the code issues uops a second time, with other operands. What happens then is in `Renamer`, where the operands are computed (run `merges_twice`).
- **Instructions in the front end** are records of what it reads of them: size, position of the opcode,
  decoding shape, uops from the decoders and from microcode, DSB entries, fusion, use of RSP. `ProgramOK`
  states what `populate_instr_instance_metadata` guarantees.
- **Rounds** are numbered modulo `Rounds`, and the addresses of unrolled code modulo the bytes of that many
  rounds. Nothing in the code depends on a round's number, and addresses are compared within a round or a
  cache line; `FillsLines` makes cache lines the same in every lap. What the modulus could hide is the
  loss of exactly that many rounds at once.
- **Clock in the front end.** `predecoded` is replaced by the cycles left until the instruction may be
  decoded, as that is all it is compared for. `clock` is a parity that says time goes on.
- **Stack offset.** The range beyond which the engine synchronises is a constant (192 in the code).
- **Fast pointer chasing** is folded into the latency in `Pipeline`, and computed in `Renamer`.
- **Numbers.** Limits and throughputs are fractions; rounding is to hundredths as the code rounds, half to even.
- **Names.** Registers, mnemonics and iforms are model values or pairs and triples of what is compared of them.
  Strings of a record are abstracted to what is searched for in them.
- **Retirement** in `Throughput` is a pattern of up to three cycles, repeated; some patterns never reach the
  rounds asked for and end at the cap.
- **Records** in `Operands` are those whose operands are read or written; one that is neither (only the start of a
  latency) is left out.
- **Web page.** The wording of the status line, tabs, theme and the rendering of results are left out, and boot is one step.
  A pack is its architecture, version and whether it is damaged.

## Runs

The runs of the back end explore every order of deliveries and every port assignment; the one of the front end every
number of uops the renamer takes in a cycle, none included; `web` every interleaving. Each run has several instances, all explored at once. The
properties have their comments where they are defined; names in parentheses are the parts of a property that is a conjunction.

| Run | Instances | Shows |
|---|---|---|
| `execution` (`MCExecution`) | 5 uops: every pattern of dependencies of latency 1 and 3; a store and the load that reads it, with late address or data; pairs of stores on ports 4/9; 256-bit accesses; load, store and full fences, alone and in pairs, between early and late accesses; dividers, limited throughput and uops created late; a prefetch, which is a load without a result, behind a store of its address | `TypeOK`; stamps in order (`LifecycleOrdered`) and written once (`StampsWrittenOnce`); operands there at dispatch (`DataflowRespected`); exact port usage (`PortUsageExact`); every uop in exactly one list (`TrackedOnce`); paired accesses (`PairedAccesses`); fences (`FencesRespected` = `FencesHoldYounger`, `FencesInOrder`; `FenceWaitsForAccesses`); one uop at a time for a port and the divider (`UnitsExclusive` = `OneUopPerPort`, `DividerExclusive`); refinement of the abstract core (`ImplementsCore`); the run ends by retired rounds (`EnoughRoundsRetire`) |
| `issue` (`MCIssue`) | merges, serializing instructions, portless and eliminated uops, micro-fusion, laminated uops of several; reorder buffer of 3, scheduler of 4, decode queue of 3; stops before the stream ends | `RetireInOrder`, `SerializingDrains`, `ROBWithinCapacity`, `RelevantRoundsComplete`, `ImplementsCore` |
| `front` (`MCFrontEnd`) | eighteen loops on three machines (32-byte DSB blocks one and two at a time, 64-byte blocks; with LSD, unrolled or not, and without), unrolled code, and the same code with the ideal front end | `TypeOK`; the promise to the renamer (`DeliversInOrder`); both queues within their width (`QueuesWithinWidth` = `IDQWithinWidth`, `IQWithinWidth`); synchronisations exactly where stack changes are pending (`StackSynced`); the DSB entered only at the start of a round (`EntersDsbAtRoundStart`); never stuck (`RoundsKeepComing`) |
| `renaming` (`MCRenaming`) | six programs (exchanges, aliases, slots, pointers, addresses computed in several ways, stack synchronisations and high bytes, instructions that read and write memory) on three configurations, in issue groups of every size; groups of uops for the ports of three kinds of cores | an input waits for its youngest older writer, seen through eliminated moves and whatever the grouping (`ProducersExact`); a load is linked with the youngest store to its address and is fast only behind a pointer load (`StoresForwarded`); slots of move elimination held exactly as long as registers share (`SlotsExact`); no port's queue grows beyond a bound under a load that the ports together can bear (`BacklogBounded`); alternating ports alternate (`TurnsKept`) |
| `analysis` (`MCAnalysis`) | four blocks of one to four fused uops, every pattern of retirement of up to three cycles, three iteration and two cycle counts; blocks of up to four instructions, code of up to four of various lengths and prefixes, loops of up to three | the window has complete rounds, the throughput is their average and not faster than retirement (`WindowSound`); the report's totals agree with its bottlenecks (`ReportAgreesWithBottlenecks`); the loop ends (`Ends`); `LimitsExact`: port limits against every assignment, decoders against running them until they repeat, LSD, predecode counts, high bytes, rounding, bottlenecks; the analytical predecode limit is the simulated predecoder's rate (`RateIsPredecodeLimit`); the graph has the dependencies of an endless run, and the loop executed round after round runs at its limit (`DependenciesExact`) |
| `expansion` (`MCExpansion`, `MCData`) | twenty instructions in blocks of up to three; up to three implicit operands and any address; records of up to three operands with any latencies, port lists and memory accesses; up to six uops, any access pattern and slot count; packs of up to two records with one part other than usual, damaged in any cell or cut anywhere; tables of up to three records and eleven instructions | `InstructionsKnown` (`FactsSound`: simulator and limits know the same of an instruction; `OperandsExact`: operands become the decoder's registers); `UopsAsRecorded` (`PlansSound`: everything is read, written once and takes its latency; `GroupsSound`: uops share slots as recorded); `PackSound` (`RoundTrip`, `IndexExact`, `DamageRefused`, `DamageContained`); the record chosen is the best of those that fit (`BestFits`) |
| `web` (`MCWeb`) | two tabs and a deployment; a stale network and two; one page with every edit, link and copy | `PageSound` (`OneAnalysis`, `PackOfManifest`, `RequestMatchesPack`, `StaleCacheHarmless`, `CopyShownOnSuccess`, `CopiedIsTransient`, `LinksReproduce`); every analysis ends (`AnalysisEnds`) |
| `port0_order`, `front_tail`, `operand_order`, `merges_twice`, `pseudo_lost` | `MCExecution`, `MCFrontEnd`, `MCExpansion`, and `MCRenaming` with programs in which a synchronisation meets a register merge, or uops of its instruction in the same group | a violation each (`Port0OldestFirst`, `InProgramOrder`, `ResolvesThroughOrder`, `MergesNotReinjected`, `PseudoOperandsPersist`), see Findings |

### Bounds

| Run | Distinct states |
|---|---|
| `execution` | 278,484 |
| `issue` | 41,326 |
| `front` | 20,629 |
| `renaming` | 12,914 |
| `analysis` | 154,608 |
| `expansion` | 328,884 |
| `web` | 383,766 |

**Back end.** `NumUops` is 5. That is enough for a producer, two competing
consumers and a bystander, for two fences with an access between and one behind, or for two stores
and a third user of the port. Issue and retire width are 2, so that a group can be partial and
retirement can stop inside it. `RBWidth` and `RSWidth` are at least the stream in `execution`
and smaller than it in `issue`, where being full is the point. `MaxStalls` (0 in `execution`, 1 in `issue`) bounds the cycles
in which the front end delivers nothing although there is room; partial deliveries are unbounded.
`SafetyCap` = 40 replaces the 10000 cycles of the code; no stream needs as many. `MinIterations` and
`MinCycles` are the arguments of `run_simulation_for_cycles`: 2 rounds, or 1 in `issue` so that the
loop stops with uops in flight. The last fused uop of a stream is round 2, the one before it
round 1, the rest round 0. Latencies are 1, 3, 4, 5 and 8, on both sides of the two-cycle
minimum in `process_pending_uops` and of the one-cycle adjustment in `get_ready_for_dispatch_cycle`.

**Front end.** The machines keep the parameters of Haswell, Skylake and Ice Lake that decide how
sources work (widths, block sizes, delays, stalls) and have shorter queues, so that they run full within
one or two rounds: an instruction queue of 10 (two groups of 5) and a decode queue of 10 or 12 (two
deliveries and a rest). `Rounds` is 6, more rounds than are ever generated at once, or 8 for unrolled code, whose
rounds then fill cache lines exactly. The loops were chosen for
the places where sources change hands. A row of four complex instructions needs more than the three DSB
blocks of 32 bytes and so ends the cached part wherever it stands; before and behind it stand microcoded,
fused, prefixed and wide instructions and branches that do not end the round. No state constraint is used:
the state space is finite because everything counted is a queue with a bound of its own.

**Renamer and ports.** Two GPR and one SIMD slot, fewer than the moves of the programs; `pipelineLength` of 2 or 3 cycles, which the programs
outlast. The groups of the ports are those that no set of ports is too small for; otherwise a backlog shows nothing.
`backlog` is the bound `BacklogBounded` claims; it lies above the differences from which on the rules react (3 and 5), and any group can follow any other.

**Computations.** `MCAnalysis` feeds code five times (the rate is that between the last two) and executes loops for 24 rounds
(the property looks at the last six: the slowest cycle carries over three iterations, and the transient is shorter than 18 rounds on all of these loops).
Its simulations ask for 1, 4 and 26 iterations, below the window's five rounds, at its edge and beyond the ten after which the code aligns its end; `MoreCycles` = 100 is the safety cap.
`expansion` has operands of every type and both memory directions, and more and fewer uops than slots; it covers each optional part of a record, present and absent.

**Web.** One or two deployments, as many opened pages as there are tabs or one more, and enough copies (3) for a timer to run while
another copy is under way. `Setups` distributes these over three instances.

`CHECK_DEADLOCK FALSE` stands where behaviours end by design: computations that have reached their bound, the run loop that
has stopped in `analysis`, a page nobody touches any more.

### Fairness

`Spec` of the back end has `WF_vars(Next)` and nothing more: the program is one thread in a loop without I/O, and as long
as the loop is not done it takes its next step. `EnoughRoundsRetire` does not depend on the front end's good will:
`MaxStalls` bounds the cycles it may waste. The property is stronger than termination, which the safety cap
alone would give. `MCAnalysis` has the same fairness for the same loop.

The front end runs once per cycle of that loop (`WF_clock(Tick)`), and the renamer takes a uop again
and again while there are any (`WF_expected` of taking at least one): that is what `EnoughRoundsRetire` shows of
the back end. Nothing is assumed of the front end itself.

In the browser each tab's `Proceeds` is weakly fair: the cache's answers, a fetch that succeeds or fails,
and the assembler's timer, all of which the browser guarantees. Nothing is assumed of the worker, the clipboard, the user or the operator:
`AnalysisEnds` holds with a worker that never answers, because the timer is set.

### Findings

`port0_order`: port 0 serves its own queue or the divider queue, whichever has the older head. The code
compares `[0]` of two vectors in insertion order. The comment on the queues calls them min-heaps,
and the Python program compares heap heads. A younger uop is dispatched although an older one is ready
and the divider is free.

`front_tail`: the switch from the DSB to the decoders is considered only in a cycle whose last DSB uop is its
instruction's last uop. If the cached part of a loop ends in a microcoded instruction, its last uops come from
the microcode sequencer, and the switch is never made. The first uops of the next round are delivered before the
uncached rest of this one, although the reorder buffer is said to track uops in program order. After some
rounds the DSB queue is empty and the other one full, and nothing is delivered any more. The Python program
has the same condition. The loops of `front` end their cached part in other ways.

`operand_order`: the address registers are removed from the decoder's inputs before implicit operands are mapped to
what is left by position. The decoder lists each register once. An address register that is an implicit operand too
disappears, and the operand behind it is taken for it, although the comment says that names resolve through the order of all operands.
`OperandsExact` is about operands whose registers are not in the address.

`merges_twice`: the renamer remembers the uop at the head of the idq for which it issued register merges, "to avoid
reinjecting next cycle", but looks the merges up by the instruction. If the instruction is synchronised, its synchronisation is at the head first: it is
the first uop of the instruction, so the merges are issued for it, and again for the first real uop. The second time they are the
same fused uops (in the Python program new ones are made): their stamps are overwritten, their operands renamed again and appended, they
enter the reorder buffer and the log a second time and are counted in `port_usage` again. It takes a high byte that is renamed separately, an
instruction that reads the whole register, and a stack change before it, as in `push rbx; add ah, 1; add rax, [rsp+8]`. The properties and theorems
about the back end leave such streams out.

`pseudo_lost`: what the uops of an instruction hand to each other is kept "across rename cycles" until the last one. A synchronisation is the last (and first) uop of its instruction as well. If it
is renamed in one group with some of the real uops, but not all, `group_finished` stays set and what these left is dropped: a later uop of
the instruction gets a new operand that is ready from the start, and the dependency is lost. Python forgets at the synchronisation, before
the first real uop has left anything. `push; add [rsp+8], rax` is enough if the group ends behind the load. `ProducersExact` is checked on programs whose synchronised instructions have one
laminated uop.

Observations that are not findings, since nothing in the repository promises otherwise, or since the Python program does the same:

- *Scheduler.* Popping an executed fence forgets the accesses recorded since (`FenceWaitsForAccesses` is about
  the oldest fence). A divider uop that may also use another port takes port 0 all the same.
- *Front end.* The stack offset is only synchronised when it is too large, never when it is too negative (`frontend.rs:1240`).
  A synchronisation or merge uop carries the immediate of its instruction, so that the abstract value of RSP changes twice; a synchronisation
  of an instruction that is no MOV, ADD or SUB gives RSP a new one, and loads no longer find the stores before it (Python too).
- *Throughput.* With fewer than five rounds the absolute cycle of the last one is reported (Python too).
- *Limits.* A memory dependency over two iterations counts as over one (Python too). The predecode limit of a loop that is not aligned to 16 bytes counts more
  than an iteration's blocks; the property is about aligned loops. Fused pairs are found across the start of a line by the limits only (`engine.rs:1640`, `types.rs:515`).
  Ports of fused branches are constants. An eliminable record without `same_reg` ports has a uop in the simulator and none in the limits.
- *Expansion.* Store-address uops beyond the store-data ones are dropped; without outputs the register inputs are dropped; the last latency of an address operand counts (all as Python).
  The second `_SR` overlay replaces every field, where Python replaces three (`instructions.py:169`). Python's adjustments for ZMM registers and port 1, and
  the JCC erratum by address (`instructions.py:261, 312`), have no counterpart.
- *Packs.* Two reserved header bytes are protected by the checksum alone, and the index by iform is built but not used.
- *Web page.* A copied link is of the current selection, not of the result shown. A full cache (quota) fails an analysis that has its pack already.

## Proofs

`tlapm` checks eight modules to the last leaf. The assumptions are those the modules state about
their constants, and TLC evaluates all of them in the runs. For the back end: widths are natural numbers (`WidthsAssumption`, `SchedulerAssumption`,
`PipelineAssumption`), `NumUops` is positive, port 0 exists and ports are distinct (`PortsAssumption`), the streams are `WellFormed`, and
no batch the renamer issues is larger than the issue width (`IssueWidthAssumption`), and no instruction with register merges is
synchronised (`MergesAssumption`). The last is not true of all programs. Without it the code issues merge uops twice (`merges_twice`), and none of `RetirementOrder`, `PlaceCorrect`, `PortUsage`, `StampsFinal`,
`Tracked` and `Refinement` holds. It enters through one lemma, `MergesProperties`: the merges issued are those of the head of the idq alone. For the web application: both text
areas have an example, the queries of URLs are of the kinds that occur (`QueriesAssumption`), and `None` is neither a result nor an error (`NoneAssumption`).
For the front end: the DSB delivers no more than the IDQ holds and no fewer than the decoders, and the IDQ is at least as wide as a line of the DSB
(`WidthsAssumption`, true of every table of `micro_arch.rs`); and what is decoded in a cycle is no wider than the DSB (`DecodersAssumption`). The second is not
true of every conceivable record: `uop_expand.rs` counts the simple decoders an unfused instruction leaves as `5 - mite`, so that on a machine with four decoders an instruction of
four uops may be followed by one more, and `idq.len() + dsb_width > idq_width`, by which the front end decides whether there is room, would reserve one place too few.
No instruction alone takes the stack offset beyond the range of the stack engine (`StackAssumption`): the change is the length of a memory operand
or 8 (`uica_xed_shim.c`), the range 192. Without it an instruction that reads RSP could be synchronised with nothing pending.

The theorems hold for every stream that meets these assumptions, every width, any number of uops and any choice of ports, or for any number of tabs,
architectures and texts; the one about ports holds for whatever groups of uops are issued. Every inductive invariant was first checked by TLC on the instances of the runs.

**Types and order** (`OrderProofs`)

- `TypeCorrect`: `Spec => []TypeOK`. `TypeOK` is inductive by itself. One lemma per
  action, on top of lemmas about what the helpers return (`ResultReadyTyped`, `LamTyped`, ...).
- `OrderCorrect`: `Spec => []OrderInv`.
  - `LengthInv`: the fill level. `ROBWithinCapacity` alone is not inductive: the group being issued is not
    in the buffer yet. It is strengthened by the margin: a non-empty group has at most `IssueWidth` uops, and while
    it exists the buffer has that much room, since `ROBFull` was false when the first uop joined.
  - `SequenceInv`: `log`, `retireQueue`, `rob`, the group and the uops in the idq are consecutive runs
    of fused uops. Every operation moves one border: `IssueLam` extends the group, `CycleReorderBuffer`
    moves the first n of `rob` to the retire queue and the group into `rob`, and so on. Where the next run
    starts depends on `lastMerge`, because the merges of the head of the idq may be out already.
  - `StampInv`: the retirement stamps follow from the borders: everything in `log` retired before the
    current cycle, everything in `retireQueue` in it, numbered from 0.
  - `RoundInv`: `rnd` is the round of the last uop in `log`.
- From it: `ROBNeverOverflows` (`[]ROBWithinCapacity`; it needs `LengthInv` only), `RetirementOrder`
  (`[]RetireInOrder`) and `CountedRoundsRetired` (`[]RelevantRoundsComplete`, with the monotonicity of rounds).

**Where a uop is** (`PlaceProofs`)

The properties about the scheduler speak of the time between cycles, while uops move in the middle of one. `PlaceInv` says of
every phase which lists hold a uop, in terms of its stamps:

- `StageInv`, `IssuedInv`: stamps are written in the order issued, added, ready, dispatched, executed.
- `AddInv`: `add_new_uops` has added the uops of the fused uops it has visited, less those still in `work`.
- `WaitInv`: an added uop without a ready cycle is at exactly one place: in the list of a producer that has not executed, among
  the non-ready, or among those a loop still has to look at. That lists are filtered in place while they are walked is why the places of a loop
  (`work`, the list refilled) have to be told apart.
- `ReadyInv`: a ready uop that is not dispatched is in the list of its cycle before that cycle's `add_to_ready_queue`, and in the queue of its port afterwards.
- `PendInv`: a dispatched uop that has not executed is pending, once.
- `RsInv`, `UsageInv`: `rs` is what was added and not dispatched, and each counter is the number of uops in `rs` or dispatched in the previous
  cycle. In the middle of the cycle both the previous and the current dispatches are charged (`Charged`).

`PlaceCorrect` is `Spec => []PlaceInv`. From it: `PortUsage` (`[]PortUsageExact`), `Tracked` (`[]TrackedOnce`) and `StampsFinal`
(`StampsWrittenOnce`: each list is walked for uops whose stamp is not written yet, which `PlaceInv` says of its elements).

**What a uop waits for** (`ExecutionProofs`)

- `Lifecycle` (`[]LifecycleOrdered`), from `LifeInv`: the bounds between successive stamps, and `exec` never ahead of the clock.
- `Dataflow` (`[]DataflowRespected`), from `EntryInv` (an address or data is known once its uop has executed, and when) and `DataInv` (a ready
  uop's operands were known when it became ready, for a cycle in which they are available). Readiness is decided once and never looked at again, so
  it is the stamp, not the state at dispatch, that the invariant must tie to the producers.
- `Refinement` (`ImplementsCore`): every step of the pipeline is a step of `OutOfOrderCore` or a stutter. The step that finishes a uop needs that none of its
  producers is still to finish; this holds because the pending lists are in the order of dispatch (`SortInv`, `WorkingInv`, theorem `PendingOrder`).
- `Serializing` (`[]SerializingDrains`), from `SerialInv` (a serializing instruction is in the group only while the reorder buffer is empty) and `DrainInv`.

**Fences and units** (`ExecutionProofs`)

- `Fences` (`[]FencesRespected`) and `FenceWaits` (`FenceWaitsForAccesses`), from `FenceInv`: uops are added in program order (`AgeInv`); the list of a kind holds its
  fences in that order until they have executed (`FenceListInv`); what is behind a fence became ready after it had executed (`BehindInv`); accesses before
  the first fence that are ready and have not executed are in `since` (`SinceInv`). The last is false for later fences: see the observations.
- `Units` (`[]UnitsExclusive`) and `Paired` (`[]PairedAccesses`), from `UnitInv`: a port that was served in this cycle is not served again (`PortsInv`), the divider
  stays blocked for as long as it is used (`DivInv`), port 4 rests (`RestInv`), and what was chosen in this cycle for ports 4 and 9, or 2 and 3, fits together (`PairInv`).
  The counters go down at the end of the scheduler's cycle and the clock later, hence `Ahead`.
- Both have hypotheses that the streams have to meet, since the code does not see to it. `DividerOnPort0`: `dispatch_uops` takes a uop
  of the divider queue for port 0 and never looks at its ports (`compute_non_mem_uop_plans` gives the divider cycles to the base uop of the instruction, on whatever ports the record names). `LoadsOnTwoPorts`: the
  rule against two wide loads compares ports 2 and 3 only; the architectures with slow 256-bit accesses (`micro_arch.rs:598`) have no other load port. The streams of `execution` meet
  both (`UnitsAssumption`).

**Ports in turn** (`PortProofs`)

- `Turns` (`[]TurnsKept`), from `TurnInv`: which port of a pair is next says how many more uops the first one has had. Within a cycle a uop goes by the number
  of earlier uops with its ports in the group, and the alternator moves by their total. `Ranks` shows, without induction, that these numbers
  run from zero without a gap (counting the smaller elements is an injection into a set of the same size), and `Halves` that as many of them are even as
  odd, but for one. The assumption (`CoresAssumption`) is that what a cycle issues is a sequence of uops
  with a non-empty list of ports.

**The measured throughput** (`ThroughputProofs`, `Inductions`)

- `LogSound`: what is known of a recorded cycle (`IInv`): the log has an entry for each cycle that ended, and what the entries say of retired rounds and used
  ports agrees with the retirements so far, none of which goes back.
- `WindowTheorem` (`[]WindowSound`): the rounds the report looks at are complete and of the steady state for every block, pattern and number of iterations
  (`BlockAssumption`, `OptionAssumption`), and the average it computes is the number of cycles between retirements.
- `ReportTheorem` (`[]ReportAgreesWithBottlenecks`): the totals by which a bottleneck is named and those the report prints are two sums over the same entries in another
  order, by cycles and by instructions.
- The library's induction theorems take an operator as a parameter, which no installed prover can instantiate. `Inductions` states induction for sets
  instead: a set that holds 0 and with k also k + 1 holds every k (`UpTo`), from the well-foundedness of strict inclusion. On it rest what a fold computes (`FoldIsRun`: a run of values, one
  for each prefix) and what sums over sets satisfy (`SumOfParts`).

**The front end** (`FrontEndProofs`)

A cycle of the front end is a chain of folds over what the decoders, the DSB or the microcode sequencer hand over. `FoldIsRun` turns each fold into a run of values, and
an induction along the run (`RunsTo`) shows what the cycle preserves.

- `FrontTyped` (`[]TypeOK`), from `FrontInv`: the types of every queue and every source, with `IQWithinWidth`, since the number of instructions predecoded in a cycle is
  what the queue has room for.
- `QueuesKeepWidth` (`[]QueuesWithinWidth`), from `QueueInv`. That the IDQ never overflows is not a guard of any delivery: it is the sum of `HasRoom`, checked before
  a source is asked, and the most that a source delivers. For the decoders this is a property of the group (`GroupFits`: a complex
  instruction is the first of its group, and behind it come as many as its record leaves decoders for). Stack synchronisation
  uops come on top of what a source delivers and are not counted (`RealsDelivered`), in the code as in the property. The loop stream detector holds only loops that fit
  (`SourceInv`), since every unrolled round has the uops of the first (`AlikeRounds`).
- `DsbEnteredAtRoundStart` (`[]EntersDsbAtRoundStart`), from `EntersInv`: the flag that permits the switch is set behind the last uop of a round
  (`EntersBehindLast`), found by following what was put last through the folds (`LastPut`, `LastFlattened`, `RoundEnds`).
- `StackKeptInSync` (`[]StackSynced`), from `StackInv`. The property compares two places of the queue, the code keeps one number: the invariant says that the offsets along the
  queue end at `rspOffset` (`Traced`), that they decide where a synchronisation stands, and that none stands last, so that what comes next cannot be
  parted from it. `PutTraced` is the step for one uop, `LeftTraced` for the renamer, which may take a synchronisation and leave what it stands for. No source hands over a
  synchronisation itself (`Laminated`), the microcode sequencer over cycles included; the LSD, which does not call `add_stack_sync_uop`, only holds code that leaves RSP
  alone. The offset between the two places is then a sum over them (`SyncedExactly`, with `SumIsChosen`).

**The web application** (`WebProofs`)

- `Pages` (`[]PageSound`), from `WebInv`, by one lemma per await and per event. `OneAnalysis` needs that the button is disabled while a call is pending.
  `PackOfManifest` needs what every wait remembers (`RunInv`): no pack before the network or the cache has answered, and afterwards the one the manifest names, which is also why
  the engine never reports a wrong architecture. `StaleCacheHarmless` needs that no tab is newer than the server (`ManifestInv`). `CopyShownOnSuccess`
  needs that `test-pure-wasm.html` never shows the button (`ButtonInv`). The model numbers timers, and that a number is left for each is a counting argument about clicks (`TimersInv`).
- `LinksReproduce` is a lemma about `BuildDeepLink` and `ApplyDeepLink` (`LinksExact`); the invariant only says that links were built from selections.

**Only model-checked.** Liveness properties, since liveness under fairness is out of the proof system's reach: `EnoughRoundsRetire`, `RoundsKeepComing`,
`AnalysisEnds`, `Ends`. What recursive definitions and graph searches compute (`LimitsExact`, `DependenciesExact`, `RateIsPredecodeLimit`, `PackSound`, `BestFits`): the
modules declare RECURSIVE operators, which the proof system does not accept. Plans and operands of instructions (`PlansSound`, `OperandsExact`, `FactsSound`) could be reached by the
inductions of `Inductions`, but each is a property of nested folds of its own. Of the front end `DeliversInOrder`, which holds for the loops of its run and not
for all (`front_tail`); of the renamer `ProducersExact`, `StoresForwarded` and `SlotsExact`, whose steps are sequences of folds too.
`BacklogBounded` holds for the groups of its run and not for all. That the port chosen by usage is one of the possible ones rests on the existence of a sorted
sequence, an induction too.

## Not modelled, and the plan

Not to be modelled: reports and traces (formatting), data generation (offline I/O), entry points and the calls into the decoder library, the Python program and
the scripts that compare both.

Left out of what is modelled: the latencies of a few special instructions (gathers), the parsing of names, the tables of
`micro_arch.rs` (parameters here), latencies of missing records, memory mapping of packs and the manifest file, the
rendering of results. `Pipeline`, `Renamer` and `FrontEnd` are checked one by one and not composed into one state space.

Planned, in this order:

1. Proofs: `GroupsSound` (`OrderKept` and `SlotsExact` need no induction over data beyond sequences that grow at one end), and the types of the renamer.
2. `Pipeline` with the operands of `Renamer` instead of constant ones, and with the rules of `PortAssignment`.
3. `FrontEnd` in place of `Deliver` in `Pipeline`, with queues of two or three.
