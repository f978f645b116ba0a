------------------------------ MODULE FrontEnd ------------------------------
(***************************************************************************)
(* The delivery of uops (FrontEnd::cycle in sim/frontend.rs): every cycle  *)
(* the renamer takes uops from the instruction decode queue, and the queue *)
(* is filled from the legacy decoders (MITE), the decoded stream buffer    *)
(* (DSB), the microcode sequencer (MS) or the loop stream detector (LSD).  *)
(* Of the renamer and what follows it only the taking is modelled here:    *)
(* up to IssueWidth uops a cycle, from the front.                          *)
(***************************************************************************)
EXTENDS PreDecoder, Dsb

CONSTANT
  MaxRSPOffset     (* Offset beyond which the stack engine synchronises.   *)

IDQWidth     == arch.idqWidth
IssueWidth   == arch.issueWidth
LSDEnabled   == arch.lsdEnabled
LSDUnrolling == arch.lsdUnrolling  (* Uops of a round -> rounds unrolled.  *)

ASSUME FrontEndAssumption ==
  /\ MaxRSPOffset \in Nat
  /\ \A s \in Setups :
       /\ s.arch.idqWidth \in Nat /\ s.arch.issueWidth \in Nat \ {0}
       /\ s.arch.lsdEnabled \in BOOLEAN
       /\ DOMAIN s.arch.lsdUnrolling \subseteq Nat
       /\ \A n \in DOMAIN s.arch.lsdUnrolling : s.arch.lsdUnrolling[n] \in Nat \ {0}

VARIABLES
  addressesInDsb,  (* addresses_in_dsb                                     *)
  source,          (* uop_source; "none" for the simple front end          *)
  nextInst,        (* The instance the generator of cache blocks is at.    *)
  idq,             (* Laminated uops waiting for the renamer.              *)
  rspOffset,       (* Stack offset the front end has not synchronised.     *)
  clock,           (* The clock, of which only its running on matters.     *)
  expected         (* Auxiliary: the uop of the program the renamer takes  *)
                   (* next, if all is in order.                            *)

queueVars == <<predecoder, iq, dsb, ms>>
vars == <<arch, code, addressesInDsb, source, nextInst, idq, rspOffset, clock, expected,
          queueVars>>

(* Every variable holds a value of its type; in particular no stack offset *)
(* beyond its range is kept unsynchronised.                                *)
TypeOK ==
  /\ SetUp
  /\ PreDecoderTypeOK /\ DsbTypeOK
  /\ addressesInDsb \subseteq Nat
  /\ source \in {"none", "MITE", "DSB", "LSD"}
  /\ nextInst \in Instances /\ idq \in Seq(Uops)
  /\ rspOffset \in Int /\ rspOffset <= MaxRSPOffset
  /\ expected \in Uops /\ clock \in 0..1

-----------------------------------------------------------------------------
(* The program order of uops.                                              *)

(* The first uop at instance x or behind it. Of two neighbours at most one *)
(* is the branch of a pair.                                                *)
FirstUopFrom(x) ==
  IF FusedWithPrev(x) THEN Uop(Following(x), 1) ELSE Uop(x, 1)

NextUop(u) ==
  LET x == [rnd |-> u.rnd, i |-> u.i]
  IN IF u.k < UopCount(x) THEN Uop(x, u.k + 1) ELSE FirstUopFrom(Following(x))

(* The uop behind those of a queue, the first of which is u.               *)
Behind(queue, u) ==
  LET real == {j \in DOMAIN queue : ~IsSync(queue[j])}
  IN IF real = {} THEN u ELSE NextUop(queue[Max(real)])

-----------------------------------------------------------------------------
(* FrontEnd::new_with_instruction_data                                     *)

RoundUops == Len(UopsOf(Round(0)))

UseLSD ==
  /\ AllCacheable /\ LSDEnabled /\ RoundUops <= IDQWidth
  /\ \A i \in DOMAIN code : code[i].lsd

LSDUnrollCount ==
  IF RoundUops \in DOMAIN LSDUnrolling THEN LSDUnrolling[RoundUops] ELSE 1

(* The generator moves on by the instances it yielded.                     *)
Advanced(x, insts) == Later(x, Len(insts))

(* add_new_cache_block, for all the cache blocks the generator yielded:    *)
(* each block goes to the DSB queue if it is cached there, to the          *)
(* predecoder otherwise, with an empty 16-byte block behind a branch that  *)
(* ends in the next one.                                                   *)
DsbBlocksAdded(insts, cached) ==
  LET blocks == Blocks(insts, DSBBlockSize)
  IN FlattenSeq([j \in DOMAIN blocks |->
       IF Address(blocks[j][1]) \in cached THEN DsbBlocks(blocks[j]) ELSE <<>>])

B16Blocks(block) ==
  LET b16 == Blocks(block, 16)
      spills(x) == code[x.i].branch /\ (Address(x) % 16) + Size(x) > 16
  IN FlattenSeq([j \in DOMAIN b16 |->
       IF spills(Last(b16[j])) THEN <<b16[j], <<>>>> ELSE <<b16[j]>>])

B16BlocksAdded(insts, cached) ==
  LET blocks == Blocks(insts, DSBBlockSize)
  IN FlattenSeq([j \in DOMAIN blocks |->
       IF Address(blocks[j][1]) \in cached THEN <<>> ELSE B16Blocks(blocks[j])])

(* The queues as the front end fills them.                                 *)
Queues == [dsbQueue |-> dsb.blockQueue, b16Queue |-> predecoder.b16BlockQueue,
           at |-> nextInst]

AddBlocks(q, cached) ==
  LET insts == Generated(q.at)
  IN [dsbQueue |-> q.dsbQueue \o DsbBlocksAdded(insts, cached),
      b16Queue |-> q.b16Queue \o B16BlocksAdded(insts, cached),
      at       |-> Advanced(q.at, insts)]

(* The rounds an LSD iteration puts into the decode queue.                 *)
LSDUops(r) ==
  FlattenSeq([j \in 1..LSDUnrollCount |-> UopsOf(Round((r + j - 1) % Rounds))])

Origin == [rnd |-> 0, i |-> 1]

InitQueues(added) ==
  /\ dsb = [blockQueue |-> added.dsbQueue, delayed |-> FALSE]
  /\ predecoder = [NoPreDecoder EXCEPT !.b16BlockQueue = added.b16Queue]
  /\ nextInst = added.at

Init ==
  LET empty  == [dsbQueue |-> <<>>, b16Queue |-> <<>>, at |-> Origin]
  IN
  /\ SetUp
  /\ iq = <<>> /\ rspOffset = 0 /\ clock = 0 /\ expected = FirstUopFrom(Origin)
  /\ ms = [queue |-> <<>>, stalled |-> 0, postStall |-> 0]
  /\ \/ /\ Linear
        /\ source = IF SimpleFrontEnd THEN "none" ELSE "MITE"
        /\ addressesInDsb = {} /\ idq = <<>> /\ InitQueues(empty)
     \/ /\ ~Linear /\ UseLSD
        /\ source = "LSD" /\ addressesInDsb = {}
        /\ idq = LSDUops(0)
        /\ InitQueues([empty EXCEPT !.at.rnd = LSDUnrollCount % Rounds])
     \/ /\ ~Linear /\ ~UseLSD
        /\ addressesInDsb = CacheableAddresses
        /\ source = IF AlignmentOffset \in addressesInDsb THEN "DSB" ELSE "MITE"
        /\ idq = <<>> /\ InitQueues(AddBlocks(empty, addressesInDsb))

-----------------------------------------------------------------------------
(* add_stack_sync_uop: a synchronisation goes before an instruction that   *)
(* reads RSP while implicit changes are pending, and before one whose      *)
(* implicit change takes the offset beyond its range.                      *)

ReadsPending(offset, u) == offset # 0 /\ code[u.i].rspUse

(* Mutant: what was synchronised remains pending.                          *)
ChangedOffsetUnsynced(offset, u) == offset + code[u.i].rspDelta

ChangedOffset(offset, u) ==
  (IF ReadsPending(offset, u) THEN 0 ELSE offset) + code[u.i].rspDelta

PutUop(acc, u) ==
  LET changed == ChangedOffset(acc.offset, u)
      exceeds == changed > MaxRSPOffset
      synced  == u.k = 1 /\ (ReadsPending(acc.offset, u) \/ exceeds)
  IN [idq    |-> acc.idq \o IF synced THEN <<[u EXCEPT !.k = 0], u>> ELSE <<u>>,
      offset |-> IF u.k # 1 THEN acc.offset
                 ELSE IF exceeds \/ code[u.i].rspDef THEN 0 ELSE changed]

PutUops(queue, uops) ==
  FoldLeft(PutUop, [idq |-> queue, offset |-> rspOffset], uops)

(* The queue, less what the renamer took, is extended by the new uops.     *)
Deliver(queue, uops) ==
  LET put == PutUops(queue, uops) IN idq' = put.idq /\ rspOffset' = put.offset

-----------------------------------------------------------------------------
(* FrontEnd::cycle, filling the decode queue.                              *)

(* Cache blocks are added while both queues run low; a round adds a block  *)
(* to one of them at least.                                                *)
Refilled ==
  FoldLeft(LAMBDA q, n: IF Len(q.dsbQueue) < 2 /\ Len(q.b16Queue) < 4
                        THEN AddBlocks(q, addressesInDsb) ELSE q,
           Queues, <<1, 2, 3, 4>>)

RefilledPreDecoder == [predecoder EXCEPT !.b16BlockQueue = Refilled.b16Queue]
RefilledDsb        == [dsb EXCEPT !.blockQueue = Refilled.dsbQueue]

(* Mutant: room for one uop will do.                                       *)
HasRoomForOne(queue) == Len(queue) + 1 <= IDQWidth

(* There is room for a full group.                                         *)
HasRoom(queue) == Len(queue) + DSBWidth <= IDQWidth

Full(queue) ==
  /\ ~HasRoom(queue)
  /\ idq' = queue /\ iq' = Aged(iq)
  /\ UNCHANGED <<predecoder, dsb, ms, source, nextInst, rspOffset>>

(* The simple front end adds whole cache lines.                            *)
SimpleFill(queue) ==
  LET add(f)  ==
        LET line == Generated(f.at)
            put  == FoldLeft(PutUop, [idq |-> f.idq, offset |-> f.offset], UopsOf(line))
        IN [idq |-> put.idq, offset |-> put.offset, at |-> Advanced(f.at, line)]
      fill == FoldLeft(LAMBDA f, n: IF Len(f.idq) < IssueWidth THEN add(f) ELSE f,
                       [idq |-> queue, offset |-> rspOffset, at |-> nextInst],
                       [n \in 1..2 * IssueWidth |-> n])
  IN /\ source = "none"
     /\ idq' = fill.idq /\ rspOffset' = fill.offset /\ nextInst' = fill.at
     /\ UNCHANGED <<queueVars, source>>

(* The loop stream detector refills an empty queue, with no stack          *)
(* synchronisation.                                                        *)
LSDFill(queue) ==
  /\ source = "LSD"
  /\ IF queue = <<>>
     THEN /\ idq' = LSDUops(nextInst.rnd)
          /\ nextInst' = [nextInst EXCEPT !.rnd = (@ + LSDUnrollCount) % Rounds]
     ELSE idq' = queue /\ UNCHANGED nextInst
  /\ UNCHANGED <<queueVars, source, rspOffset>>

(* The microcode sequencer keeps the others waiting.                       *)
MSFill(queue) ==
  /\ source \in {"MITE", "DSB"} /\ MSBusy
  /\ ms' = MSCycle(ms).ms
  /\ Deliver(queue, MSCycle(ms).uops)
  /\ predecoder' = RefilledPreDecoder /\ dsb' = RefilledDsb
  /\ nextInst' = Refilled.at /\ iq' = Aged(iq)
  /\ UNCHANGED source

(* Mutants: behind any branch; never behind a fused one.                   *)
EntersDsbBehindBranch(decoded) ==
  /\ ~Unroll /\ decoded # <<>>
  /\ code[Last(decoded).i].branch \/ FusedWithNext(Last(decoded))
  /\ AlignmentOffset \in addressesInDsb

(* Behind the branch that ends a round, if rounds begin in the DSB, the    *)
(* source changes.                                                         *)
EntersDsb(decoded) ==
  /\ ~Unroll /\ decoded # <<>>
  /\ LastDecoded(Last(decoded))
  /\ code[Last(decoded).i].branch \/ FusedWithNext(Last(decoded))
  /\ AlignmentOffset \in addressesInDsb

(* Instructions are predecoded and decoded.                                *)
MITEFill(queue) ==
  LET pre     == PreDecode(RefilledPreDecoder, Aged(iq))
      decoded == DecodedGroup(pre.iq)
  IN /\ source = "MITE" /\ ~MSBusy
     /\ predecoder' = pre.predecoder /\ iq' = Decoded(pre.iq)
     /\ dsb' = RefilledDsb /\ nextInst' = Refilled.at
     /\ Deliver(queue, FlattenSeq([j \in DOMAIN decoded |-> MiteUops(decoded[j])]))
     /\ ms' = IF decoded # <<>> /\ code[Last(decoded).i].ms > 0
              THEN AddToMS(ms, MSUops(Last(decoded)), "MITE") ELSE ms
     /\ source' = IF EntersDsb(decoded) THEN "DSB" ELSE source

(* Mutant: whichever uop comes last.                                       *)
LeavesDsbEarly(out) ==
  LET x    == Last(out).inst
      next == IF LastDecoded(x) THEN AlignmentOffset ELSE Address(x) + Size(x)
  IN out # <<>> /\ next \notin addressesInDsb

(* Entries of the DSB are delivered. Where the code goes on at an address  *)
(* that is not cached the source changes, if the last uop delivered is its *)
(* instruction's last.                                                     *)
LeavesDsb(out) ==
  LET x    == Last(out).inst
      next == IF LastDecoded(x) THEN AlignmentOffset ELSE Address(x) + Size(x)
  IN /\ out # <<>>
     /\ Last(out).k = UopCount(x)
     /\ next \notin addressesInDsb

DSBFill(queue) ==
  LET read == DsbRead(RefilledDsb)
  IN /\ source = "DSB" /\ ~MSBusy
     /\ dsb' = [blockQueue |-> read.queue, delayed |-> read.delayed]
     /\ ms' = read.ms
     /\ Deliver(queue, [j \in DOMAIN read.out |-> Uop(read.out[j].inst, read.out[j].k)])
     /\ source' = IF LeavesDsb(read.out) THEN "MITE" ELSE source
     /\ predecoder' = RefilledPreDecoder /\ nextInst' = Refilled.at /\ iq' = Aged(iq)

Tick == clock' = (clock + 1) % 2

(* The renamer takes n uops.                                               *)
Take(n) ==
  n <= Len(idq) /\ expected' = Behind(SubSeq(idq, 1, n), expected)

Cycle(n) ==
  LET queue == SubSeq(idq, n + 1, Len(idq))
  IN /\ Tick /\ Take(n)
     /\ \/ Full(queue)
        \/ /\ HasRoom(queue)
           /\ \/ SimpleFill(queue) \/ LSDFill(queue)
              \/ MSFill(queue) \/ MITEFill(queue) \/ DSBFill(queue)
     /\ UNCHANGED <<arch, code, addressesInDsb>>

Next == \E n \in 0..IssueWidth : Cycle(n)

(* The run loop calls the cycle again and again; the renamer does not      *)
(* forever leave uops in the queue.                                        *)
Fairness == WF_clock(Tick) /\ WF_expected(\E n \in 1..IssueWidth : Take(n))

Spec == Init /\ [][Next]_vars /\ Fairness
=============================================================================
