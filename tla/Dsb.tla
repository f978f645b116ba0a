-------------------------------- MODULE Dsb --------------------------------
(***************************************************************************)
(* The decoded stream buffer (sim/dsb.rs), which delivers uops decoded     *)
(* before, and the microcode sequencer (sim/ms.rs), which delivers the     *)
(* rest of a microcoded instruction.                                       *)
(***************************************************************************)
EXTENDS CacheBlocks

DSBWidth     == arch.dsbWidth
DSBBlockSize == arch.dsbBlockSize
DSBMSStall   == arch.dsbMSStall
Both32ByteBlocksMustBeCacheable == arch.both32ByteBlocksMustBeCacheable

ASSUME DsbAssumption ==
  \A s \in Setups :
    /\ s.arch.dsbWidth \in Nat \ {0} /\ s.arch.dsbMSStall \in Nat
    /\ s.arch.dsbBlockSize \in {32, 64}
    /\ s.arch.both32ByteBlocksMustBeCacheable \in BOOLEAN

VARIABLES
  dsb,  (* struct Dsb: the queued blocks; delay_in_prev_cycle              *)
  ms    (* struct MicrocodeSequencer                                       *)

BlockEntries == 6   (* A DSB block holds six entries.                      *)

(* An entry names its uop (0: none) and whether the instruction's          *)
(* microcode follows it.                                                   *)
Entries == [slot : 0..BlockEntries - 1, inst : Instances, k : 0..4,
            ms : BOOLEAN, extra : BOOLEAN]

DsbTypeOK ==
  /\ dsb.blockQueue \in Seq(Seq(Entries)) /\ dsb.delayed \in BOOLEAN
  /\ ms.queue \in Seq(Uops) /\ {ms.stalled, ms.postStall} \subseteq Nat

-----------------------------------------------------------------------------
(* Microcode sequencer.                                                    *)

MSWidth == 4

MSBusy == ms.stalled > 0 \/ ms.queue # <<>>

(* MicrocodeSequencer::cycle: its state, and the uops it delivers.         *)
MSCycle(m) ==
  LET n    == IF m.stalled > 0 THEN 0 ELSE Min({MSWidth, Len(m.queue)})
      rest == SubSeq(m.queue, n + 1, Len(m.queue))
  IN [ms   |-> [m EXCEPT !.queue = rest,
                  !.stalled = IF @ > 0 THEN @ - 1
                              ELSE IF rest = <<>> THEN m.postStall ELSE @],
      uops |-> SubSeq(m.queue, 1, n)]

(* add_lam_idxs                                                            *)
AddToMS(m, uops, from) ==
  [queue     |-> m.queue \o uops,
   stalled   |-> IF from = "MITE" THEN 1 ELSE DSBMSStall,
   postStall |-> IF from = "MITE" THEN 1 ELSE 0]

-----------------------------------------------------------------------------
(* What the DSB can hold.                                                  *)

(* The entries of an instruction, the first of them at the given slot.     *)
EntriesOf(x, slot) ==
  LET c     == code[x.i]
      entry == [slot |-> slot, inst |-> x, k |-> 0, ms |-> c.ms > 0, extra |-> FALSE]
  IN IF c.mite = 0 THEN <<entry>>
     ELSE [k \in 1..c.mite |->
             [entry EXCEPT !.slot = @ + k - 1, !.k = k,
                           !.ms = @ /\ k = c.mite,
                           !.extra = c.extra /\ k = c.mite]]

(* One instruction of get_dsb_blocks: it starts a block if it is           *)
(* microcoded or does not fit into the one begun.                          *)
PutDecoded(acc, x) ==
  LET c      == code[x.i]
      needs  == Max({1, c.mite}) + (IF c.extra THEN 1 ELSE 0)
      fresh  == c.ms > 0 \/ needs > acc.room
      blocks == IF fresh THEN Append(acc.blocks, <<>>) ELSE acc.blocks
      room   == (IF fresh THEN BlockEntries ELSE acc.room) - needs
  IN [blocks |-> [blocks EXCEPT ![Len(blocks)] = @ \o EntriesOf(x, Len(@))],
      room   |-> IF c.ms > 0 THEN 0 ELSE room]

(* The branch of a pair is skipped.                                        *)
PutInDsbBlock(acc, x) == IF FusedWithPrev(x) THEN acc ELSE PutDecoded(acc, x)

(* get_dsb_blocks                                                          *)
DsbBlocks(block) ==
  FoldLeft(PutInDsbBlock, [blocks |-> <<>>, room |-> 0], block).blocks

(* lcp_macro_fusion_overflow, of a 32-byte block.                          *)
LcpMacroFusionOverflow(block) ==
  LET inFirst(x) == Address(x) % 32 < 16
      first      == SelectSeq(block, inFirst)
      second     == SelectSeq(block, LAMBDA x: ~inFirst(x))
      moves      == /\ first # <<>> /\ second # <<>>
                    /\ (Address(Last(first)) % 16) + code[Last(first).i].opcode >= 16
      early      == IF moves THEN Front(first) ELSE first
      late       == IF moves THEN <<Last(first)>> \o second ELSE second
      slow(x)    == code[x.i].lcp /\ code[x.i].fusible
  IN early # <<>> /\ slow(Last(early)) /\ Len(SelectSeq(late, slow)) >= 2

(* can_be_in_dsb                                                           *)
CanBeInDsb(block) ==
  /\ Len(DsbBlocks(block)) <= (IF DSBBlockSize = 32 THEN 3 ELSE 6)
  /\ ~code[Last(block).i].jcc
  /\ \A b \in ToSet(Blocks(block, 32)) : ~LcpMacroFusionOverflow(b)

FirstRoundBlocks == ToSet(Blocks(Round(0), DSBBlockSize))

(* all_first_round_blocks_cacheable                                        *)
AllCacheable == \A block \in FirstRoundBlocks : CanBeInDsb(block)

(* find_cacheable_addresses_for_first_round: the blocks up to the first    *)
(* one that cannot be cached; on some machines both halves of a cache line *)
(* are cached or none.                                                     *)
CacheableAddresses ==
  LET start(block) == Address(block[1])
      decides(other, block) ==
        \/ start(other) <= start(block)
        \/ /\ DSBBlockSize = 32 /\ Both32ByteBlocksMustBeCacheable
           /\ start(other) \div 64 = start(block) \div 64
      cached == {block \in FirstRoundBlocks :
                   \A other \in FirstRoundBlocks :
                     decides(other, block) => CanBeInDsb(other)}
  IN UNION {{Address(x) : x \in ToSet(block)} : block \in cached}

-----------------------------------------------------------------------------
(* Dsb::cycle: the entries delivered in a cycle, one by one.               *)

(* Reading stops: nothing is left to read, no slot is left to put it in,   *)
(* or a second block cannot be read behind the one that ran out.           *)
DsbStops(s) ==
  \/ s.slots = 0 \/ s.queue = <<>>
  \/ s.ranOut /\ \/ s.second
                 \/ Last(s.queue[1]).ms
                 \/ /\ s.out # <<>> /\ ~LastDecoded(Last(s.out).inst)
                    /\ LET x == Last(s.out).inst
                       IN Address(x) + Size(x) # Address(s.queue[1][1].inst)
  \/ s.queue[1][1].extra /\ s.slots < 2

(* The slots left when a block ran out, and the next is queued: a machine  *)
(* with six slots reads two blocks in one cycle with restrictions.         *)
SlotsAfterBlock(s, entry, slots, next, delivered) ==
  LET same == Address(next) \div DSBBlockSize
                = Address(entry.inst) \div DSBBlockSize
      last == LastDecoded(entry.inst)
  IN CASE DSBWidth # 6 -> slots
       [] DSBWidth = 6 /\ same ->
            IF DSBBlockSize = 32 /\ last /\ ~s.wasDelayed THEN 0 ELSE slots
       [] DSBWidth = 6 /\ ~same /\ s.started ->
            CASE delivered \in 1..2 -> 4
              [] delivered \in 3..4 -> 2
              [] delivered = 5      -> 1
              [] OTHER              -> slots
       [] DSBWidth = 6 /\ ~same /\ ~s.started /\ last ->
            IF delivered = 1 \/ (delivered = 2 /\ entry.slot >= 4)
            THEN 4 ELSE Min({2, slots})
       [] OTHER -> slots

DsbStep(s) ==
  LET entry  == s.queue[1][1]
      rest   == Tail(s.queue[1])
      queue  == IF rest = <<>> THEN Tail(s.queue) ELSE [s.queue EXCEPT ![1] = rest]
      out    == IF entry.k = 0 THEN s.out ELSE Append(s.out, entry)
      slots  == IF entry.ms \/ entry.extra THEN 0
                ELSE IF entry.k = 0 THEN s.slots ELSE s.slots - 1
      paired == rest = <<>> /\ slots > 0 /\ queue # <<>>
  IN [s EXCEPT !.queue = queue, !.out = out,
               !.slots = IF paired
                         THEN SlotsAfterBlock(s, entry, slots, queue[1][1].inst, Len(out))
                         ELSE slots,
               !.second = @ \/ s.ranOut,
               !.ranOut = rest = <<>>,
               !.delayed = @ \/ entry.extra,
               !.ms = IF entry.ms THEN AddToMS(@, MSUops(entry.inst), "DSB") ELSE @]

(* Two blocks at most, so at most twice BlockEntries steps.                *)
DsbRead(buffer) ==
  LET start == [queue |-> buffer.blockQueue, out |-> <<>>, slots |-> DSBWidth,
                second |-> FALSE, ranOut |-> FALSE, ms |-> ms,
                delayed |-> buffer.blockQueue = <<>> /\ buffer.delayed,
                wasDelayed |-> buffer.delayed,
                started |-> buffer.blockQueue # <<>> /\ buffer.blockQueue[1][1].slot = 0]
  IN FoldLeft(LAMBDA s, n: IF DsbStops(s) THEN s ELSE DsbStep(s), start,
              [n \in 1..2 * BlockEntries |-> n])
=============================================================================
