------------------------------ MODULE Delivery ------------------------------
(***************************************************************************)
(* What the front end promises the renamer: a queue of laminated uops in   *)
(* program order, none lost and none twice, in which a stack               *)
(* synchronisation stands only in front of the instruction it is for.      *)
(***************************************************************************)
EXTENDS CacheBlocks

VARIABLES idq, expected

IssueWidth == arch.issueWidth

FirstUopFrom(x) ==
  IF FusedWithPrev(x) THEN Uop(Following(x), 1) ELSE Uop(x, 1)

NextUop(u) ==
  LET x == [rnd |-> u.rnd, i |-> u.i]
  IN IF u.k < UopCount(x) THEN Uop(x, u.k + 1) ELSE FirstUopFrom(Following(x))

Real(queue) == SelectSeq(queue, LAMBDA u: ~IsSync(u))

(* The uop behind those of a queue, the first of which is u.               *)
Behind(queue, u) == IF Real(queue) = <<>> THEN u ELSE NextUop(Last(Real(queue)))

InProgramOrder ==
  LET real == Real(idq)
  IN \A j \in DOMAIN real :
       real[j] = IF j = 1 THEN expected ELSE NextUop(real[j - 1])

SyncsInPlace ==
  \A j \in DOMAIN idq :
    IsSync(idq[j]) => j < Len(idq) /\ idq[j + 1] = [idq[j] EXCEPT !.k = 1]

Ordered == InProgramOrder /\ SyncsInPlace

Init == expected = FirstUopFrom([rnd |-> 0, i |-> 1]) /\ Ordered

(* Some uops are taken from the front, others are put in behind.           *)
Next ==
  /\ \E n \in 0..Min({IssueWidth, Len(idq)}) :
       /\ IsPrefix(SubSeq(idq, n + 1, Len(idq)), idq')
       /\ expected' = Behind(SubSeq(idq, 1, n), expected)
  /\ Ordered' /\ UNCHANGED <<arch, code>>

Spec == Init /\ [][Next]_<<arch, code, idq, expected>>
=============================================================================
