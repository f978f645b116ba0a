------------------------------ MODULE Inductions ------------------------------
(***************************************************************************)
(* Induction, stated for sets of numbers and of subsets instead of for     *)
(* operators, and what it shows about folds, filters and concatenations,   *)
(* on which the models are built.  A fold over a sequence is a function of *)
(* prefixes: a run of values, one for each prefix, each found from the one *)
(* before.                                                                 *)
(***************************************************************************)
EXTENDS Integers, Sequences, FiniteSetsExt, SequenceTheorems, FiniteSetTheorems, FunctionTheorems,
        WellFoundedInduction, TLAPS

(* A set of natural numbers has a least element: the intervals 0..k are    *)
(* well founded by strict inclusion.                                       *)
LEMMA NatMinimum ==
  ASSUME NEW T \in SUBSET Nat, T # {}
  PROVE  \E x \in T : \A y \in T : x <= y
<1> DEFINE U == {0..k : k \in T}
<1>1. U # {} /\ U \subseteq FiniteSubsetsOf(Nat)
  <2>1. \A k \in T : 0..k \in SUBSET Nat /\ IsFiniteSet(0..k)
    BY FS_Interval
  <2> QED
    BY <2>1 DEF FiniteSubsetsOf
<1>2. PICK s \in U : \A t \in U : <<t, s>> \notin StrictSubsetOrdering(Nat)
  <2> HIDE DEF U
  <2> QED
    BY <1>1, FS_StrictSubsetOrderingWellFounded, WFMin
<1>3. PICK x \in T : s = 0..x
  OBVIOUS
<1>4. ASSUME NEW y \in T, y < x PROVE FALSE
  <2>1. x \in 0..x /\ x \notin 0..y
    BY <1>4
  <2>2. 0..y \subseteq s /\ 0..y # s
    BY <1>3, <1>4, <2>1
  <2>3. <<0..y, s>> \in StrictSubsetOrdering(Nat)
    BY <1>3, <2>2 DEF StrictSubsetOrdering
  <2> QED
    BY <1>2, <2>3
<1> QED
  BY <1>4

(* Induction over an interval.                                             *)
LEMMA UpTo ==
  ASSUME NEW n \in Nat, NEW S, 0 \in S,
         \A k \in 0..n : k < n /\ k \in S => k + 1 \in S
  PROVE  \A k \in 0..n : k \in S
<1> DEFINE T == {k \in 0..n : k \notin S}
<1>1. ASSUME T # {} PROVE FALSE
  <2>1. PICK x \in T : \A y \in T : x <= y
    <3>1. T \in SUBSET Nat
      OBVIOUS
    <3> HIDE DEF T
    <3> QED
      BY <1>1, <3>1, NatMinimum
  <2>2. x \in 0..n /\ x # 0 /\ x \notin S
    BY <2>1
  <2>3. x - 1 \in 0..n /\ x - 1 < n /\ (x - 1) + 1 = x
    BY <2>2
  <2>4. x - 1 \in S
    BY <2>1, <2>3
  <2> QED
    BY <2>2, <2>3, <2>4
<1> QED
  BY <1>1

(* Induction over the natural numbers.                                     *)
LEMMA Naturally ==
  ASSUME NEW S, 0 \in S, \A k \in Nat : k \in S => k + 1 \in S
  PROVE  \A k \in Nat : k \in S
<1> TAKE n \in Nat
<1>1. \A k \in 0..n : k < n /\ k \in S => k + 1 \in S
  OBVIOUS
<1>2. \A k \in 0..n : k \in S
  BY <1>1, UpTo
<1> QED
  BY <1>2

(* Induction over the subsets of a finite set.                             *)
LEMMA Subsets ==
  ASSUME NEW S, IsFiniteSet(S), NEW T, {} \in T,
         \A A \in SUBSET S : \A x \in S : A \in T /\ x \notin A => A \cup {x} \in T
  PROVE  \A A \in SUBSET S : A \in T
<1> DEFINE Bad == {A \in SUBSET S : A \notin T}
<1>1. ASSUME Bad # {} PROVE FALSE
  <2>1. \A A \in SUBSET S : IsFiniteSet(A)
    BY FS_Subset
  <2>2. Bad \subseteq FiniteSubsetsOf(S)
    BY <2>1 DEF FiniteSubsetsOf
  <2>3. PICK A \in Bad : \A B \in Bad : <<B, A>> \notin StrictSubsetOrdering(S)
    <3> HIDE DEF Bad
    <3> QED
      BY <1>1, <2>2, FS_StrictSubsetOrderingWellFounded, WFMin
  <2>4. PICK x \in A : TRUE
    BY <2>3
  <2>5. A \ {x} \in SUBSET S /\ x \in S /\ x \notin A \ {x} /\ (A \ {x}) \cup {x} = A
    BY <2>3, <2>4
  <2>6. A \ {x} \notin Bad
    <3>1. <<A \ {x}, A>> \in StrictSubsetOrdering(S)
      BY <2>3, <2>4, <2>5 DEF StrictSubsetOrdering
    <3> QED
      BY <2>3, <3>1
  <2> QED
    BY <2>3, <2>5, <2>6
<1> QED
  BY <1>1

(* The greatest number of a set.                                           *)
LEMMA MaxIs ==
  ASSUME NEW n \in Nat, NEW S \in SUBSET (0..n), S # {}
  PROVE  Max(S) \in S /\ \A y \in S : y <= Max(S)
<1> DEFINE T == {k \in Nat : \A y \in S : y <= k}
<1>1. PICK x \in T : \A y \in T : x <= y
  <2>1. n \in T /\ T \in SUBSET Nat
    OBVIOUS
  <2> HIDE DEF T
  <2> QED
    BY <2>1, NatMinimum
<1>2. x \in S
  <2> SUFFICES ASSUME x \notin S PROVE FALSE
    OBVIOUS
  <2>1. PICK z \in S : TRUE
    OBVIOUS
  <2>2. z \in 0..n /\ z <= x /\ z # x
    BY <1>1
  <2>3. x - 1 \in Nat
    BY <2>2
  <2>4. \A y \in S : y <= x - 1
    BY <1>1
  <2> QED
    BY <1>1, <2>3, <2>4
<1>3. \E z \in S : \A y \in S : z >= y
  BY <1>1, <1>2
<1>4. Max(S) \in S /\ \A y \in S : Max(S) >= y
  BY <1>3 DEF Max
<1> QED
  BY <1>4

(* The least number of a set.                                              *)
LEMMA MinIs ==
  ASSUME NEW S \in SUBSET Nat, S # {}
  PROVE  Min(S) \in S /\ \A y \in S : Min(S) <= y
<1>1. \E z \in S : \A y \in S : z <= y
  BY NatMinimum
<1> QED
  BY <1>1 DEF Min

-------------------------------------------------------------------------------
(* Folds over sequences.                                                   *)

(* A fold is well defined: the function of sets of places that FoldLeft    *)
(* chooses exists.                                                         *)
FoldEquation(it, g, base, seq, n) ==
  it = [s \in SUBSET (1..n) |-> IF s = {} THEN base ELSE g[<<it[s \ {Max(s)}], seq[Max(s)]>>]]

LEMMA FoldIsDefined ==
  ASSUME NEW A, NEW B, NEW g \in [A \X B -> A], NEW base \in A,
         NEW n \in Nat, NEW seq \in [1..n -> B]
  PROVE  \E it \in [SUBSET (1..n) -> A] : FoldEquation(it, g, base, seq, n)
<1> DEFINE S == {k \in 0..n : \E it \in [SUBSET (1..k) -> A] : FoldEquation(it, g, base, seq, k)}
<1>1. 0 \in S
  <2> DEFINE it == [s \in SUBSET (1..0) |-> base]
  <2>1. it \in [SUBSET (1..0) -> A]
    OBVIOUS
  <2>2. \A s \in SUBSET (1..0) : s = {}
    OBVIOUS
  <2>3. FoldEquation(it, g, base, seq, 0)
    BY <2>2 DEF FoldEquation
  <2> QED
    BY <2>1, <2>3
<1>2. ASSUME NEW k \in 0..n, k < n, k \in S
      PROVE  k + 1 \in S
  <2>1. PICK it \in [SUBSET (1..k) -> A] : FoldEquation(it, g, base, seq, k)
    BY <1>2
  <2> DEFINE next == [s \in SUBSET (1..k + 1) |->
                        IF k + 1 \in s THEN g[<<it[s \ {k + 1}], seq[k + 1]>>] ELSE it[s]]
  <2>2. \A s \in SUBSET (1..k + 1) : k + 1 \in s => s \ {k + 1} \in SUBSET (1..k) /\ Max(s) = k + 1
    <3> TAKE s \in SUBSET (1..k + 1)
    <3> HAVE k + 1 \in s
    <3>1. s \in SUBSET (0..k + 1) /\ s # {} /\ k + 1 \in Nat
      OBVIOUS
    <3>2. Max(s) \in s /\ k + 1 <= Max(s)
      BY <3>1, MaxIs
    <3>3. Max(s) \in 1..k + 1
      BY <3>2
    <3>4. Max(s) = k + 1
      BY <3>2, <3>3
    <3> QED
      BY <3>4
  <2>3. \A s \in SUBSET (1..k + 1) : k + 1 \notin s => s \in SUBSET (1..k)
    OBVIOUS
  <2>4. \A s \in SUBSET (1..k) : s # {} => Max(s) \in s
    <3> TAKE s \in SUBSET (1..k)
    <3> HAVE s # {}
    <3>1. s \in SUBSET (0..k) /\ k \in Nat
      OBVIOUS
    <3> QED
      BY <3>1, MaxIs
  <2>5. k + 1 \in 1..n
    BY <1>2
  <2>6. next \in [SUBSET (1..k + 1) -> A]
    BY <2>1, <2>2, <2>3, <2>5
  <2>7. \A s \in SUBSET (1..k + 1) :
          next[s] = IF s = {} THEN base ELSE g[<<next[s \ {Max(s)}], seq[Max(s)]>>]
    <3> TAKE s \in SUBSET (1..k + 1)
    <3>1. CASE k + 1 \in s
      <4>1. s \ {k + 1} \in SUBSET (1..k) /\ s \ {k + 1} \in SUBSET (1..k + 1) /\ Max(s) = k + 1 /\ s # {}
        BY <3>1, <2>2
      <4>2. next[s \ {k + 1}] = it[s \ {k + 1}]
        BY <4>1
      <4>3. next[s] = g[<<it[s \ {k + 1}], seq[k + 1]>>]
        BY <3>1
      <4> QED
        BY <4>1, <4>2, <4>3
    <3>2. CASE k + 1 \notin s
      <4>1. s \in SUBSET (1..k) /\ next[s] = it[s]
        BY <3>2, <2>3
      <4>2. s \ {Max(s)} \in SUBSET (1..k) /\ s \ {Max(s)} \in SUBSET (1..k + 1)
        BY <4>1
      <4>3. next[s \ {Max(s)}] = it[s \ {Max(s)}]
        BY <4>2
      <4>4. it[s] = IF s = {} THEN base ELSE g[<<it[s \ {Max(s)}], seq[Max(s)]>>]
        BY <2>1, <4>1 DEF FoldEquation
      <4> QED
        BY <4>1, <4>3, <4>4
    <3> QED
      BY <3>1, <3>2
  <2>8. FoldEquation(next, g, base, seq, k + 1)
    <3> DEFINE f == [s \in SUBSET (1..k + 1) |-> IF s = {} THEN base ELSE g[<<next[s \ {Max(s)}], seq[Max(s)]>>]]
    <3>1. next = f
      BY <2>7
    <3> QED
      BY <3>1 DEF FoldEquation
  <2>9. \E h \in [SUBSET (1..k + 1) -> A] : FoldEquation(h, g, base, seq, k + 1)
    <3> HIDE DEF next
    <3> QED
      BY <2>6, <2>8
  <2> QED
    BY <2>5, <2>9
<1>3. n \in S
  <2> HIDE DEF S
  <2>1. \A k \in 0..n : k \in S
    BY <1>1, <1>2, UpTo
  <2> QED
    BY <2>1
<1> QED
  BY <1>3

(* The values of a fold over the prefixes of a sequence.                   *)
FoldRun(a, A, g, base, n, seq) ==
  /\ a \in [0..n -> A] /\ a[0] = base
  /\ \A k \in 1..n : a[k] = g[<<a[k - 1], seq[k]>>]

LEMMA PrefixMax ==
  ASSUME NEW k \in Nat \ {0}
  PROVE  Max(1..k) = k /\ (1..k) \ {Max(1..k)} = 1..k - 1 /\ 1..k # {}
<1>1. 1..k \in SUBSET (0..k) /\ k \in 1..k
  OBVIOUS
<1>2. Max(1..k) \in 1..k /\ k <= Max(1..k)
  BY <1>1, MaxIs
<1> QED
  BY <1>2

(* A fold of an operator that is g on values of the right kind. What it is *)
(* on others does not matter, since no other value comes up.               *)
Folds(it, A, g, base, n, seq) ==
  /\ it[{}] = base
  /\ \A s \in SUBSET (1..n) :
       s # {} /\ it[s \ {Max(s)}] \in A => it[s] = g[<<it[s \ {Max(s)}], seq[Max(s)]>>]

(* The value a fold over a sequence comes to.                              *)
RunsTo(v, A, g, base, n, seq) == \E a : FoldRun(a, A, g, base, n, seq) /\ a[n] = v

(* Such a fold exists, of values of the right kind.                        *)
IsFold(f, A, B, g, base, n, seq) ==
  /\ f \in [SUBSET (1..n) -> A] /\ f[{}] = base
  /\ \A s \in SUBSET (1..n) :
       s # {} => /\ s \ {Max(s)} \in SUBSET (1..n) /\ seq[Max(s)] \in B
                 /\ f[s] = g[<<f[s \ {Max(s)}], seq[Max(s)]>>]

LEMMA FoldValues ==
  ASSUME NEW A, NEW B, NEW g \in [A \X B -> A], NEW base \in A,
         NEW n \in Nat, NEW seq \in [1..n -> B]
  PROVE  \E f : IsFold(f, A, B, g, base, n, seq)
<1>1. PICK f \in [SUBSET (1..n) -> A] : FoldEquation(f, g, base, seq, n)
  BY FoldIsDefined
<1>2. \A s \in SUBSET (1..n) : s # {} => Max(s) \in s
  <2> TAKE s \in SUBSET (1..n)
  <2> HAVE s # {}
  <2>1. s \in SUBSET (0..n)
    OBVIOUS
  <2> QED
    BY <2>1, MaxIs
<1>3. \A s \in SUBSET (1..n) : s # {} => s \ {Max(s)} \in SUBSET (1..n) /\ seq[Max(s)] \in B
  BY <1>2
<1>4. \A s \in SUBSET (1..n) : f[s] = IF s = {} THEN base ELSE g[<<f[s \ {Max(s)}], seq[Max(s)]>>]
  BY <1>1 DEF FoldEquation
<1> QED
  BY <1>3, <1>4 DEF IsFold

LEMMA FoldIsRun ==
  ASSUME NEW A, NEW B, NEW g \in [A \X B -> A], NEW base \in A,
         NEW n \in Nat, NEW seq \in [1..n -> B],
         NEW it, Folds(it, A, g, base, n, seq)
  PROVE  RunsTo(it[1..n], A, g, base, n, seq)
<1> DEFINE a == [k \in 0..n |-> it[1..k]]
           S == {k \in 0..n : it[1..k] \in A}
<1>1. it[1..0] = base
  <2>1. 1..0 = {}
    OBVIOUS
  <2> QED
    BY <2>1 DEF Folds
<1>2. \A k \in 1..n : it[1..k - 1] \in A => it[1..k] = g[<<it[1..k - 1], seq[k]>>] /\ it[1..k] \in A
  <2> TAKE k \in 1..n
  <2> HAVE it[1..k - 1] \in A
  <2>1. Max(1..k) = k /\ (1..k) \ {Max(1..k)} = 1..k - 1 /\ 1..k # {}
    <3>1. k \in Nat \ {0}
      OBVIOUS
    <3> QED
      BY <3>1, PrefixMax
  <2>2. 1..k \in SUBSET (1..n)
    OBVIOUS
  <2>a. it[(1..k) \ {Max(1..k)}] \in A
    BY <2>1
  <2>3. it[1..k] = g[<<it[(1..k) \ {Max(1..k)}], seq[Max(1..k)]>>]
    BY <2>1, <2>2, <2>a DEF Folds
  <2>4. it[1..k] = g[<<it[1..k - 1], seq[k]>>]
    BY <2>1, <2>3
  <2>5. <<it[1..k - 1], seq[k]>> \in A \X B
    OBVIOUS
  <2> QED
    BY <2>4, <2>5
<1>3. \A k \in 0..n : k \in S
  <2>1. 0 \in S
    BY <1>1
  <2>2. \A k \in 0..n : k < n /\ k \in S => k + 1 \in S
    <3> TAKE k \in 0..n
    <3> HAVE k < n /\ k \in S
    <3>1. k + 1 \in 1..n /\ k + 1 \in 0..n /\ (k + 1) - 1 = k
      OBVIOUS
    <3>2. it[1..k + 1] \in A
      BY <1>2, <3>1
    <3> QED
      BY <3>1, <3>2
  <2> HIDE DEF S
  <2> QED
    BY <2>1, <2>2, UpTo
<1>4. a \in [0..n -> A]
  BY <1>3
<1>5. \A k \in 1..n : a[k] = g[<<a[k - 1], seq[k]>>]
  <2> TAKE k \in 1..n
  <2>1. k \in 0..n /\ k - 1 \in 0..n
    OBVIOUS
  <2> QED
    BY <1>2, <1>3, <2>1
<1>6. a[0] = base /\ a[n] = it[1..n]
  BY <1>1
<1> HIDE DEF a
<1>7. FoldRun(a, A, g, base, n, seq)
  BY <1>4, <1>5, <1>6 DEF FoldRun
<1> QED
  BY <1>6, <1>7 DEF RunsTo

LEMMA RunExists ==
  ASSUME NEW A, NEW B, NEW g \in [A \X B -> A], NEW base \in A,
         NEW n \in Nat, NEW seq \in [1..n -> B]
  PROVE  \E a : FoldRun(a, A, g, base, n, seq)
<1>1. PICK it \in [SUBSET (1..n) -> A] : FoldEquation(it, g, base, seq, n)
  BY FoldIsDefined
<1>2. Folds(it, A, g, base, n, seq)
  <2>1. \A s \in SUBSET (1..n) : it[s] = IF s = {} THEN base ELSE g[<<it[s \ {Max(s)}], seq[Max(s)]>>]
    BY <1>1 DEF FoldEquation
  <2> QED
    BY <2>1 DEF Folds
<1>3. RunsTo(it[1..n], A, g, base, n, seq)
  BY <1>2, FoldIsRun
<1> QED
  BY <1>3 DEF RunsTo

(* Folds over sequences with a common beginning agree on it.               *)
Common(l, s, t) == \A k \in 1..l : s[k] = t[k]

LEMMA RunsAgree ==
  ASSUME NEW A, NEW g, NEW base, NEW n \in Nat, NEW m \in Nat, NEW s, NEW t, NEW a, NEW b,
         FoldRun(a, A, g, base, n, s), FoldRun(b, A, g, base, m, t),
         NEW l \in Nat, l <= n, l <= m, Common(l, s, t)
  PROVE  \A k \in 0..l : a[k] = b[k]
<1> DEFINE S == {k \in 0..l : a[k] = b[k]}
<1>1. 0 \in S
  BY DEF FoldRun
<1>2. \A k \in 0..l : k < l /\ k \in S => k + 1 \in S
  <2> TAKE k \in 0..l
  <2> HAVE k < l /\ k \in S
  <2>1. k + 1 \in 1..n /\ k + 1 \in 1..m /\ k + 1 \in 1..l /\ (k + 1) - 1 = k
    OBVIOUS
  <2>2. a[k + 1] = g[<<a[(k + 1) - 1], s[k + 1]>>] /\ b[k + 1] = g[<<b[(k + 1) - 1], t[k + 1]>>]
    BY <2>1 DEF FoldRun
  <2> QED
    BY <2>1, <2>2 DEF Common
<1> HIDE DEF S
<1>3. \A k \in 0..l : k \in S
  BY <1>1, <1>2, UpTo
<1> QED
  BY <1>3 DEF S

-------------------------------------------------------------------------------
(* Sums over finite sets: a measure gives every subset the sum of the      *)
(* weights of its elements.                                                *)

(* Induction over the subsets of a finite set, from all smaller ones.      *)
LEMMA Smaller ==
  ASSUME NEW S, IsFiniteSet(S), NEW T,
         \A A \in SUBSET S : (\A B \in SUBSET A : B # A => B \in T) => A \in T
  PROVE  \A A \in SUBSET S : A \in T
<1> DEFINE Bad == {A \in SUBSET S : A \notin T}
<1>1. ASSUME Bad # {} PROVE FALSE
  <2>1. \A A \in SUBSET S : IsFiniteSet(A)
    BY FS_Subset
  <2>2. Bad \subseteq FiniteSubsetsOf(S)
    BY <2>1 DEF FiniteSubsetsOf
  <2>3. PICK A \in Bad : \A B \in Bad : <<B, A>> \notin StrictSubsetOrdering(S)
    <3> HIDE DEF Bad
    <3> QED
      BY <1>1, <2>2, FS_StrictSubsetOrderingWellFounded, WFMin
  <2>4. \A B \in SUBSET A : B # A => B \in T
    <3> SUFFICES ASSUME NEW B \in SUBSET A, B # A, B \notin T PROVE FALSE
      OBVIOUS
    <3>1. <<B, A>> \in StrictSubsetOrdering(S) /\ B \in Bad
      BY <2>3 DEF StrictSubsetOrdering
    <3> QED
      BY <2>3, <3>1
  <2> QED
    BY <2>3, <2>4
<1> QED
  BY <1>1

IsMeasure(m, h, S) ==
  /\ m \in [SUBSET S -> Nat] /\ m[{}] = 0
  /\ \A A \in SUBSET S : \A x \in S : x \notin A => m[A \cup {x}] = m[A] + h[x]

SumEquation(it, h, S) ==
  it = [s \in SUBSET S |-> IF s = {} THEN 0
                           ELSE h[CHOOSE x \in s : TRUE] + it[s \ {CHOOSE x \in s : TRUE}]]

LEMMA MeasureExists ==
  ASSUME NEW S, IsFiniteSet(S), NEW h \in [S -> Nat]
  PROVE  \E m : IsMeasure(m, h, S)
<1> DEFINE T == {A \in SUBSET S : \E m : IsMeasure(m, h, A)}
<1>1. {} \in T
  <2> DEFINE m == [A \in SUBSET {} |-> 0]
  <2>1. IsMeasure(m, h, {})
    BY DEF IsMeasure
  <2> QED
    BY <2>1
<1>2. \A A \in SUBSET S : \A x \in S : A \in T /\ x \notin A => A \cup {x} \in T
  <2> SUFFICES ASSUME NEW A \in SUBSET S, NEW x \in S, A \in T, x \notin A
               PROVE  A \cup {x} \in T
    OBVIOUS
  <2>1. PICK m : IsMeasure(m, h, A)
    OBVIOUS
  <2> DEFINE k == [B \in SUBSET (A \cup {x}) |-> IF x \in B THEN m[B \ {x}] + h[x] ELSE m[B]]
  <2>2. \A B \in SUBSET (A \cup {x}) : B \ {x} \in SUBSET A /\ (x \notin B => B \in SUBSET A)
    OBVIOUS
  <2>3. k \in [SUBSET (A \cup {x}) -> Nat]
    BY <2>1, <2>2 DEF IsMeasure
  <2>4. k[{}] = 0
    BY <2>1 DEF IsMeasure
  <2>5. ASSUME NEW B \in SUBSET (A \cup {x}), NEW y \in A \cup {x}, y \notin B
        PROVE  k[B \cup {y}] = k[B] + h[y]
    <3>0. B \cup {y} \in SUBSET (A \cup {x})
      OBVIOUS
    <3>1. CASE y = x
      <4>1. (B \cup {y}) \ {x} = B /\ x \in B \cup {y} /\ x \notin B
        BY <2>5, <3>1
      <4> QED
        BY <3>0, <3>1, <4>1
    <3>2. CASE y # x /\ x \in B
      <4>1. (B \cup {y}) \ {x} = (B \ {x}) \cup {y} /\ y \in A /\ y \notin B \ {x} /\ B \ {x} \in SUBSET A
        BY <2>5, <3>2
      <4>2. m[(B \ {x}) \cup {y}] = m[B \ {x}] + h[y]
        BY <2>1, <4>1 DEF IsMeasure
      <4>3. m[B \ {x}] \in Nat /\ h[y] \in Nat /\ h[x] \in Nat
        BY <2>1, <4>1 DEF IsMeasure
      <4>4. k[B \cup {y}] = m[(B \ {x}) \cup {y}] + h[x] /\ k[B] = m[B \ {x}] + h[x]
        BY <3>0, <3>2, <4>1
      <4> HIDE DEF k
      <4> QED
        BY <4>2, <4>3, <4>4
    <3>3. CASE y # x /\ x \notin B
      <4>1. B \in SUBSET A /\ y \in A /\ x \notin B \cup {y}
        BY <2>5, <3>3
      <4>2. m[B \cup {y}] = m[B] + h[y]
        BY <2>1, <2>5, <4>1 DEF IsMeasure
      <4> QED
        BY <3>0, <3>3, <4>1, <4>2
    <3> QED
      BY <3>1, <3>2, <3>3
  <2> HIDE DEF k
  <2>6. IsMeasure(k, h, A \cup {x})
    BY <2>3, <2>4, <2>5 DEF IsMeasure
  <2> QED
    BY <2>6
<1>3. S \in T
  <2> HIDE DEF T
  <2>1. \A A \in SUBSET S : A \in T
    BY <1>1, <1>2, Subsets
  <2> QED
    BY <2>1
<1> QED
  BY <1>3

(* A sum over the subsets of a set, of numbers that may be negative.       *)
IsSum(m, h, S) ==
  /\ m \in [SUBSET S -> Int] /\ m[{}] = 0
  /\ \A A \in SUBSET S : \A x \in S : x \notin A => m[A \cup {x}] = m[A] + h[x]

LEMMA SumExists ==
  ASSUME NEW S, IsFiniteSet(S), NEW h \in [S -> Int]
  PROVE  \E m : IsSum(m, h, S)
<1>1. PICK pos \in [S -> Nat] : pos = [x \in S |-> IF h[x] >= 0 THEN h[x] ELSE 0]
  <2>1. [x \in S |-> IF h[x] >= 0 THEN h[x] ELSE 0] \in [S -> Nat]
    OBVIOUS
  <2> QED
    BY <2>1
<1>2. PICK neg \in [S -> Nat] : neg = [x \in S |-> IF h[x] >= 0 THEN 0 ELSE 0 - h[x]]
  <2>1. [x \in S |-> IF h[x] >= 0 THEN 0 ELSE 0 - h[x]] \in [S -> Nat]
    OBVIOUS
  <2> QED
    BY <2>1
<1>3. \A x \in S : h[x] = pos[x] - neg[x]
  BY <1>1, <1>2
<1>4. PICK p : IsMeasure(p, pos, S)
  BY MeasureExists
<1>5. PICK q : IsMeasure(q, neg, S)
  BY MeasureExists
<1>6. \A A \in SUBSET S : p[A] \in Nat /\ q[A] \in Nat
  BY <1>4, <1>5 DEF IsMeasure
<1>7. PICK m \in [SUBSET S -> Int] : m = [A \in SUBSET S |-> p[A] - q[A]]
  <2>1. [A \in SUBSET S |-> p[A] - q[A]] \in [SUBSET S -> Int]
    BY <1>6
  <2> QED
    BY <2>1
<1>8. m[{}] = 0
  <2>1. {} \in SUBSET S /\ p[{}] = 0 /\ q[{}] = 0
    BY <1>4, <1>5 DEF IsMeasure
  <2> QED
    BY <1>7, <2>1
<1>9. ASSUME NEW A \in SUBSET S, NEW x \in S, x \notin A
      PROVE  m[A \cup {x}] = m[A] + h[x]
  <2>1. A \cup {x} \in SUBSET S
    OBVIOUS
  <2>2. p[A \cup {x}] = p[A] + pos[x] /\ q[A \cup {x}] = q[A] + neg[x]
    BY <1>4, <1>5, <1>9 DEF IsMeasure
  <2>3. PICK a \in Nat, b \in Nat, c \in Nat, d \in Nat :
           a = p[A] /\ b = q[A] /\ c = pos[x] /\ d = neg[x]
    BY <1>6
  <2>4. m[A] = a - b /\ m[A \cup {x}] = (a + c) - (b + d) /\ h[x] = c - d
    BY <1>3, <1>7, <2>1, <2>2, <2>3
  <2> QED
    BY <2>4
<1>10. \A A \in SUBSET S : \A x \in S : x \notin A => m[A \cup {x}] = m[A] + h[x]
  BY <1>9
<1>11. IsSum(m, h, S)
  BY <1>8, <1>10 DEF IsSum
<1> QED
  BY <1>11

(* The sum that MapThenSumSet chooses.                                     *)
LEMMA SumIsChosen ==
  ASSUME NEW S, IsFiniteSet(S), NEW h \in [S -> Int], NEW m, IsSum(m, h, S)
  PROVE  /\ SumEquation(m, h, S)
         /\ \A it : SumEquation(it, h, S) => \A A \in SUBSET S : it[A] = m[A]
<1> DEFINE c(s) == CHOOSE x \in s : TRUE
<1>1. \A s \in SUBSET S : s # {} => c(s) \in s
  OBVIOUS
<1>2. \A s \in SUBSET S : s # {} => m[s] = h[c(s)] + m[s \ {c(s)}]
  <2> TAKE s \in SUBSET S
  <2> HAVE s # {}
  <2> DEFINE x == c(s)
  <2>1. x \in s
    BY <1>1
  <2> HIDE DEF x
  <2>2. s \ {x} \in SUBSET S /\ x \in S /\ x \notin s \ {x} /\ (s \ {x}) \cup {x} = s
    BY <2>1
  <2>3. m[s] = m[s \ {x}] + h[x]
    BY <2>2 DEF IsSum
  <2>4. m[s \ {x}] \in Int /\ h[x] \in Int
    BY <2>2 DEF IsSum
  <2>5. m[s] = h[x] + m[s \ {x}]
    BY <2>3, <2>4
  <2> QED
    BY <2>5 DEF x
<1>3. SumEquation(m, h, S)
  <2> DEFINE F == [s \in SUBSET S |-> IF s = {} THEN 0 ELSE h[c(s)] + m[s \ {c(s)}]]
  <2>1. \A s \in SUBSET S : m[s] = F[s]
    BY <1>2 DEF IsSum
  <2>2. m = F
    BY <2>1 DEF IsSum
  <2> QED
    BY <2>2 DEF SumEquation
<1>4. ASSUME NEW it, SumEquation(it, h, S)
      PROVE  \A A \in SUBSET S : it[A] = m[A]
  <2> DEFINE T == {A \in SUBSET S : it[A] = m[A]}
  <2>1. \A s \in SUBSET S : it[s] = IF s = {} THEN 0 ELSE h[c(s)] + it[s \ {c(s)}]
    BY <1>4 DEF SumEquation
  <2>2. \A A \in SUBSET S : (\A B \in SUBSET A : B # A => B \in T) => A \in T
    <3> TAKE A \in SUBSET S
    <3> HAVE \A B \in SUBSET A : B # A => B \in T
    <3>1. CASE A = {}
      BY <2>1, <3>1 DEF IsSum
    <3>2. CASE A # {}
      <4> DEFINE x == c(A)
      <4>1. x \in A
        BY <1>1, <3>2
      <4>2. it[A] = h[x] + it[A \ {x}] /\ m[A] = h[x] + m[A \ {x}]
        BY <1>2, <2>1, <3>2
      <4> HIDE DEF x
      <4>3. A \ {x} \in SUBSET A /\ A \ {x} # A
        BY <4>1
      <4>4. A \ {x} \in T
        BY <4>3
      <4> QED
        BY <4>2, <4>4
    <3> QED
      BY <3>1, <3>2
  <2> HIDE DEF T
  <2>3. \A A \in SUBSET S : A \in T
    BY <2>2, Smaller
  <2> QED
    BY <2>3 DEF T
<1> QED
  BY <1>3, <1>4

LEMMA SumIsMeasure ==
  ASSUME NEW S, IsFiniteSet(S), NEW h \in [S -> Nat], NEW m, IsMeasure(m, h, S)
  PROVE  /\ SumEquation(m, h, S)
         /\ \A it : SumEquation(it, h, S) => \A A \in SUBSET S : it[A] = m[A]
<1>1. h \in [S -> Int]
  OBVIOUS
<1>2. IsSum(m, h, S)
  BY DEF IsMeasure, IsSum
<1> QED
  BY <1>1, <1>2, SumIsChosen

LEMMA MeasureUnion ==
  ASSUME NEW S, IsFiniteSet(S), NEW h \in [S -> Nat], NEW m, IsMeasure(m, h, S), NEW A \in SUBSET S
  PROVE  \A B \in SUBSET S : A \cap B = {} => m[A \cup B] = m[A] + m[B]
<1> DEFINE T == {B \in SUBSET S : A \cap B = {} => m[A \cup B] = m[A] + m[B]}
<1>0. \A B \in SUBSET S : m[B] \in Nat
  BY DEF IsMeasure
<1>1. {} \in T
  <2>1. A \cup {} = A /\ m[{}] = 0
    BY DEF IsMeasure
  <2> QED
    BY <1>0, <2>1
<1>2. \A B \in SUBSET S : \A x \in S : B \in T /\ x \notin B => B \cup {x} \in T
  <2> SUFFICES ASSUME NEW B \in SUBSET S, NEW x \in S, B \in T, x \notin B, A \cap (B \cup {x}) = {}
               PROVE  m[A \cup (B \cup {x})] = m[A] + m[B \cup {x}]
    OBVIOUS
  <2>1. A \cup (B \cup {x}) = (A \cup B) \cup {x} /\ x \notin A \cup B /\ A \cup B \in SUBSET S /\ A \cap B = {}
    OBVIOUS
  <2>2. m[(A \cup B) \cup {x}] = m[A \cup B] + h[x] /\ m[B \cup {x}] = m[B] + h[x]
    BY <2>1 DEF IsMeasure
  <2>3. m[A \cup B] = m[A] + m[B]
    BY <2>1
  <2>4. m[A] \in Nat /\ m[B] \in Nat /\ h[x] \in Nat
    BY <1>0
  <2>5. m[(A \cup B) \cup {x}] = m[A] + m[B \cup {x}]
    BY <2>2, <2>3, <2>4
  <2> QED
    BY <2>1, <2>5
<1>3. \A B \in SUBSET S : B \in T
  <2> HIDE DEF T
  <2> QED
    BY <1>1, <1>2, Subsets
<1> QED
  BY <1>3

(* What the parts of a set measure.                                        *)
PartSums(h, m, part, T, R) == \A r \in R : h[r] = m[{t \in T : part[t] = r}]

(* Adding it up gives what the set measures.                               *)
LEMMA SumOfParts ==
  ASSUME NEW T, IsFiniteSet(T), NEW R, IsFiniteSet(R), NEW part \in [T -> R],
         NEW w \in [T -> Nat], NEW m, IsMeasure(m, w, T),
         NEW h, PartSums(h, m, part, T, R), NEW M, IsMeasure(M, h, R)
  PROVE  M[R] = m[T]
<1> DEFINE In(A) == {t \in T : part[t] \in A}
           S == {A \in SUBSET R : M[A] = m[In(A)]}
<1>1. {} \in S
  BY DEF IsMeasure
<1>2. \A A \in SUBSET R : \A r \in R : A \in S /\ r \notin A => A \cup {r} \in S
  <2> SUFFICES ASSUME NEW A \in SUBSET R, NEW r \in R, A \in S, r \notin A
               PROVE  M[A \cup {r}] = m[In(A \cup {r})]
    OBVIOUS
  <2> DEFINE P == {t \in T : part[t] = r}
             Q == In(A)
  <2>1. In(A \cup {r}) = Q \cup P /\ Q \cap P = {} /\ Q \in SUBSET T /\ P \in SUBSET T
    OBVIOUS
  <2>2. M[A \cup {r}] = M[A] + m[P]
    BY DEF IsMeasure, PartSums
  <2>3. M[A] = m[Q]
    OBVIOUS
  <2> HIDE DEF P, Q, In
  <2>4. m[Q \cup P] = m[Q] + m[P]
    BY <2>1, MeasureUnion
  <2> QED
    BY <2>1, <2>2, <2>3, <2>4
<1>3. \A A \in SUBSET R : A \in S
  <2> HIDE DEF S
  <2> QED
    BY <1>1, <1>2, Subsets
<1>4. In(R) = T
  OBVIOUS
<1> QED
  BY <1>3, <1>4

(* The number of elements is a measure.                                    *)
LEMMA CardinalityIsMeasure ==
  ASSUME NEW S, IsFiniteSet(S)
  PROVE  IsMeasure([A \in SUBSET S |-> Cardinality(A)], [x \in S |-> 1], S)
<1>1. \A A \in SUBSET S : IsFiniteSet(A) /\ Cardinality(A) \in Nat
  <2> TAKE A \in SUBSET S
  <2>1. IsFiniteSet(A)
    BY FS_Subset
  <2> QED
    BY <2>1, FS_CardinalityType
<1>2. \A A \in SUBSET S : \A x \in S : x \notin A => Cardinality(A \cup {x}) = Cardinality(A) + 1
  BY <1>1, FS_AddElement
<1>3. Cardinality({}) = 0
  BY FS_EmptySet
<1>4. \A A \in SUBSET S : \A x \in S : A \cup {x} \in SUBSET S
  OBVIOUS
<1> QED
  BY <1>1, <1>2, <1>3, <1>4 DEF IsMeasure

-------------------------------------------------------------------------------
(* Arithmetic.                                                             *)
LEMMA Division ==
  ASSUME NEW a \in Nat, NEW b \in Nat \ {0}
  PROVE  a \div b \in Nat /\ a % b \in 0..b - 1 /\ a = (b * (a \div b)) + (a % b)
OBVIOUS

LEMMA Quotient ==
  ASSUME NEW b \in Nat \ {0}, NEW q \in Nat, NEW s \in 0..b - 1
  PROVE  (b * q + s) \div b = q /\ (b * q + s) % b = s
<1> DEFINE a == b * q + s
           d == a \div b
           t == a % b
<1>1. a \in Nat
  OBVIOUS
<1>2. d \in Nat /\ t \in 0..b - 1 /\ a = (b * d) + t
  BY <1>1, Division
<1> HIDE DEF d, t
<1>3. b * (q - d) = t - s
  BY <1>2
<1>4. CASE q > d
  <2>1. q - d - 1 \in Nat
    BY <1>2, <1>4
  <2>2. b * (q - d - 1) >= 0
    BY <2>1
  <2>3. b * (q - d) = b + b * (q - d - 1)
    BY <1>2, <2>1
  <2> QED
    BY <1>2, <1>3, <2>2, <2>3
<1>5. CASE q < d
  <2>1. d - q - 1 \in Nat
    BY <1>2, <1>5
  <2>2. b * (d - q - 1) >= 0
    BY <2>1
  <2>3. b * (q - d) = -b - b * (d - q - 1)
    BY <1>2, <2>1
  <2> QED
    BY <1>2, <1>3, <2>2, <2>3
<1>6. CASE q = d
  BY <1>2, <1>6 DEF d, t
<1> QED
  BY <1>2, <1>4, <1>5, <1>6

LEMMA SumModulo ==
  ASSUME NEW a \in Nat, NEW b \in Nat, NEW m \in Nat \ {0}
  PROVE  ((a % m) + b) % m = (a + b) % m
<1> DEFINE d == a \div m
           t == a % m
           e == (t + b) \div m
           u == (t + b) % m
<1>1. d \in Nat /\ t \in 0..m - 1 /\ a = (m * d) + t
  BY Division
<1> HIDE DEF d, t
<1>2. e \in Nat /\ u \in 0..m - 1 /\ t + b = (m * e) + u
  <2>1. t + b \in Nat
    BY <1>1
  <2> QED
    BY <2>1, Division
<1> HIDE DEF e, u
<1>3. a + b = (m * (d + e)) + u
  BY <1>1, <1>2
<1>4. d + e \in Nat
  BY <1>1, <1>2
<1>5. ((m * (d + e)) + u) % m = u
  BY <1>2, <1>4, Quotient
<1> QED
  BY <1>3, <1>5 DEF t, u
=============================================================================
