------------------------------ MODULE PortProofs ------------------------------
(***************************************************************************)
(* The pairs of ports that Scheduler::add_new_uops serves in turn get      *)
(* their uops evenly, whatever is issued and dispatched in whichever       *)
(* cycles.  The numbers that the uops of a pair get within a cycle count   *)
(* from zero without a gap, so that as many of them are even as odd, but   *)
(* for one.                                                                *)
(***************************************************************************)
EXTENDS PortAssignment, SequenceTheorems, FiniteSetTheorems, FunctionTheorems, TLAPS

Before(K, i) == {j \in K : j < i}
Rank(K) == [i \in K |-> Cardinality(Before(K, i))]

(* Counting, for each element of a finite set of numbers, the smaller ones *)
(* numbers the set from zero without a gap.                                *)
LEMMA Ranks ==
  ASSUME NEW N \in Nat, NEW K \in SUBSET (1..N)
  PROVE  /\ IsFiniteSet(K)
         /\ Cardinality(K) \in Nat
         /\ Rank(K) \in Bijection(K, 0..Cardinality(K) - 1)
<1> DEFINE n == Cardinality(K)
           T == 0..n - 1
<1>1. IsFiniteSet(1..N)
  BY FS_Interval
<1>2. IsFiniteSet(K)
  BY <1>1, FS_Subset
<1>3. n \in Nat
  BY <1>2, FS_CardinalityType
<1>4. ASSUME NEW i \in K
      PROVE  IsFiniteSet(Before(K, i)) /\ Cardinality(Before(K, i)) \in Nat /\ Cardinality(Before(K, i)) < n
  <2>1. Before(K, i) \in SUBSET K
    BY DEF Before
  <2>2. i \notin Before(K, i)
    BY DEF Before
  <2>3. Before(K, i) # K
    BY <1>4, <2>2
  <2>4. IsFiniteSet(Before(K, i))
    BY <1>2, <2>1, FS_Subset
  <2>5. Cardinality(Before(K, i)) <= n /\ n # Cardinality(Before(K, i))
    BY <1>2, <2>1, <2>3, FS_Subset
  <2>6. Cardinality(Before(K, i)) \in Nat
    BY <2>4, FS_CardinalityType
  <2> QED
    BY <1>3, <2>4, <2>5, <2>6
<1>5. ASSUME NEW i \in K
      PROVE  Cardinality(Before(K, i)) \in T
  BY <1>3, <1>4
<1>6. Rank(K) \in [K -> T]
  BY <1>5 DEF Rank
<1>7. ASSUME NEW i \in K, NEW j \in K, i < j
      PROVE  Cardinality(Before(K, i)) # Cardinality(Before(K, j))
  <2>1. i \in Int /\ j \in Int /\ K \subseteq Int
    OBVIOUS
  <2>2. ASSUME NEW k \in Before(K, i) PROVE k \in Before(K, j)
    <3>1. k \in K /\ k \in Int /\ k < i
      BY <2>1 DEF Before
    <3>2. k < j
      BY <1>7, <2>1, <3>1
    <3> QED
      BY <3>1, <3>2 DEF Before
  <2>3. i \in Before(K, j) /\ i \notin Before(K, i)
    BY <1>7, <2>1 DEF Before
  <2>4. IsFiniteSet(Before(K, j))
    BY <1>4
  <2> QED
    BY <2>2, <2>3, <2>4, FS_Subset
<1>8. ASSUME NEW i \in K, NEW j \in K, Rank(K)[i] = Rank(K)[j]
      PROVE  i = j
  <2>1. Cardinality(Before(K, i)) = Cardinality(Before(K, j))
    BY <1>8 DEF Rank
  <2>2. ~(i < j) /\ ~(j < i)
    BY <1>7, <2>1
  <2> QED
    BY <2>2
<1>9. Rank(K) \in Injection(K, T)
  BY <1>6, <1>8, Fun_IsInj
<1>10. IsFiniteSet(T) /\ Cardinality(T) = n
  <2>1. IsFiniteSet(T) /\ Cardinality(T) = IF 0 > n - 1 THEN 0 ELSE (n - 1) - 0 + 1
    BY <1>3, FS_Interval
  <2> QED
    BY <1>3, <2>1
<1>11. Rank(K) \in Surjection(K, T)
  BY <1>9, <1>10, FS_Injection
<1> QED
  BY <1>2, <1>3, <1>9, <1>11, Fun_IsBij

Even(K, f) == {i \in K : f[i] % 2 = 0}
Odd(K, f) == {i \in K : f[i] % 2 # 0}

(* Of n things numbered from zero as many have even numbers as odd ones,   *)
(* and one more if n is odd.                                               *)
LEMMA Halves ==
  ASSUME NEW K, IsFiniteSet(K), NEW n \in Nat, NEW f \in Bijection(K, 0..n - 1)
  PROVE  /\ Cardinality(Even(K, f)) \in Nat
         /\ Cardinality(Odd(K, f)) \in Nat
         /\ Cardinality(Even(K, f)) = Cardinality(Odd(K, f)) + (n % 2)
<1> DEFINE E == Even(K, f)
           O == Odd(K, f)
           e == (n + 1) \div 2
           o == n \div 2
           g == [i \in E |-> f[i] \div 2]
           h == [i \in O |-> f[i] \div 2]
<1>1. /\ \A i \in K : f[i] \in 0..n - 1
      /\ \A i, j \in K : f[i] = f[j] => i = j
      /\ \A k \in 0..n - 1 : \E i \in K : f[i] = k
  <2> DEFINE T == 0..n - 1
  <2>1. f \in Bijection(K, T)
    OBVIOUS
  <2> HIDE DEF T
  <2>2. f \in [K -> T]
    BY <2>1, Fun_BijectionProperties
  <2>3. \A i, j \in K : f[i] = f[j] => i = j
    BY <2>1, Fun_BijectionProperties
  <2>4. \A k \in T : \E i \in K : f[i] = k
    BY <2>1, Fun_BijectionProperties
  <2> QED
    BY <2>2, <2>3, <2>4 DEF T
<1>2. E \in SUBSET K /\ O \in SUBSET K
  BY DEF Even, Odd
<1>3. IsFiniteSet(E) /\ IsFiniteSet(O)
  BY <1>2, FS_Subset
<1>4. e \in Nat /\ o \in Nat /\ e = o + (n % 2)
  OBVIOUS
<1>5. g \in Bijection(E, 0..e - 1)
  <2>1. g \in [E -> 0..e - 1]
    <3>1. ASSUME NEW i \in E
          PROVE  f[i] \div 2 \in 0..e - 1
      <4>1. f[i] \in 0..n - 1 /\ f[i] % 2 = 0
        BY <1>1 DEF Even
      <4> QED
        BY <4>1
    <3> QED
      BY <3>1
  <2>2. ASSUME NEW i \in E, NEW j \in E, g[i] = g[j]
        PROVE  i = j
    <3>1. f[i] \in 0..n - 1 /\ f[i] % 2 = 0 /\ f[j] \in 0..n - 1 /\ f[j] % 2 = 0
      BY <1>1 DEF Even
    <3>2. f[i] \div 2 = f[j] \div 2
      BY <2>2
    <3>3. f[i] = f[j]
      BY <3>1, <3>2
    <3> QED
      BY <1>1, <1>2, <3>3
  <2>3. ASSUME NEW k \in 0..e - 1
        PROVE  \E i \in E : g[i] = k
    <3>1. 2 * k \in 0..n - 1 /\ (2 * k) % 2 = 0 /\ (2 * k) \div 2 = k
      OBVIOUS
    <3>2. PICK i \in K : f[i] = 2 * k
      BY <1>1, <3>1
    <3>3. i \in E
      BY <3>1, <3>2 DEF Even
    <3> QED
      BY <3>1, <3>2, <3>3
  <2> QED
    BY <2>1, <2>2, <2>3, Fun_IsBij
<1>6. h \in Bijection(O, 0..o - 1)
  <2>1. h \in [O -> 0..o - 1]
    <3>1. ASSUME NEW i \in O
          PROVE  f[i] \div 2 \in 0..o - 1
      <4>1. f[i] \in 0..n - 1 /\ f[i] % 2 # 0
        BY <1>1 DEF Odd
      <4> QED
        BY <4>1
    <3> QED
      BY <3>1
  <2>2. ASSUME NEW i \in O, NEW j \in O, h[i] = h[j]
        PROVE  i = j
    <3>1. f[i] \in 0..n - 1 /\ f[i] % 2 # 0 /\ f[j] \in 0..n - 1 /\ f[j] % 2 # 0
      BY <1>1 DEF Odd
    <3>2. f[i] \div 2 = f[j] \div 2
      BY <2>2
    <3>3. f[i] = f[j]
      BY <3>1, <3>2
    <3> QED
      BY <1>1, <1>2, <3>3
  <2>3. ASSUME NEW k \in 0..o - 1
        PROVE  \E i \in O : h[i] = k
    <3>1. 2 * k + 1 \in 0..n - 1 /\ (2 * k + 1) % 2 # 0 /\ (2 * k + 1) \div 2 = k
      OBVIOUS
    <3>2. PICK i \in K : f[i] = 2 * k + 1
      BY <1>1, <3>1
    <3>3. i \in O
      BY <3>1, <3>2 DEF Odd
    <3> QED
      BY <3>1, <3>2, <3>3
  <2> QED
    BY <2>1, <2>2, <2>3, Fun_IsBij
<1>7. Cardinality(0..e - 1) = e /\ Cardinality(0..o - 1) = o
  <2>1. Cardinality(0..e - 1) = IF 0 > e - 1 THEN 0 ELSE (e - 1) - 0 + 1
    BY <1>4, FS_Interval
  <2>2. Cardinality(0..o - 1) = IF 0 > o - 1 THEN 0 ELSE (o - 1) - 0 + 1
    BY <1>4, FS_Interval
  <2> QED
    BY <1>4, <2>1, <2>2
<1>8. Cardinality(0..e - 1) = Cardinality(E)
  BY <1>3, <1>5, FS_Bijection DEF ExistsBijection
<1>9. Cardinality(0..o - 1) = Cardinality(O)
  BY <1>3, <1>6, FS_Bijection DEF ExistsBijection
<1> QED
  BY <1>4, <1>7, <1>8, <1>9


-----------------------------------------------------------------------------
(* A pair and its uops in what a cycle issues.                             *)

LEMMA PairsKnown ==
  ASSUME NEW pair \in Pairs
  PROVE  /\ Style # "simple"
         /\ Len(pair) = 2
         /\ pair[1] # pair[2]
         /\ ToSet(pair) = {pair[1], pair[2]}
<1>1. Style # "simple"
  BY DEF Pairs
<1>2. pair \in {<<2, 3>>, <<4, 9>>, <<7, 8>>}
  BY DEF Pairs
<1>3. Len(pair) = 2 /\ DOMAIN pair = 1..2 /\ pair[1] # pair[2]
  BY <1>2
<1>4. ToSet(pair) = {pair[1], pair[2]}
  BY <1>3 DEF ToSet
<1> QED
  BY <1>1, <1>3, <1>4

(* Who is next after some uops of the pair, the uops counted.              *)
LEMMA NextInTurn ==
  ASSUME NEW pair \in Pairs, NEW n \in Nat, next[pair] \in {pair[1], pair[2]}
  PROVE  /\ n % 2 = 0 => InTurn(pair, n) = next[pair]
         /\ n % 2 # 0 => InTurn(pair, n) = IF next[pair] = pair[1] THEN pair[2] ELSE pair[1]
<1>1. ToSet(pair) = {pair[1], pair[2]} /\ pair[1] # pair[2]
  BY PairsKnown
<1>2. (CHOOSE p \in {pair[1], pair[2]} : p # next[pair]) = IF next[pair] = pair[1] THEN pair[2] ELSE pair[1]
  BY <1>1
<1> QED
  BY <1>1, <1>2 DEF InTurn

Alike(uops, pair) == {i \in DOMAIN uops : uops[i].ports = pair}
Given(uops, pair, p) == {i \in DOMAIN uops : uops[i].ports = pair /\ PortOf(uops, i) = p}

(* The uops of a pair get the ports of the pair by their ranks.            *)
LEMMA PortByRank ==
  ASSUME NEW uops \in Seq([slot : Nat, ports : Seq(Nat) \ {<<>>}]), NEW pair \in Pairs,
         NEW i \in Alike(uops, pair)
  PROVE  PortOf(uops, i) = InTurn(pair, Rank(Alike(uops, pair))[i])
<1> DEFINE K == Alike(uops, pair)
<1>1. DOMAIN uops = 1..Len(uops) /\ Len(uops) \in Nat
  BY LenProperties
<1>2. i \in 1..Len(uops) /\ uops[i].ports = pair
  BY <1>1 DEF Alike
<1>3. EarlierAlike(uops, i) = Cardinality(Before(K, i))
  <2>1. ASSUME NEW j PROVE j \in 1..i - 1 <=> j \in 1..Len(uops) /\ j < i
    <3> DEFINE l == Len(uops)
    <3>1. l \in Nat /\ i \in Int /\ i <= l
      BY <1>1, <1>2
    <3> HIDE DEF l
    <3>2. ASSUME j \in 1..i - 1 PROVE j \in 1..l /\ j < i
      BY <3>1, <3>2
    <3>3. ASSUME j \in 1..l, j < i PROVE j \in 1..i - 1
      BY <3>1, <3>3
    <3> QED
      BY <3>2, <3>3 DEF l
  <2>2. {j \in 1..i - 1 : uops[j].ports = uops[i].ports} = {j \in K : j < i}
    BY <1>1, <1>2, <2>1 DEF Alike
  <2>3. {j \in 1..i - 1 : uops[j].ports = uops[i].ports} = Before(K, i)
    BY <2>2 DEF Before
  <2> QED
    BY <2>3 DEF EarlierAlike
<1>4. Rank(K)[i] = Cardinality(Before(K, i))
  BY DEF Rank
<1>5. Len(uops[i].ports) # 1 /\ Style # "simple" /\ uops[i].ports \in Pairs
  BY <1>2, PairsKnown
<1>6. PortOf(uops, i) = InTurn(uops[i].ports, EarlierAlike(uops, i))
  BY <1>5 DEF PortOf
<1> QED
  BY <1>2, <1>3, <1>4, <1>6

(* Of n uops of a pair as many get one port as the other; the odd one out  *)
(* goes to the port that is next.                                          *)
LEMMA Evenly ==
  ASSUME NEW uops \in Seq([slot : Nat, ports : Seq(Nat) \ {<<>>}]), NEW pair \in Pairs,
         next[pair] \in {pair[1], pair[2]}
  PROVE  LET n == Cardinality(Alike(uops, pair))
             first == Cardinality(Given(uops, pair, pair[1]))
             second == Cardinality(Given(uops, pair, pair[2]))
         IN  /\ n \in Nat /\ first \in Nat /\ second \in Nat
             /\ next[pair] = pair[1] => first = second + (n % 2)
             /\ next[pair] # pair[1] => second = first + (n % 2)
<1> DEFINE K == Alike(uops, pair)
           n == Cardinality(K)
           f == Rank(K)
<1>1. DOMAIN uops = 1..Len(uops) /\ Len(uops) \in Nat
  BY LenProperties
<1>2. K \in SUBSET (1..Len(uops))
  BY <1>1 DEF Alike
<1> HIDE DEF K
<1>3. IsFiniteSet(K) /\ n \in Nat /\ f \in Bijection(K, 0..n - 1)
  BY <1>1, <1>2, Ranks
<1> HIDE DEF f
<1>4. /\ Cardinality(Even(K, f)) \in Nat /\ Cardinality(Odd(K, f)) \in Nat
      /\ Cardinality(Even(K, f)) = Cardinality(Odd(K, f)) + (n % 2)
  BY <1>3, Halves
<1>5. pair[1] # pair[2]
  BY PairsKnown
<1>6. ASSUME NEW i \in K
      PROVE  /\ f[i] % 2 = 0 => PortOf(uops, i) = next[pair]
             /\ f[i] % 2 # 0 => PortOf(uops, i) = IF next[pair] = pair[1] THEN pair[2] ELSE pair[1]
  <2>1. f[i] \in Nat
    <3> DEFINE T == 0..n - 1
    <3>1. f \in Bijection(K, T)
      BY <1>3
    <3>2. T \in SUBSET Nat
      BY <1>3
    <3> HIDE DEF T
    <3>3. f \in [K -> T]
      BY <3>1, Fun_BijectionProperties
    <3> QED
      BY <3>2, <3>3
  <2>2. PortOf(uops, i) = InTurn(pair, f[i])
    BY PortByRank DEF K, f
  <2> QED
    BY <2>1, <2>2, NextInTurn
<1>7. /\ Given(uops, pair, pair[1]) = {i \in K : PortOf(uops, i) = pair[1]}
      /\ Given(uops, pair, pair[2]) = {i \in K : PortOf(uops, i) = pair[2]}
  BY DEF Given, Alike, K
<1>8. CASE next[pair] = pair[1]
  <2>1. /\ Given(uops, pair, pair[1]) = Even(K, f)
        /\ Given(uops, pair, pair[2]) = Odd(K, f)
    BY <1>5, <1>6, <1>7, <1>8 DEF Even, Odd
  <2> QED
    BY <1>3, <1>4, <1>8, <2>1 DEF K
<1>9. CASE next[pair] # pair[1]
  <2>1. /\ Given(uops, pair, pair[2]) = Even(K, f)
        /\ Given(uops, pair, pair[1]) = Odd(K, f)
    BY <1>5, <1>6, <1>7, <1>9 DEF Even, Odd
  <2> QED
    BY <1>3, <1>4, <1>9, <2>1 DEF K
<1> QED
  BY <1>8, <1>9

-----------------------------------------------------------------------------
(* The port of a pair that is next and what the pair has been given so far *)
(* belong together.                                                        *)
TurnInv ==
  /\ core \in Cores
  /\ DOMAIN drift = Pairs
  /\ \A pair \in Pairs : /\ next[pair] \in {pair[1], pair[2]}
                         /\ drift[pair] = IF next[pair] = pair[1] THEN 0 ELSE 1

LEMMA TurnInvKept ==
  ASSUME TurnInv, PortNext
  PROVE  TurnInv'
<1>1. PICK uops \in core.groups, dispatched \in MayDispatch : PortCycle(uops, dispatched)
  BY DEF PortNext
<1>2. uops \in Seq([slot : Nat, ports : Seq(Nat) \ {<<>>}])
  BY <1>1, CoresAssumption DEF TurnInv
<1>3. core' = core /\ Pairs' = Pairs
  BY <1>1 DEF PortCycle, Pairs, Style
<1>4. next' = [pair \in Pairs |-> InTurn(pair, Cardinality(Alike(uops, pair)))]
  BY <1>1 DEF PortCycle, Alike
<1>5. drift' = [pair \in Pairs |-> drift[pair] + Cardinality(Given(uops, pair, pair[1]))
                                               - Cardinality(Given(uops, pair, pair[2]))]
  <2> DEFINE ports == [i \in DOMAIN uops |-> PortOf(uops, i)]
             given(pair, p) == Cardinality({i \in DOMAIN uops : uops[i].ports = pair /\ ports[i] = p})
  <2>1. ASSUME NEW pair, NEW p
        PROVE  given(pair, p) = Cardinality(Given(uops, pair, p))
    BY DEF Given
  <2>2. drift' = [pair \in Pairs |-> drift[pair] + given(pair, pair[1]) - given(pair, pair[2])]
    BY <1>1 DEF PortCycle
  <2> HIDE DEF given
  <2> QED
    BY <2>1, <2>2
<1>6. ASSUME NEW pair \in Pairs
      PROVE  /\ next'[pair] \in {pair[1], pair[2]}
             /\ drift'[pair] = IF next'[pair] = pair[1] THEN 0 ELSE 1
  <2> DEFINE n == Cardinality(Alike(uops, pair))
             first == Cardinality(Given(uops, pair, pair[1]))
             second == Cardinality(Given(uops, pair, pair[2]))
  <2>1. /\ next[pair] \in {pair[1], pair[2]}
        /\ drift[pair] = IF next[pair] = pair[1] THEN 0 ELSE 1
        /\ pair[1] # pair[2]
    BY PairsKnown DEF TurnInv
  <2>2. /\ n \in Nat /\ first \in Nat /\ second \in Nat
        /\ next[pair] = pair[1] => first = second + (n % 2)
        /\ next[pair] # pair[1] => second = first + (n % 2)
    BY <1>2, <2>1, Evenly
  <2>3. next'[pair] = InTurn(pair, n) /\ drift'[pair] = drift[pair] + first - second
    BY <1>4, <1>5
  <2> HIDE DEF n, first, second
  <2>4. /\ n % 2 = 0 => next'[pair] = next[pair]
        /\ n % 2 # 0 => next'[pair] = IF next[pair] = pair[1] THEN pair[2] ELSE pair[1]
    BY <2>1, <2>2, <2>3, NextInTurn
  <2>5. n % 2 \in {0, 1}
    BY <2>2
  <2>6. CASE next[pair] = pair[1]
    <3>1. drift'[pair] = n % 2
      BY <2>1, <2>2, <2>3, <2>5, <2>6
    <3> QED
      BY <2>1, <2>4, <2>5, <2>6, <3>1
  <2>7. CASE next[pair] # pair[1]
    <3>1. drift'[pair] = 1 - (n % 2)
      BY <2>1, <2>2, <2>3, <2>5, <2>7
    <3> QED
      BY <2>1, <2>4, <2>5, <2>7, <3>1
  <2> QED
    BY <2>6, <2>7
<1>7. DOMAIN drift' = Pairs
  BY <1>5
<1> QED
  BY <1>3, <1>6, <1>7 DEF TurnInv

(* Uops that may use either port of a pair go to them in turn, over all    *)
(* cycles and however many come in one (the alternators of Scheduler).     *)
THEOREM Turns == PortSpec => []TurnsKept
<1>1. PortInit => TurnInv
  <2> SUFFICES ASSUME PortInit PROVE TurnInv
    OBVIOUS
  <2> QED
    BY DEF PortInit, TurnInv
<1>2. TurnInv /\ [PortNext]_portVars => TurnInv'
  <2> SUFFICES ASSUME TurnInv, [PortNext]_portVars PROVE TurnInv'
    OBVIOUS
  <2>1. CASE PortNext
    BY <2>1, TurnInvKept
  <2>2. CASE UNCHANGED portVars
    <3>1. Pairs' = Pairs
      BY <2>2 DEF portVars, Pairs, Style
    <3> QED
      BY <2>2, <3>1 DEF portVars, TurnInv
  <2> QED
    BY <2>1, <2>2
<1>3. TurnInv => TurnsKept
  BY DEF TurnInv, TurnsKept
<1> QED
  BY <1>1, <1>2, <1>3, PTL DEF PortSpec
=============================================================================
