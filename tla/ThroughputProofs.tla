--------------------------- MODULE ThroughputProofs ---------------------------
(***************************************************************************)
(* The throughput is measured over complete rounds, and the report adds up *)
(* to what the bottlenecks count, for every block and every retirement.    *)
(*                                                                         *)
(* The inductive invariant: the log holds the first uops, each at its      *)
(* index, and the place of a uop in its cycle together with the uops that  *)
(* retired before that cycle is the number of uops before it.              *)
(***************************************************************************)
EXTENDS Throughput, Inductions

\* What has retired before each of the first n cycles.
Steps(cum, n) ==
  /\ cum \in [0..n -> Nat] /\ cum[0] = 0
  /\ \A c \in 0..n - 1 : cum[c + 1] = cum[c] + pattern[(c % Len(pattern)) + 1]

Entries == [uop : Nat, retired : Nat, place : Nat]
Logs == Seq(Seq(Entries))

\* The log holds the first m uops.
Holding(log, m) ==
  /\ log \in Logs
  /\ Len(log) = IF m = 0 THEN 0 ELSE RoundOf(m) + 1
  /\ \A r \in DOMAIN log : Len(log[r]) = IF r * N <= m THEN N ELSE m - (r - 1) * N

\* An entry, that of uop k, is where it should be.
Placed(e, k, j, cum, n) ==
  /\ e.uop = k /\ e.retired \in 0..n - 1
  /\ cum[e.retired] + e.place = j - 1 /\ j - 1 < cum[e.retired + 1]

Timed(log, cum, n) ==
  \A r \in DOMAIN log : \A k \in DOMAIN log[r] : Placed(log[r][k], k, (r - 1) * N + k, cum, n)

Given ==
  /\ block \in SimulatedBlocks /\ pattern \in Patterns /\ minIterations \in MinIterations /\ minCycles \in MinCycles
  /\ clock \in Nat /\ retired \in Nat /\ rnd \in Nat /\ ended \in BOOLEAN

Bounded == clock <= minCycles + MoreCycles + 1 /\ (~ended => clock <= minCycles + MoreCycles)

Counted == \E n \in {clock, clock + 1} : \E cum \in [0..n -> Nat] :
  /\ Steps(cum, n) /\ cum[n] = retired /\ Holding(uopsForRound, retired) /\ Timed(uopsForRound, cum, n)
  /\ ~ended => n = clock

RoundKnown == rnd = IF retired = 0 THEN 0 ELSE RoundOf(retired)

IInv == Given /\ Bounded /\ Counted /\ RoundKnown

-------------------------------------------------------------------------------
LEMMA Facts ==
  ASSUME Given
  PROVE  /\ block.uops \in Seq([instr : 1..block.length, kind : Kinds, port : [1..2 -> STRING], div : Nat])
         /\ N \in Nat \ {0} /\ DOMAIN block.uops = 1..N
         /\ pattern \in [1..Len(pattern) -> 0..RetireWidth] /\ Len(pattern) \in Nat \ {0}
         /\ \E k \in DOMAIN pattern : pattern[k] > 0
         /\ RetireWidth \in Nat /\ minIterations \in Nat /\ minCycles \in Nat /\ MoreCycles \in Nat
         /\ Batch \in 0..RetireWidth
         /\ LastApplicable \in 1..block.length
<1>1. block.uops \in Seq([instr : 1..block.length, kind : Kinds, port : [1..2 -> STRING], div : Nat])
  BY BlockAssumption DEF Given
<1>2. N \in Nat /\ DOMAIN block.uops = 1..N
  BY <1>1 DEF N
<1>3. LastApplicable \in 1..block.length
  <2>1. block.length \in Nat \ {0} /\ block.fused \in BOOLEAN /\ (block.fused => block.length > 1)
    BY BlockAssumption DEF Given
  <2> QED
    BY <2>1 DEF LastApplicable
<1>4. N # 0
  <2>1. \E u \in Range(block.uops) : TRUE
    <3>1. {u.instr : u \in {x \in Range(block.uops) : x.kind = "own"}} = 1..LastApplicable
      BY BlockAssumption DEF Given, LastApplicable
    <3> QED
      BY <1>3, <3>1
  <2> QED
    BY <1>2, <2>1 DEF Range
<1>5. pattern \in Seq(0..RetireWidth) /\ \E k \in DOMAIN pattern : pattern[k] > 0
  BY PatternAssumption DEF Given
<1>6. RetireWidth \in Nat /\ minIterations \in Nat /\ minCycles \in Nat /\ MoreCycles \in Nat
  BY OptionAssumption DEF Given
<1>7. pattern \in [1..Len(pattern) -> 0..RetireWidth] /\ Len(pattern) \in Nat \ {0}
  <2>1. pattern \in [1..Len(pattern) -> 0..RetireWidth] /\ Len(pattern) \in Nat
    BY <1>5, LenProperties
  <2>2. DOMAIN pattern # {}
    BY <1>5
  <2> QED
    BY <2>1, <2>2
<1>8. Batch \in 0..RetireWidth
  <2>1. clock % Len(pattern) \in 0..Len(pattern) - 1
    BY <1>7, Division DEF Given
  <2>2. (clock % Len(pattern)) + 1 \in 1..Len(pattern)
    BY <1>7, <2>1
  <2> QED
    BY <1>7, <2>2 DEF Batch
<1> QED
  BY <1>1, <1>2, <1>3, <1>4, <1>5, <1>6, <1>7, <1>8

-------------------------------------------------------------------------------
(* The log.                                                                *)

LEMMA LogFacts ==
  ASSUME NEW log \in Logs
  PROVE  /\ Len(log) \in Nat /\ DOMAIN log = 1..Len(log)
         /\ \A r \in 1..Len(log) : /\ log[r] \in Seq(Entries) /\ Len(log[r]) \in Nat
                                   /\ DOMAIN log[r] = 1..Len(log[r])
BY DEF Logs

\* One more uop is logged where it belongs.
LEMMA LoggedHolds ==
  ASSUME Given, NEW m \in Nat, NEW log, Holding(log, m), NEW place \in Nat,
         NEW n \in Nat, NEW cum \in [0..n -> Nat], Timed(log, cum, n),
         clock \in 0..n - 1, cum[clock] + place = m, m < cum[clock + 1]
  PROVE  Holding(Logged(log, m + 1, place), m + 1) /\ Timed(Logged(log, m + 1, place), cum, n)
<1> DEFINE q == m \div N
           k == (m % N) + 1
           r == q + 1
           e == [uop |-> k, retired |-> clock, place |-> place]
           new == Logged(log, m + 1, place)
           long == IF Len(log) < r THEN log \o [j \in 1..r - Len(log) |-> <<>>] ELSE log
<1>0. N \in Nat \ {0} /\ clock \in Nat
  BY Facts DEF Given
<1>1. q \in Nat /\ k \in 1..N /\ m = N * q + k - 1 /\ r \in Nat \ {0}
  <2>1. q \in Nat /\ m % N \in 0..N - 1 /\ m = (N * q) + (m % N)
    BY <1>0, Division
  <2> HIDE DEF q
  <2>2. N * q \in Nat
    BY <1>0, <2>1
  <2> QED
    BY <1>0, <2>1, <2>2
<1>a. q \in Nat /\ k \in Nat \ {0} /\ r = q + 1 /\ r \in Nat \ {0}
  BY <1>0, <1>1
<1>2. (m + 1) - 1 = m
  OBVIOUS
<1>3. RoundOf(m + 1) = q /\ UopOf(m + 1) = k
  BY <1>2 DEF RoundOf, UopOf
<1>4. new = [long EXCEPT ![r] = Append(@, e)]
  BY <1>3 DEF Logged
<1> HIDE DEF q, k, new
<1>5. e \in Entries
  BY <1>0, <1>1 DEF Entries
<1>6. log \in Logs /\ Len(log) = IF m = 0 THEN 0 ELSE RoundOf(m) + 1
  BY DEF Holding
<1>7. Len(log) = IF k = 1 THEN q ELSE r
  <2>1. CASE k > 1
    <3>1. m - 1 = N * q + (k - 2) /\ k - 2 \in 0..N - 1 /\ m # 0
      BY <1>0, <1>1, <2>1
    <3>2. (N * q + (k - 2)) \div N = q
      BY <1>0, <1>1, <3>1, Quotient
    <3> QED
      BY <1>6, <2>1, <3>1, <3>2 DEF RoundOf
  <2>2. CASE k = 1 /\ q = 0
    <3>1. m = 0
      BY <1>0, <1>1, <2>2
    <3> QED
      BY <1>6, <2>2, <3>1
  <2>3. CASE k = 1 /\ q > 0
    <3>0. q - 1 \in Nat /\ N - 1 \in 0..N - 1
      BY <1>0, <1>1, <2>3
    <3>1. m - 1 = N * (q - 1) + (N - 1) /\ m # 0
      BY <1>0, <1>1, <2>3, <3>0
    <3>2. (N * (q - 1) + (N - 1)) \div N = q - 1
      BY <1>0, <3>0, Quotient
    <3> QED
      BY <1>6, <1>1, <2>3, <3>1, <3>2 DEF RoundOf
  <2> QED
    BY <1>1, <2>1, <2>2, <2>3
<1>8. long \in Logs /\ Len(long) = r /\ (\A x \in 1..Len(log) : long[x] = log[x])
      /\ (k = 1 => long[r] = <<>>)
  <2>1. CASE k > 1
    <3>1. ~(Len(log) < r) /\ Len(log) = r
      BY <1>1, <1>7, <2>1
    <3>2. long = log
      BY <3>1
    <3> QED
      BY <1>6, <2>1, <3>1, <3>2
  <2>2. CASE k = 1
    <3> DEFINE more == [j \in 1..1 |-> <<>>]
    <3>1. Len(log) = q /\ r - Len(log) = 1 /\ Len(log) < r
      BY <1>1, <1>7, <2>2
    <3>2. long = log \o more
      BY <3>1
    <3>3. more \in Seq(Seq(Entries)) /\ Len(more) = 1 /\ more[1] = <<>>
      OBVIOUS
    <3>4. log \in Seq(Seq(Entries))
      BY <1>6 DEF Logs
    <3> HIDE DEF more, long
    <3>5. long \in Seq(Seq(Entries)) /\ Len(long) = q + 1
      <4>1. long \in Seq(Seq(Entries)) /\ Len(long) = Len(log) + Len(more)
        BY <3>2, <3>3, <3>4, ConcatProperties
      <4> QED
        BY <3>1, <3>3, <4>1
    <3>6. \A x \in 1..Len(log) + Len(more) : long[x] = IF x <= Len(log) THEN log[x] ELSE more[x - Len(log)]
      BY <3>2, <3>3, <3>4, ConcatProperties
    <3>7. long[r] = more[1]
      <4>1. r \in 1..Len(log) + Len(more) /\ ~(r <= Len(log)) /\ r - Len(log) = 1
        BY <3>1, <3>3, <1>a
      <4> HIDE DEF r
      <4> QED
        BY <3>6, <4>1
    <3>8. \A x \in 1..Len(log) : long[x] = log[x]
      BY <3>1, <3>3, <3>6, <1>a
    <3> QED
      BY <3>3, <3>5, <3>7, <3>8, <1>a DEF Logs
  <2> QED
    BY <1>1, <2>1, <2>2
<1> HIDE DEF long, e
<1>9. new \in Logs /\ Len(new) = r /\ new[r] = Append(long[r], e)
      /\ \A x \in 1..r : x # r => new[x] = long[x]
  <2>1. long \in Seq(Seq(Entries)) /\ r \in DOMAIN long
    BY <1>1, <1>8 DEF Logs
  <2>2. long[r] \in Seq(Entries)
    BY <2>1
  <2>3. Append(long[r], e) \in Seq(Entries)
    BY <1>5, <2>2
  <2>4. new \in Seq(Seq(Entries)) /\ Len(new) = Len(long)
    <3> DEFINE S == Seq(Entries)  v == Append(long[r], e)
    <3>1. long \in Seq(S) /\ r \in 1..Len(long) /\ v \in S
      BY <2>1, <2>3
    <3>2. new = [long EXCEPT ![r] = v]
      BY <1>4
    <3> HIDE DEF S, v
    <3>3. [long EXCEPT ![r] = v] \in Seq(S) /\ Len([long EXCEPT ![r] = v]) = Len(long)
      BY <3>1, ExceptSeq
    <3>4. new \in Seq(S) /\ Len(new) = Len(long)
      BY <3>2, <3>3, Zenon
    <3> QED
      BY <3>4 DEF S
  <2>5. new[r] = Append(long[r], e) /\ \A x \in DOMAIN long : x # r => new[x] = long[x]
    BY <1>4, <2>1
  <2>6. DOMAIN long = 1..r
    BY <1>8, <2>1
  <2> QED
    BY <1>8, <2>4, <2>5, <2>6 DEF Logs
<1>10. \A x \in 1..r : x # r => x \in 1..Len(log) /\ new[x] = log[x]
  BY <1>a, <1>7, <1>8, <1>9
<1>11. \A x \in 1..r : x # r => x * N <= m
  <2> TAKE x \in 1..r
  <2> HAVE x # r
  <2>1. x \in Nat /\ q - x \in Nat
    BY <1>1
  <2>2. (q - x) * N >= 0
    BY <1>0, <2>1
  <2>3. N * q = x * N + (q - x) * N
    BY <1>0, <1>1, <2>1
  <2>4. x * N \in Nat /\ (q - x) * N \in Nat
    BY <1>0, <2>1
  <2> QED
    BY <1>1, <2>2, <2>3, <2>4
<1>12. (r - 1) * N = N * q /\ r * N = N * q + N
  BY <1>0, <1>1
<1>13. Len(long[r]) = k - 1 /\ long[r] \in Seq(Entries)
  <2>1. long[r] \in Seq(Entries)
    BY <1>1, <1>8 DEF Logs
  <2>2. CASE k = 1
    BY <1>8, <2>1, <2>2
  <2>3. CASE k > 1
    <3>1. r \in DOMAIN log /\ long[r] = log[r]
      <4>1. Len(log) = r /\ r \in 1..Len(log)
        BY <1>a, <1>7, <2>3
      <4>2. DOMAIN log = 1..Len(log)
        BY <1>6, LogFacts
      <4> HIDE DEF r
      <4> QED
        BY <1>8, <4>1, <4>2
    <3>2. Len(log[r]) = IF r * N <= m THEN N ELSE m - (r - 1) * N
      BY <3>1 DEF Holding
    <3>3. ~(r * N <= m) /\ m - (r - 1) * N = k - 1
      BY <1>0, <1>1, <1>12
    <3> QED
      BY <2>1, <3>1, <3>2, <3>3
  <2> QED
    BY <1>1, <2>2, <2>3
<1>14. Len(new[r]) = k /\ new[r][k] = e /\ \A y \in 1..k - 1 : new[r][y] = long[r][y]
  <2> HIDE DEF new
  <2>1. \A y \in 1..k - 1 : Append(long[r], e)[y] = long[r][y]
    <3>1. \A y \in 1..Len(long[r]) : Append(long[r], e)[y] = long[r][y]
      BY <1>5, <1>13, AppendProperties
    <3> QED
      BY <1>13, <3>1
  <2>2. Len(Append(long[r], e)) = k /\ Append(long[r], e)[k] = e
    <3>1. Len(Append(long[r], e)) = Len(long[r]) + 1 /\ Append(long[r], e)[Len(long[r]) + 1] = e
      BY <1>5, <1>13, AppendProperties
    <3>2. Len(long[r]) + 1 = k
      BY <1>a, <1>13
    <3> QED
      BY <3>1, <3>2
  <2> QED
    BY <1>9, <2>1, <2>2
<1>15. Holding(new, m + 1)
  <2>1. Len(new) = IF m + 1 = 0 THEN 0 ELSE RoundOf(m + 1) + 1
    BY <1>a, <1>3, <1>9
  <2>2. ASSUME NEW x \in 1..r
        PROVE  Len(new[x]) = IF x * N <= m + 1 THEN N ELSE (m + 1) - (x - 1) * N
    <3>1. CASE x = r
      <4>1. r * N <= m + 1 <=> k = N
        BY <1>0, <1>1, <1>12
      <4>2. (m + 1) - (r - 1) * N = k
        BY <1>0, <1>1, <1>12
      <4> QED
        BY <1>14, <3>1, <4>1, <4>2
    <3>2. CASE x # r
      <4>1. x * N <= m /\ new[x] = log[x] /\ x \in DOMAIN log
        BY <1>6, <1>10, <1>11, <3>2, LogFacts
      <4>2. Len(log[x]) = N
        BY <4>1 DEF Holding
      <4>3. x * N \in Nat
        BY <1>0
      <4> QED
        BY <4>1, <4>2, <4>3
    <3> QED
      BY <3>1, <3>2
  <2>3. DOMAIN new = 1..r
    BY <1>a, <1>9, LogFacts
  <2> HIDE DEF new
  <2> QED
    BY <1>9, <2>1, <2>2, <2>3 DEF Holding
<1>16. Timed(new, cum, n)
  <2> SUFFICES ASSUME NEW x \in DOMAIN new, NEW y \in DOMAIN new[x]
               PROVE  Placed(new[x][y], y, (x - 1) * N + y, cum, n)
    BY DEF Timed
  <2>0. x \in 1..r
    BY <1>a, <1>9, LogFacts
  <2>1. CASE x # r
    <3>1. new[x] = log[x] /\ x \in DOMAIN log
      BY <1>6, <1>10, <2>0, <2>1, LogFacts
    <3> HIDE DEF new
    <3> QED
      BY <3>1 DEF Timed
  <2>2. CASE x = r
    <3>1. y \in 1..k
      <4>1. new[r] \in Seq(Entries)
        <5>1. r \in 1..Len(new)
          BY <1>9, <1>a
        <5> HIDE DEF new, r
        <5> QED
          BY <1>9, <5>1, LogFacts
      <4> HIDE DEF new
      <4> QED
        BY <1>14, <2>2, <4>1
    <3>2. CASE y = k
      <4>1. (x - 1) * N + y = m + 1
        BY <1>0, <1>1, <1>12, <2>2, <3>2
      <4>2. new[x][y] = e
        BY <1>14, <2>2, <3>2
      <4>3. Placed(e, k, m + 1, cum, n)
        BY <1>1 DEF Placed, e
      <4> HIDE DEF new
      <4> QED
        BY <3>2, <4>1, <4>2, <4>3
    <3>3. CASE y # k
      <4>1. y \in 1..k - 1 /\ k > 1
        BY <1>1, <3>1, <3>3
      <4>2. r \in DOMAIN log /\ long[r] = log[r]
        BY <1>a, <1>6, <1>7, <1>8, <4>1, LogFacts
      <4>3. new[x][y] = log[r][y] /\ y \in DOMAIN log[r]
        <5>1. Len(log[r]) = k - 1 /\ log[r] \in Seq(Entries)
          BY <1>13, <4>2
        <5> HIDE DEF new
        <5> QED
          BY <1>14, <2>2, <4>1, <4>2, <5>1
      <4> HIDE DEF new
      <4> QED
        BY <2>2, <4>2, <4>3 DEF Timed
    <3> QED
      BY <3>2, <3>3
  <2> QED
    BY <2>1, <2>2
<1> QED
  BY <1>15, <1>16 DEF new

LEMMA LoggedIsLog ==
  ASSUME Given, NEW log \in Logs, NEW k \in Nat \ {0}, NEW place \in Nat
  PROVE  Logged(log, k, place) \in Logs
<1> DEFINE r == RoundOf(k) + 1
           e == [uop |-> UopOf(k), retired |-> clock, place |-> place]
           more == [j \in 1..r - Len(log) |-> <<>>]
           long == IF Len(log) < r THEN log \o more ELSE log
<1>1. N \in Nat \ {0} /\ clock \in Nat /\ k - 1 \in Nat
  BY Facts DEF Given
<1>2. (k - 1) \div N \in Nat /\ (k - 1) % N \in 0..N - 1
  BY <1>1, Division
<1>3. r \in Nat \ {0} /\ UopOf(k) \in Nat
  BY <1>1, <1>2 DEF RoundOf, UopOf
<1>4. e \in Entries
  BY <1>1, <1>3 DEF Entries
<1>5. Logged(log, k, place) = [long EXCEPT ![r] = Append(@, e)]
  BY DEF Logged
<1> HIDE DEF r, e
<1>6. log \in Seq(Seq(Entries)) /\ Len(log) \in Nat
  BY LogFacts DEF Logs
<1>7. long \in Seq(Seq(Entries)) /\ r \in 1..Len(long)
  <2>1. CASE Len(log) < r
    <3>1. r - Len(log) \in Nat /\ more \in Seq(Seq(Entries)) /\ Len(more) = r - Len(log)
      BY <1>3, <1>6, <2>1
    <3>2. log \o more \in Seq(Seq(Entries)) /\ Len(log \o more) = Len(log) + Len(more)
      <4> HIDE DEF more
      <4> QED
        BY <1>6, <3>1, ConcatProperties
    <3>3. long = log \o more
      BY <2>1
    <3> HIDE DEF long, more
    <3> QED
      BY <1>3, <1>6, <3>1, <3>2, <3>3
  <2>2. CASE ~(Len(log) < r)
    <3>1. long = log
      BY <2>2
    <3> HIDE DEF long
    <3> QED
      BY <1>3, <1>6, <2>2, <3>1
  <2> QED
    BY <2>1, <2>2
<1> HIDE DEF long
<1>8. long[r] \in Seq(Entries)
  BY <1>7
<1>9. Append(long[r], e) \in Seq(Entries)
  BY <1>4, <1>8
<1> QED
  BY <1>5, <1>7, <1>9 DEF Logs

\* All the uops of a cycle are logged.
LEMMA BatchLogged ==
  ASSUME Given, NEW n \in Nat, n = clock + 1, NEW cum \in [0..n -> Nat],
         cum[clock] = retired, cum[n] = retired + Batch,
         Holding(uopsForRound, retired), Timed(uopsForRound, cum, n)
  PROVE  Holding(LogOfCycle, retired + Batch) /\ Timed(LogOfCycle, cum, n)
<1> DEFINE B == 1..Batch
           seq == [j \in 1..Batch |-> j]
           g == [x \in Logs \X B |-> Logged(x[1], retired + x[2], x[2] - 1)]
           Works(it) == it = [s \in SUBSET (1..Batch) |->
                         IF s = {} THEN uopsForRound
                         ELSE Logged(it[s \ {Max(s)}], retired + seq[Max(s)], seq[Max(s)] - 1)]
<1>1. Batch \in Nat /\ retired \in Nat /\ clock \in 0..n - 1
  BY Facts DEF Given
<1>2. g \in [Logs \X B -> Logs] /\ seq \in [1..Batch -> B] /\ uopsForRound \in Logs
  <2>1. ASSUME NEW l \in Logs, NEW j \in B PROVE Logged(l, retired + j, j - 1) \in Logs
    <3>1. retired + j \in Nat \ {0} /\ j - 1 \in Nat
      BY <1>1
    <3> QED
      BY <3>1, LoggedIsLog
  <2> QED
    BY <2>1 DEF Holding
<1>3. DOMAIN seq = 1..Batch
  OBVIOUS
<1>4. LogOfCycle = (CHOOSE it : Works(it))[1..Batch]
  BY <1>3 DEF LogOfCycle, FoldLeft, MapThenFoldSet
<1>5. PICK h \in [SUBSET (1..Batch) -> Logs] : FoldEquation(h, g, uopsForRound, seq, Batch)
  <2> HIDE DEF g, seq, B
  <2> QED
    BY <1>1, <1>2, FoldIsDefined
<1>6. \A s \in SUBSET (1..Batch) : s # {} => Max(s) \in 1..Batch
  <2> TAKE s \in SUBSET (1..Batch)
  <2> HAVE s # {}
  <2>1. s \in SUBSET (0..Batch)
    OBVIOUS
  <2>2. Max(s) \in s
    BY <1>1, <2>1, MaxIs
  <2> QED
    BY <2>2
<1>7. Works(h)
  <2> DEFINE F == [s \in SUBSET (1..Batch) |->
                   IF s = {} THEN uopsForRound
                   ELSE Logged(h[s \ {Max(s)}], retired + seq[Max(s)], seq[Max(s)] - 1)]
  <2>1. ASSUME NEW s \in SUBSET (1..Batch) PROVE h[s] = F[s]
    <3>1. h[s] = IF s = {} THEN uopsForRound ELSE g[<<h[s \ {Max(s)}], seq[Max(s)]>>]
      BY <1>5 DEF FoldEquation
    <3>2. CASE s # {}
      <4>1. h[s \ {Max(s)}] \in Logs
        BY <1>5
      <4>2. seq[Max(s)] \in B
        BY <1>2, <1>6, <3>2
      <4> HIDE DEF seq
      <4> QED
        BY <3>1, <3>2, <4>1, <4>2
    <3> QED
      BY <3>1, <3>2
  <2>2. h = F
    BY <2>1
  <2> HIDE DEF seq
  <2> QED
    BY <2>2
<1> DEFINE it == CHOOSE it : Works(it)
<1>8. Works(it)
  <2> HIDE DEF Works
  <2> QED
    BY <1>7
<1>9. it[1..0] = uopsForRound
  <2>1. 1..0 = {}
    OBVIOUS
  <2> HIDE DEF it, seq
  <2> QED
    BY <1>8, <2>1
<1>10. \A k \in 1..Batch : it[1..k] = Logged(it[1..k - 1], retired + k, k - 1)
  <2> TAKE k \in 1..Batch
  <2>1. Max(1..k) = k /\ (1..k) \ {Max(1..k)} = 1..k - 1 /\ 1..k # {}
    <3>1. k \in Nat \ {0}
      OBVIOUS
    <3> QED
      BY <3>1, PrefixMax
  <2>2. 1..k \in SUBSET (1..Batch)
    BY <1>1
  <2>3. seq[k] = k
    OBVIOUS
  <2> HIDE DEF it, seq
  <2>4. it[1..k] = Logged(it[(1..k) \ {Max(1..k)}], retired + seq[Max(1..k)], seq[Max(1..k)] - 1)
    BY <1>8, <2>1, <2>2
  <2> QED
    BY <2>1, <2>3, <2>4
<1> DEFINE S == {k \in 0..Batch : Holding(it[1..k], retired + k) /\ Timed(it[1..k], cum, n)}
<1> HIDE DEF it
<1>11. 0 \in S
  BY <1>1, <1>9
<1>12. \A k \in 0..Batch : k < Batch /\ k \in S => k + 1 \in S
  <2> TAKE k \in 0..Batch
  <2> HAVE k < Batch /\ k \in S
  <2> DEFINE m == retired + k
  <2>1. k + 1 \in 1..Batch /\ (k + 1) - 1 = k /\ m + 1 = retired + (k + 1) /\ m \in Nat /\ k \in Nat
    BY <1>1
  <2>2. cum[clock] + k = m /\ m < cum[clock + 1]
    BY <1>1
  <2>3. it[1..k + 1] = Logged(it[1..k], m + 1, k)
    BY <1>10, <2>1
  <2>4. Holding(it[1..k], m) /\ Timed(it[1..k], cum, n)
    OBVIOUS
  <2> HIDE DEF m
  <2> DEFINE l == it[1..k]
  <2>5. Holding(Logged(l, m + 1, k), m + 1) /\ Timed(Logged(l, m + 1, k), cum, n)
    <3>1. Holding(l, m) /\ Timed(l, cum, n)
      BY <2>4
    <3> HIDE DEF l
    <3> QED
      BY <1>1, <2>1, <2>2, <3>1, LoggedHolds
  <2>6. Holding(it[1..k + 1], m + 1) /\ Timed(it[1..k + 1], cum, n)
    BY <2>3, <2>5
  <2> QED
    BY <2>1, <2>6
<1>13. \A k \in 0..Batch : k \in S
  <2> HIDE DEF S
  <2> QED
    BY <1>1, <1>11, <1>12, UpTo
<1>14. Holding(it[1..Batch], retired + Batch) /\ Timed(it[1..Batch], cum, n)
  BY <1>1, <1>13
<1> HIDE DEF seq
<1> QED
  BY <1>4, <1>14 DEF it

-------------------------------------------------------------------------------
(* The invariant.                                                          *)

LEMMA InitInv == Init => IInv
<1> SUFFICES ASSUME Init PROVE IInv
  OBVIOUS
<1>1. Given
  BY DEF Init, Given
<1>2. Bounded /\ RoundKnown
  BY <1>1, Facts DEF Init, Bounded, RoundKnown
<1>3. Counted
  <2> DEFINE cum == [c \in 0..0 |-> 0]
  <2>1. Steps(cum, 0)
    BY DEF Steps
  <2>2. uopsForRound = <<>> /\ retired = 0 /\ clock = 0
    BY DEF Init
  <2>3. Holding(uopsForRound, retired) /\ Timed(uopsForRound, cum, 0)
    BY <2>2 DEF Holding, Timed, Logs
  <2>4. cum \in [0..0 -> Nat] /\ cum[0] = retired
    BY <2>2
  <2> HIDE DEF cum
  <2> QED
    BY <2>1, <2>2, <2>3, <2>4 DEF Counted
<1> QED
  BY <1>1, <1>2, <1>3 DEF IInv

LEMMA CycleInv ==
  ASSUME IInv, Cycle
  PROVE  IInv'
<1>1. Given /\ Bounded /\ Counted /\ RoundKnown /\ ~ended /\ UNCHANGED given
  BY DEF IInv, Cycle
<1>2. clock \in Nat /\ retired \in Nat /\ rnd \in Nat /\ Batch \in Nat /\ N \in Nat \ {0}
      /\ minCycles \in Nat /\ MoreCycles \in Nat
  BY <1>1, Facts DEF Given
<1>3. retired' = retired + Batch /\ retired' \in Nat
      /\ rnd' = (IF Batch > 0 THEN RoundOf(retired + Batch) ELSE rnd)
      /\ ended' = (Finished(rnd') \/ clock >= minCycles + MoreCycles)
      /\ clock' = (IF Finished(rnd') THEN clock ELSE clock + 1)
      /\ uopsForRound' = LogOfCycle
  BY <1>2 DEF Cycle
<1>4. block' = block /\ pattern' = pattern /\ minIterations' = minIterations /\ minCycles' = minCycles
  BY <1>1 DEF given
<1>5. N' = N /\ \A m : RoundOf(m)' = RoundOf(m)
  BY <1>4 DEF N, RoundOf
<1>6. rnd' \in Nat /\ RoundKnown'
  <2>1. CASE Batch > 0
    <3>1. (retired + Batch) - 1 \in Nat /\ retired + Batch # 0
      BY <1>2, <2>1
    <3>2. RoundOf(retired + Batch) \in Nat
      BY <1>2, <3>1, Division DEF RoundOf
    <3> QED
      BY <1>3, <1>5, <2>1, <3>1, <3>2 DEF RoundKnown, RoundOf
  <2>2. CASE ~(Batch > 0)
    <3>1. retired' = retired /\ rnd' = rnd
      BY <1>2, <1>3, <2>2
    <3> QED
      BY <1>1, <1>2, <1>5, <3>1 DEF RoundKnown, RoundOf
  <2> QED
    BY <2>1, <2>2
<1>7. Given'
  BY <1>1, <1>2, <1>3, <1>4, <1>6 DEF Given
<1>8. Bounded'
  <2>1. clock <= minCycles + MoreCycles
    BY <1>1 DEF Bounded
  <2>2. clock' \in {clock, clock + 1} /\ (~ended' => clock' = clock + 1 /\ ~(clock >= minCycles + MoreCycles))
    BY <1>3
  <2>3. clock' <= minCycles + MoreCycles + 1 /\ (~ended' => clock' <= minCycles + MoreCycles)
    BY <1>2, <2>1, <2>2
  <2> QED
    BY <1>4, <2>3 DEF Bounded
<1>9. PICK cum \in [0..clock -> Nat] :
        /\ Steps(cum, clock) /\ cum[clock] = retired
        /\ Holding(uopsForRound, retired) /\ Timed(uopsForRound, cum, clock)
  BY <1>1 DEF Counted
<1>10. PICK n \in Nat : n = clock + 1
  BY <1>2
<1>11. PICK more \in [0..n -> Nat] : more[n] = retired + Batch /\ \A c \in 0..clock : more[c] = cum[c]
  <2> DEFINE f == [c \in 0..n |-> IF c = n THEN retired + Batch ELSE cum[c]]
  <2>1. f \in [0..n -> Nat] /\ f[n] = retired + Batch /\ \A c \in 0..clock : f[c] = cum[c]
    BY <1>2, <1>9, <1>10
  <2> HIDE DEF f
  <2> QED
    BY <2>1
<1>a. clock \in 0..n - 1
  BY <1>2, <1>10
<1>12. more[clock] = retired
  BY <1>2, <1>9, <1>11
<1>13. Timed(uopsForRound, more, n)
  <2> SUFFICES ASSUME NEW r \in DOMAIN uopsForRound, NEW k \in DOMAIN uopsForRound[r]
               PROVE  Placed(uopsForRound[r][k], k, (r - 1) * N + k, more, n)
    BY DEF Timed
  <2> DEFINE e == uopsForRound[r][k]
             j == (r - 1) * N + k
  <2>1. Placed(e, k, j, cum, clock)
    BY <1>9 DEF Timed
  <2> HIDE DEF e, j
  <2>2. e.retired \in 0..clock - 1
    BY <2>1 DEF Placed
  <2>3. more[e.retired] = cum[e.retired] /\ more[e.retired + 1] = cum[e.retired + 1] /\ e.retired \in 0..n - 1
    BY <1>2, <1>10, <1>11, <2>2
  <2>4. Placed(e, k, j, more, n)
    BY <2>1, <2>3 DEF Placed
  <2> QED
    BY <2>4 DEF e, j
<1>14. Holding(LogOfCycle, retired + Batch) /\ Timed(LogOfCycle, more, n)
  BY <1>1, <1>9, <1>10, <1>a, <1>11, <1>12, <1>13, BatchLogged
<1>15. Steps(more, n)
  <2>1. more[0] = 0
    BY <1>2, <1>9, <1>11 DEF Steps
  <2>2. ASSUME NEW c \in 0..n - 1 PROVE more[c + 1] = more[c] + pattern[(c % Len(pattern)) + 1]
    <3>1. CASE c = clock
      BY <1>10, <1>11, <1>12, <3>1 DEF Batch
    <3>2. CASE c # clock
      <4>1. c \in 0..clock - 1 /\ c \in 0..clock /\ c + 1 \in 0..clock
        BY <1>2, <1>10, <3>2
      <4> QED
        BY <1>9, <1>11, <4>1 DEF Steps
    <3> QED
      BY <3>1, <3>2
  <2> QED
    BY <1>11, <2>1, <2>2 DEF Steps
<1>16. Counted'
  <2>1. Steps(more, n)'
    BY <1>4, <1>15 DEF Steps
  <2>2. (more[n] = retired)'
    BY <1>3, <1>11
  <2>3. Holding(uopsForRound, retired)'
    BY <1>3, <1>5, <1>14 DEF Holding
  <2>4. Timed(uopsForRound, more, n)'
    BY <1>3, <1>5, <1>14 DEF Timed, Placed
  <2>5. n \in {clock', clock' + 1} /\ (~ended' => n = clock')
    BY <1>2, <1>3, <1>10
  <2> QED
    BY <2>1, <2>2, <2>3, <2>4, <2>5 DEF Counted
<1> QED
  BY <1>6, <1>7, <1>8, <1>16 DEF IInv

(* For every block, pattern of retirement and limits of the run loop: the  *)
(* log drain_retire_queue keeps holds the first uops, in order, each with  *)
(* the cycle it retired in and its place in that cycle.                    *)
THEOREM LogSound == Spec => []IInv
<1>1. ASSUME IInv, UNCHANGED vars PROVE IInv'
  <2>1. /\ block' = block /\ pattern' = pattern /\ minIterations' = minIterations /\ minCycles' = minCycles
        /\ clock' = clock /\ retired' = retired /\ rnd' = rnd /\ uopsForRound' = uopsForRound /\ ended' = ended
    BY <1>1 DEF vars
  <2>2. Given' /\ Bounded' /\ RoundKnown'
    BY <1>1, <2>1 DEF IInv, Given, Bounded, RoundKnown, N, RoundOf
  <2>3. Counted'
    <3>1. PICK n \in {clock, clock + 1} : \E cum \in [0..n -> Nat] :
            /\ Steps(cum, n) /\ cum[n] = retired /\ Holding(uopsForRound, retired) /\ Timed(uopsForRound, cum, n)
            /\ ~ended => n = clock
      BY <1>1 DEF IInv, Counted
    <3>2. PICK cum \in [0..n -> Nat] :
            /\ Steps(cum, n) /\ cum[n] = retired /\ Holding(uopsForRound, retired) /\ Timed(uopsForRound, cum, n)
            /\ ~ended => n = clock
      BY <3>1
    <3>3. N' = N /\ \A m : RoundOf(m)' = RoundOf(m)
      BY <2>1 DEF N, RoundOf
    <3>4. Steps(cum, n)'
      BY <2>1, <3>2 DEF Steps
    <3>5. Holding(uopsForRound, retired)'
      BY <2>1, <3>2, <3>3 DEF Holding
    <3>6. Timed(uopsForRound, cum, n)'
      BY <2>1, <3>2, <3>3 DEF Timed, Placed
    <3> QED
      BY <2>1, <3>2, <3>4, <3>5, <3>6 DEF Counted
  <2> QED
    BY <2>2, <2>3 DEF IInv
<1>2. IInv /\ [Next]_vars => IInv'
  BY <1>1, CycleInv DEF Next
<1> QED
  BY InitInv, <1>2, PTL DEF Spec

-------------------------------------------------------------------------------
(* The window.                                                             *)

LEMMA MonusIs ==
  ASSUME NEW a \in Nat, NEW b \in Nat, a >= b
  PROVE  Monus(a, b) = a - b
<1> DEFINE c == a - b
<1>1. c \in Nat
  OBVIOUS
<1> HIDE DEF c
<1>2. {0, c} \in SUBSET (0..c) /\ {0, c} # {}
  BY <1>1
<1>3. Max({0, c}) \in {0, c} /\ c <= Max({0, c})
  BY <1>1, <1>2, MaxIs
<1>4. Max({0, c}) = c
  BY <1>1, <1>3
<1> QED
  BY <1>4 DEF Monus, c

LEMMA WindowFacts ==
  ASSUME IInv, Len(uopsForRound) > 1
  PROVE  /\ Len(uopsForRound) \in Nat /\ LastCandidate = Len(uopsForRound) - 2 /\ LastCandidate \in Nat
         /\ FirstRelevant \in 0..LastCandidate /\ FirstRelevant <= Len(uopsForRound) \div 2
         /\ LastRelevant \in FirstRelevant..LastCandidate
         /\ LastCandidate - FirstRelevant > 10 =>
              /\ LastRelevant \in LastCandidate - 4..LastCandidate
              /\ AlignedRounds # {} => LastRelevant \in AlignedRounds
<1> DEFINE l == Len(uopsForRound)
           h == l \div 2
<1>1. l \in Nat /\ l >= 2
  BY LogFacts DEF IInv, Counted, Holding
<1> HIDE DEF l
<1>2. LastCandidate = l - 2 /\ LastCandidate \in Nat
  BY <1>1, MonusIs DEF LastCandidate, l
<1>3. h \in Nat
  BY <1>1
<1> HIDE DEF h
<1>4. FirstRelevant \in {LastCandidate, h} /\ FirstRelevant <= LastCandidate /\ FirstRelevant <= h
  <2>1. {LastCandidate, h} \in SUBSET Nat /\ {LastCandidate, h} # {}
    BY <1>2, <1>3
  <2>2. FirstRelevant = Min({LastCandidate, h})
    BY DEF FirstRelevant, l, h
  <2>3. Min({LastCandidate, h}) \in {LastCandidate, h} /\ \A y \in {LastCandidate, h} : Min({LastCandidate, h}) <= y
    BY <2>1, MinIs
  <2> QED
    BY <2>2, <2>3
<1>5. FirstRelevant \in 0..LastCandidate
  BY <1>2, <1>3, <1>4
<1>6. ASSUME LastCandidate - FirstRelevant > 10, AlignedRounds # {}
      PROVE  LastRelevant \in AlignedRounds /\ LastRelevant \in LastCandidate - 4..LastCandidate
  <2>1. Monus(LastCandidate, 4) = LastCandidate - 4
    BY <1>2, <1>5, <1>6, MonusIs
  <2>2. AlignedRounds \in SUBSET (LastCandidate - 4..LastCandidate)
    BY <2>1 DEF AlignedRounds
  <2>3. AlignedRounds \in SUBSET (0..LastCandidate)
    BY <1>2, <1>5, <1>6, <2>2
  <2>4. Max(AlignedRounds) \in AlignedRounds
    BY <1>2, <1>6, <2>3, MaxIs
  <2>5. LastRelevant = Max(AlignedRounds)
    BY <1>6 DEF LastRelevant
  <2> QED
    BY <2>2, <2>4, <2>5
<1>7. ~(LastCandidate - FirstRelevant > 10 /\ AlignedRounds # {}) => LastRelevant = LastCandidate
  BY DEF LastRelevant
<1>8. LastCandidate \in FirstRelevant..LastCandidate /\ LastCandidate \in LastCandidate - 4..LastCandidate
  BY <1>2, <1>5
<1>9. LastRelevant \in FirstRelevant..LastCandidate
  BY <1>2, <1>5, <1>6, <1>7, <1>8
<1> QED
  BY <1>1, <1>2, <1>4, <1>5, <1>6, <1>7, <1>8, <1>9 DEF h, l

\* All rounds but the last one have retired.
LEMMA Complete ==
  ASSUME IInv, Len(uopsForRound) > 1, NEW r \in 0..LastCandidate
  PROVE  /\ r + 1 \in DOMAIN uopsForRound /\ r < Len(uopsForRound)
         /\ Len(uopsForRound[r + 1]) = N /\ DOMAIN uopsForRound[r + 1] = 1..N
<1> DEFINE l == Len(uopsForRound)
           m == retired
           q == (m - 1) \div N
<1>1. Given /\ Holding(uopsForRound, m)
  BY DEF IInv, Counted
<1>2. N \in Nat \ {0} /\ m \in Nat
  BY <1>1, Facts DEF Given
<1>3. l \in Nat /\ LastCandidate = l - 2 /\ r \in Nat /\ r + 1 <= l - 1 /\ r + 1 \in 1..l
  <2>1. l \in Nat /\ LastCandidate = l - 2
    BY WindowFacts
  <2> HIDE DEF l
  <2> QED
    BY <2>1
<1>4. l = q + 1 /\ m # 0
  BY <1>1, <1>2 DEF Holding, RoundOf
<1>5. uopsForRound \in Logs
  BY <1>1 DEF Holding
<1>6. q \in Nat /\ m - 1 \in Nat /\ m - 1 >= N * q
  <2>1. m - 1 \in Nat
    BY <1>2, <1>4
  <2>2. q \in Nat /\ (m - 1) % N \in 0..N - 1 /\ m - 1 = (N * q) + ((m - 1) % N)
    BY <1>2, <2>1, Division
  <2> HIDE DEF q
  <2>3. N * q \in Nat
    BY <1>2, <2>2
  <2> QED
    BY <2>1, <2>2, <2>3
<1> HIDE DEF q, l
<1>7. (r + 1) * N <= m
  <2>1. q - (r + 1) \in Nat
    BY <1>3, <1>4, <1>6
  <2>2. (q - (r + 1)) * N \in Nat
    BY <1>2, <2>1
  <2>3. N * q = ((r + 1) * N) + ((q - (r + 1)) * N)
    BY <1>2, <1>3, <1>6
  <2>4. (r + 1) * N \in Nat
    BY <1>2, <1>3
  <2> QED
    BY <1>2, <1>6, <2>2, <2>3, <2>4
<1>8. DOMAIN uopsForRound = 1..l /\ DOMAIN uopsForRound[r + 1] = 1..Len(uopsForRound[r + 1])
  BY <1>3, <1>5, LogFacts DEF l
<1>9. Len(uopsForRound[r + 1]) = N
  BY <1>1, <1>3, <1>7, <1>8 DEF Holding
<1> QED
  BY <1>3, <1>8, <1>9 DEF l

LastUop == Max({k \in 1..N : block.uops[k].instr = LastApplicable})

\* The last uop of an instruction that is looked for is the same in every complete round.
LEMMA LastRetiredIs ==
  ASSUME IInv, Len(uopsForRound) > 1, NEW r \in 0..LastCandidate
  PROVE  LastUop \in 1..N /\ LastRetired(r) = {uopsForRound[r + 1][LastUop]}
<1> DEFINE log == uopsForRound[r + 1]
           own == {k \in 1..N : block.uops[k].instr = LastApplicable}
           mine == {k \in DOMAIN log : block.uops[log[k].uop].instr = LastApplicable}
<1>1. Given /\ \E n \in {clock, clock + 1} : \E cum \in [0..n -> Nat] : Timed(uopsForRound, cum, n)
  BY DEF IInv, Counted
<1>2. DOMAIN log = 1..N /\ r < Len(uopsForRound) /\ r + 1 \in DOMAIN uopsForRound
  BY Complete
<1>3. \A k \in 1..N : log[k].uop = k
  BY <1>1, <1>2 DEF Timed, Placed
<1>4. N \in Nat \ {0} /\ DOMAIN block.uops = 1..N /\ LastApplicable \in 1..block.length
  BY <1>1, Facts
<1>5. own # {}
  <2>1. {u.instr : u \in {x \in Range(block.uops) : x.kind = "own"}} = 1..LastApplicable
    BY <1>1, BlockAssumption DEF Given, LastApplicable
  <2>2. block.length \in Nat
    BY <1>1, BlockAssumption DEF Given
  <2>3. LastApplicable \in 1..LastApplicable
    BY <1>4, <2>2
  <2>4. PICK u \in Range(block.uops) : u.instr = LastApplicable
    BY <2>1, <2>3
  <2>5. PICK k \in 1..N : block.uops[k] = u
    BY <1>4, <2>4 DEF Range
  <2> QED
    BY <2>4, <2>5
<1>6. mine = own
  BY <1>2, <1>3
<1>7. LastRetired(r) = IF mine = {} THEN {} ELSE {log[Max(mine)]}
  BY <1>2 DEF LastRetired
<1>8. Max(own) \in own
  <2>1. own \in SUBSET (0..N)
    BY <1>4
  <2> HIDE DEF own
  <2> QED
    BY <1>4, <1>5, <2>1, MaxIs
<1> HIDE DEF mine, log
<1>9. LastUop = Max(own)
  BY DEF LastUop
<1> QED
  BY <1>5, <1>6, <1>7, <1>8, <1>9 DEF log

-------------------------------------------------------------------------------
(* How much has retired before a cycle.                                    *)

\* The sums of the first cycles of the pattern.
LEMMA PatternSums ==
  ASSUME Given
  PROVE  \E P \in [0..Len(pattern) -> Nat] :
           /\ P[0] = 0 /\ P[Len(pattern)] = Uops
           /\ \A k \in 1..Len(pattern) : P[k] = P[k - 1] + pattern[k]
<1> DEFINE L == Len(pattern)
           B == 0..RetireWidth
           g == [x \in Nat \X B |-> x[1] + x[2]]
           Works(it) == it = [s \in SUBSET (1..L) |-> IF s = {} THEN 0 ELSE it[s \ {Max(s)}] + pattern[Max(s)]]
<1>1. L \in Nat /\ pattern \in [1..L -> B] /\ DOMAIN pattern = 1..L /\ RetireWidth \in Nat
  BY Facts
<1>2. g \in [Nat \X B -> Nat]
  BY <1>1
<1>3. Uops = (CHOOSE it : Works(it))[1..L]
  BY <1>1 DEF Uops, FoldLeft, MapThenFoldSet
<1> HIDE DEF L
<1>4. PICK h \in [SUBSET (1..L) -> Nat] : FoldEquation(h, g, 0, pattern, L)
  <2> HIDE DEF g, B
  <2> QED
    BY <1>1, <1>2, FoldIsDefined
<1>5. \A s \in SUBSET (1..L) : s # {} => Max(s) \in 1..L
  <2> TAKE s \in SUBSET (1..L)
  <2> HAVE s # {}
  <2>1. s \in SUBSET (0..L)
    BY <1>1
  <2>2. Max(s) \in s
    BY <1>1, <2>1, MaxIs
  <2> QED
    BY <2>2
<1>6. Works(h)
  <2> DEFINE F == [s \in SUBSET (1..L) |-> IF s = {} THEN 0 ELSE h[s \ {Max(s)}] + pattern[Max(s)]]
  <2>1. ASSUME NEW s \in SUBSET (1..L) PROVE h[s] = F[s]
    <3>1. h[s] = IF s = {} THEN 0 ELSE g[<<h[s \ {Max(s)}], pattern[Max(s)]>>]
      BY <1>4 DEF FoldEquation
    <3>2. CASE s # {}
      <4>1. h[s \ {Max(s)}] \in Nat
        BY <1>4
      <4>2. pattern[Max(s)] \in B
        BY <1>1, <1>5, <3>2
      <4> QED
        BY <3>1, <3>2, <4>1, <4>2
    <3> QED
      BY <3>1, <3>2
  <2>2. h = F
    BY <2>1
  <2> QED
    BY <2>2
<1> DEFINE it == CHOOSE it : Works(it)
<1>7. Works(it)
  <2> HIDE DEF Works
  <2> QED
    BY <1>6
<1>8. it[1..0] = 0
  <2>1. 1..0 = {}
    OBVIOUS
  <2> HIDE DEF it
  <2> QED
    BY <1>7, <2>1
<1>9. \A k \in 1..L : it[1..k] = it[1..k - 1] + pattern[k]
  <2> TAKE k \in 1..L
  <2>1. Max(1..k) = k /\ (1..k) \ {Max(1..k)} = 1..k - 1 /\ 1..k # {}
    <3>1. k \in Nat \ {0}
      BY <1>1
    <3> QED
      BY <3>1, PrefixMax
  <2>2. 1..k \in SUBSET (1..L)
    BY <1>1
  <2> HIDE DEF it
  <2>3. it[1..k] = it[(1..k) \ {Max(1..k)}] + pattern[Max(1..k)]
    BY <1>7, <2>1, <2>2
  <2> QED
    BY <2>1, <2>3
<1> DEFINE S == {k \in 0..L : it[1..k] \in Nat}
<1>a. it[1..L] = Uops
  BY <1>3
<1> HIDE DEF it
<1>10. 0 \in S
  BY <1>1, <1>8
<1>11. \A k \in 0..L : k < L /\ k \in S => k + 1 \in S
  <2> TAKE k \in 0..L
  <2> HAVE k < L /\ k \in S
  <2>1. k + 1 \in 1..L /\ (k + 1) - 1 = k
    BY <1>1
  <2>2. it[1..k + 1] = it[1..k] + pattern[k + 1]
    BY <1>9, <2>1
  <2>3. pattern[k + 1] \in Nat
    BY <1>1, <2>1
  <2>4. it[1..k + 1] \in Nat
    BY <2>2, <2>3
  <2> QED
    BY <2>1, <2>4
<1>12. \A k \in 0..L : k \in S
  <2> HIDE DEF S
  <2> QED
    BY <1>1, <1>10, <1>11, UpTo
<1> DEFINE P == [k \in 0..L |-> it[1..k]]
<1>13. P \in [0..L -> Nat]
  BY <1>12
<1>14. P[0] = 0 /\ P[L] = Uops
  BY <1>1, <1>8, <1>a
<1>15. \A k \in 1..L : P[k] = P[k - 1] + pattern[k]
  <2> TAKE k \in 1..L
  <2>1. k \in 0..L /\ k - 1 \in 0..L
    BY <1>1
  <2> QED
    BY <1>9, <2>1
<1> HIDE DEF P
<1> QED
  BY <1>13, <1>14, <1>15 DEF L

Cumulative(C) ==
  /\ C \in [Nat -> Nat] /\ C[0] = 0
  /\ \A c \in Nat : /\ C[c + 1] = C[c] + pattern[(c % Len(pattern)) + 1]
                    /\ C[c + 1] <= C[c] + RetireWidth /\ C[c] <= C[c + 1]
                    /\ C[c + Len(pattern)] = C[c] + Uops

LEMMA CumulativeExists ==
  ASSUME Given
  PROVE  Uops \in Nat /\ \E C : Cumulative(C)
<1> DEFINE L == Len(pattern)
<1>1. L \in Nat \ {0} /\ pattern \in [1..L -> 0..RetireWidth] /\ RetireWidth \in Nat
  BY Facts
<1>2. PICK P \in [0..L -> Nat] : /\ P[0] = 0 /\ P[L] = Uops
                                 /\ \A k \in 1..L : P[k] = P[k - 1] + pattern[k]
  BY PatternSums
<1> HIDE DEF L
<1>3. Uops \in Nat
  BY <1>1, <1>2
<1> DEFINE C == [c \in Nat |-> ((c \div L) * Uops) + P[c % L]]
<1>4. \A c \in Nat : c \div L \in Nat /\ c % L \in 0..L - 1 /\ c % L \in 0..L
  <2> TAKE c \in Nat
  <2>1. c \div L \in Nat /\ c % L \in 0..L - 1
    BY <1>1, Division
  <2> QED
    BY <1>1, <2>1
<1>5. ASSUME NEW q \in Nat, NEW s \in 0..L - 1
      PROVE  C[(L * q) + s] = (q * Uops) + P[s]
  <2>1. (L * q + s) \div L = q /\ (L * q + s) % L = s
    BY <1>1, <1>5, Quotient
  <2>2. (L * q) + s \in Nat
    BY <1>1, <1>5
  <2> QED
    BY <2>1, <2>2
<1>6. C \in [Nat -> Nat]
  <2>1. ASSUME NEW c \in Nat PROVE ((c \div L) * Uops) + P[c % L] \in Nat
    <3>1. c \div L \in Nat /\ P[c % L] \in Nat
      BY <1>2, <1>4
    <3> QED
      BY <1>3, <3>1
  <2> QED
    BY <2>1
<1>7. C[0] = 0
  <2>1. C[(L * 0) + 0] = (0 * Uops) + P[0]
    BY <1>1, <1>5
  <2>2. (L * 0) + 0 = 0 /\ (0 * Uops) + P[0] = 0
    BY <1>1, <1>2, <1>3
  <2> HIDE DEF C
  <2> QED
    BY <2>1, <2>2
<1> HIDE DEF C
<1>8. ASSUME NEW c \in Nat
      PROVE  /\ C[c + 1] = C[c] + pattern[(c % L) + 1]
             /\ C[c + 1] <= C[c] + RetireWidth /\ C[c] <= C[c + 1]
             /\ C[c + L] = C[c] + Uops
  <2>1. PICK q \in Nat, s \in 0..L - 1 : c \div L = q /\ c % L = s /\ c = (L * q) + s
    BY <1>1, Division
  <2>2. C[c] = (q * Uops) + P[s]
    BY <1>5, <2>1
  <2>3. s \in Nat /\ s + 1 \in 1..L /\ L * q \in Nat /\ q + 1 \in Nat
    BY <1>1, <2>1
  <2>4. P[s + 1] = P[s] + pattern[s + 1]
    <3>1. (s + 1) - 1 = s
      BY <2>3
    <3> QED
      BY <1>2, <2>3, <3>1
  <2>5. P[s] \in Nat /\ P[s + 1] \in Nat /\ pattern[s + 1] \in 0..RetireWidth
    <3>1. s \in 0..L /\ s + 1 \in 0..L
      BY <1>1, <2>3
    <3> QED
      BY <1>1, <1>2, <2>3, <3>1
  <2>6. C[c + 1] = (q * Uops) + P[s + 1]
    <3>1. CASE s + 1 < L
      <4>1. s + 1 \in 0..L - 1 /\ c + 1 = (L * q) + (s + 1)
        BY <1>1, <2>1, <2>3, <3>1
      <4> QED
        BY <1>5, <4>1
    <3>2. CASE s + 1 = L
      <4>1. 0 \in 0..L - 1 /\ L * (q + 1) = (L * q) + L
        BY <1>1, <2>1
      <4>2. c + 1 = (L * (q + 1)) + 0
        BY <1>1, <2>1, <2>3, <3>2, <4>1
      <4>3. C[c + 1] = ((q + 1) * Uops) + P[0]
        BY <1>5, <2>3, <4>1, <4>2
      <4>4. (q + 1) * Uops = (q * Uops) + Uops /\ q * Uops \in Nat
        BY <1>3, <2>1
      <4> QED
        BY <1>2, <1>3, <3>2, <4>3, <4>4
    <3> QED
      BY <1>1, <2>3, <3>1, <3>2
  <2>7. C[c + L] = C[c] + Uops
    <3>1. L * (q + 1) = (L * q) + L /\ (q + 1) * Uops = (q * Uops) + Uops /\ q * Uops \in Nat
      BY <1>1, <1>3, <2>1
    <3>2. c + L = (L * (q + 1)) + s
      BY <1>1, <2>1, <2>3, <3>1
    <3>3. C[c + L] = ((q + 1) * Uops) + P[s]
      BY <1>5, <2>1, <2>3, <3>2
    <3> QED
      BY <1>3, <2>2, <2>5, <3>1, <3>3
  <2>8. q * Uops \in Nat
    BY <1>3, <2>1
  <2>9. C[c + 1] = C[c] + pattern[s + 1]
    BY <2>2, <2>4, <2>5, <2>6, <2>8
  <2>10. C[c + 1] <= C[c] + RetireWidth /\ C[c] <= C[c + 1]
    BY <1>1, <2>2, <2>5, <2>8, <2>9
  <2> QED
    BY <2>1, <2>7, <2>9, <2>10
<1>9. Cumulative(C)
  BY <1>6, <1>7, <1>8 DEF Cumulative, L
<1> QED
  BY <1>3, <1>9

LEMMA CumulativeFacts ==
  ASSUME Given, NEW C, Cumulative(C), NEW a \in Nat
  PROVE  \A d \in Nat : /\ C[a] <= C[a + d] /\ C[a + d] <= C[a] + (RetireWidth * d)
                        /\ C[a + (Len(pattern) * d)] = C[a] + (d * Uops)
<1> DEFINE L == Len(pattern)
           S == {d \in Nat : /\ C[a] <= C[a + d] /\ C[a + d] <= C[a] + (RetireWidth * d)
                             /\ C[a + (L * d)] = C[a] + (d * Uops)}
<1>1. L \in Nat \ {0} /\ RetireWidth \in Nat /\ Uops \in Nat
  BY Facts, CumulativeExists
<1>2. C \in [Nat -> Nat]
  BY DEF Cumulative
<1>3. \A c \in Nat : C[c + 1] <= C[c] + RetireWidth /\ C[c] <= C[c + 1] /\ C[c + L] = C[c] + Uops
  BY DEF Cumulative
<1> HIDE DEF L
<1>4. 0 \in S
  <2>1. a + 0 = a /\ RetireWidth * 0 = 0 /\ L * 0 = 0 /\ 0 * Uops = 0 /\ C[a] \in Nat
    BY <1>1, <1>2
  <2> QED
    BY <2>1
<1>5. \A d \in Nat : d \in S => d + 1 \in S
  <2> TAKE d \in Nat
  <2> HAVE d \in S
  <2>1. a + d \in Nat /\ a + (d + 1) = (a + d) + 1 /\ C[a] \in Nat /\ C[a + d] \in Nat /\ C[(a + d) + 1] \in Nat
    BY <1>2
  <2>2. C[a] <= C[a + (d + 1)]
    BY <1>3, <2>1
  <2>3. RetireWidth * (d + 1) = (RetireWidth * d) + RetireWidth /\ RetireWidth * d \in Nat
    BY <1>1
  <2>4. C[(a + d) + 1] <= C[a + d] + RetireWidth /\ C[a + d] <= C[a] + (RetireWidth * d)
    BY <1>3, <2>1
  <2>5. C[a + (d + 1)] <= C[a] + (RetireWidth * (d + 1))
    BY <1>1, <2>1, <2>3, <2>4
  <2>6. L * (d + 1) = (L * d) + L /\ (d + 1) * Uops = (d * Uops) + Uops /\ L * d \in Nat /\ d * Uops \in Nat
    BY <1>1
  <2>7. a + (L * (d + 1)) = (a + (L * d)) + L /\ a + (L * d) \in Nat
    BY <1>1, <2>6
  <2>8. C[(a + (L * d)) + L] = C[a + (L * d)] + Uops /\ C[a + (L * d)] = C[a] + (d * Uops)
    BY <1>3, <2>7
  <2>9. C[a + (L * (d + 1))] = C[a] + ((d + 1) * Uops)
    BY <1>1, <2>1, <2>6, <2>7, <2>8
  <2> QED
    BY <2>2, <2>5, <2>9
<1>6. \A d \in Nat : d \in S
  <2> HIDE DEF S
  <2> QED
    BY <1>4, <1>5, Naturally
<1> QED
  BY <1>6 DEF L

LEMMA StepsAreCumulative ==
  ASSUME Given, NEW C, Cumulative(C), NEW n \in Nat, NEW cum, Steps(cum, n)
  PROVE  \A c \in 0..n : cum[c] = C[c]
<1> DEFINE S == {c \in 0..n : cum[c] = C[c]}
<1>1. 0 \in S
  BY DEF Steps, Cumulative
<1>2. \A c \in 0..n : c < n /\ c \in S => c + 1 \in S
  <2> TAKE c \in 0..n
  <2> HAVE c < n /\ c \in S
  <2>1. c \in 0..n - 1 /\ c \in Nat /\ c + 1 \in 0..n
    OBVIOUS
  <2> QED
    BY <2>1 DEF Steps, Cumulative
<1>3. \A c \in 0..n : c \in S
  <2> HIDE DEF S
  <2> QED
    BY <1>1, <1>2, UpTo
<1> QED
  BY <1>3

\* The two uops the throughput is measured between.
Measured(e, f, C) ==
  /\ e \in Entries /\ f \in Entries
  /\ C[e.retired] + e.place = C[f.retired] + f.place + N * Rounds
  /\ C[e.retired] + e.place < C[e.retired + 1] /\ C[f.retired] + f.place < C[f.retired + 1]

LEMMA EntryPlaced ==
  ASSUME IInv, Len(uopsForRound) > 1, NEW r \in 0..LastCandidate, NEW C, Cumulative(C)
  PROVE  LET e == uopsForRound[r + 1][LastUop]
         IN  /\ e \in Entries /\ LastRetired(r) = {e}
             /\ C[e.retired] + e.place = ((r * N) + LastUop) - 1
             /\ ((r * N) + LastUop) - 1 < C[e.retired + 1]
<1> DEFINE e == uopsForRound[r + 1][LastUop]
<1>1. Given /\ uopsForRound \in Logs
  BY DEF IInv, Counted, Holding
<1>2. LastUop \in 1..N /\ LastRetired(r) = {e}
  BY LastRetiredIs
<1>3. r + 1 \in DOMAIN uopsForRound /\ DOMAIN uopsForRound[r + 1] = 1..N
  BY Complete
<1>4. e \in Entries
  <2> DEFINE s == uopsForRound[r + 1]
  <2>1. s \in Seq(Entries) /\ Len(s) = N
    BY <1>1, <1>3, LogFacts, Complete
  <2>2. e = s[LastUop] /\ LastUop \in 1..N
    BY <1>2
  <2> HIDE DEF s, e
  <2> QED
    BY <2>1, <2>2, ElementOfSeq
<1>5. PICK n \in {clock, clock + 1} : \E cum \in [0..n -> Nat] : Steps(cum, n) /\ Timed(uopsForRound, cum, n)
  BY DEF IInv, Counted
<1>6. PICK cum \in [0..n -> Nat] : Steps(cum, n) /\ Timed(uopsForRound, cum, n)
  BY <1>5
<1>7. n \in Nat /\ N \in Nat
  BY <1>1, <1>5, Facts DEF Given
<1>8. Placed(e, LastUop, ((r + 1) - 1) * N + LastUop, cum, n)
  BY <1>2, <1>3, <1>6 DEF Timed
<1>9. ((r + 1) - 1) * N = r * N
  <2>1. LastCandidate \in Nat
    BY WindowFacts
  <2>2. (r + 1) - 1 = r
    BY <2>1
  <2> QED
    BY <2>2
<1>10. e.retired \in 0..n - 1 /\ cum[e.retired] + e.place = ((r * N) + LastUop) - 1
       /\ ((r * N) + LastUop) - 1 < cum[e.retired + 1]
  BY <1>8, <1>9 DEF Placed
<1> HIDE DEF e
<1>11. cum[e.retired] = C[e.retired] /\ cum[e.retired + 1] = C[e.retired + 1]
  <2>1. e.retired \in 0..n /\ e.retired + 1 \in 0..n
    BY <1>7, <1>10
  <2> QED
    BY <1>1, <1>6, <1>7, <2>1, StepsAreCumulative
<1>12. C[e.retired] + e.place = ((r * N) + LastUop) - 1 /\ ((r * N) + LastUop) - 1 < C[e.retired + 1]
  BY <1>10, <1>11
<1>13. /\ e \in Entries /\ LastRetired(r) = {e}
       /\ C[e.retired] + e.place = ((r * N) + LastUop) - 1
       /\ ((r * N) + LastUop) - 1 < C[e.retired + 1]
  BY <1>2, <1>4, <1>12
<1> QED
  BY <1>13, Zenon DEF e

LEMMA Between ==
  ASSUME IInv, Reported, FirstRelevant < LastRelevant, NEW C, Cumulative(C)
  PROVE  /\ Rounds \in Nat \ {0}
         /\ \E e, f : /\ Measured(e, f, C) /\ LastRetired(LastRelevant) = {e} /\ LastRetired(FirstRelevant) = {f}
                      /\ Throughput = {<<e.retired - f.retired, Rounds>>}
<1> DEFINE e == uopsForRound[LastRelevant + 1][LastUop]
           f == uopsForRound[FirstRelevant + 1][LastUop]
<1>1. Len(uopsForRound) > 1
  BY DEF Reported
<1>2. LastCandidate \in Nat /\ FirstRelevant \in 0..LastCandidate /\ LastRelevant \in 0..LastCandidate
  BY <1>1, WindowFacts
<1>3. Rounds \in Nat \ {0} /\ LastRelevant \in Nat /\ FirstRelevant \in Nat /\ LastRelevant = FirstRelevant + Rounds
  BY <1>2 DEF Rounds
<1>4. /\ e \in Entries /\ LastRetired(LastRelevant) = {e}
      /\ C[e.retired] + e.place = ((LastRelevant * N) + LastUop) - 1
      /\ ((LastRelevant * N) + LastUop) - 1 < C[e.retired + 1]
  BY <1>1, <1>2, EntryPlaced
<1>5. /\ f \in Entries /\ LastRetired(FirstRelevant) = {f}
      /\ C[f.retired] + f.place = ((FirstRelevant * N) + LastUop) - 1
      /\ ((FirstRelevant * N) + LastUop) - 1 < C[f.retired + 1]
  BY <1>1, <1>2, EntryPlaced
<1> HIDE DEF e, f
<1>6. N \in Nat /\ LastUop \in Nat
  <2>1. N \in Nat
    BY Facts DEF IInv
  <2>2. LastUop \in 1..N
    BY <1>1, <1>2, LastRetiredIs
  <2> QED
    BY <2>1, <2>2
<1>7. LastRelevant * N = (FirstRelevant * N) + (N * Rounds) /\ FirstRelevant * N \in Nat /\ N * Rounds \in Nat
  BY <1>3, <1>6
<1>8. ((LastRelevant * N) + LastUop) - 1 = (((FirstRelevant * N) + LastUop) - 1) + N * Rounds
  BY <1>6, <1>7
<1>9. Measured(e, f, C)
  BY <1>4, <1>5, <1>8 DEF Measured
<1>10. Throughput = {<<e.retired - f.retired, Rounds>>}
  <2>1. FirstRelevant # LastRelevant
    BY <1>3
  <2>2. Throughput = {<<x.retired - y.retired, LastRelevant - FirstRelevant>> : x \in {e}, y \in {f}}
    BY <1>4, <1>5, <2>1 DEF Throughput
  <2> QED
    BY <2>2 DEF Rounds
<1> QED
  BY <1>3, <1>4, <1>5, <1>9, <1>10

-------------------------------------------------------------------------------
(* What the window is for.                                                 *)

LEMMA OrderedLog == IInv => LogOrdered
<1> SUFFICES ASSUME IInv PROVE LogOrdered
  OBVIOUS
<1>1. Given /\ Bounded /\ Counted
  BY DEF IInv
<1>2. clock \in 0..minCycles + MoreCycles + 1
  BY <1>1, Facts DEF Given, Bounded
<1>3. \A r \in DOMAIN uopsForRound : \A k \in DOMAIN uopsForRound[r] : uopsForRound[r][k].uop = k
  BY <1>1 DEF Counted, Timed, Placed
<1> QED
  BY <1>1, <1>2, <1>3 DEF Given, LogOrdered

LEMMA CompleteWindow == IInv => WindowIsComplete
<1> SUFFICES ASSUME IInv, Reported, NEW r \in Relevant PROVE Len(uopsForRound[r + 1]) = N
  BY DEF WindowIsComplete
<1>1. Len(uopsForRound) > 1
  BY DEF Reported
<1>2. r \in 0..LastCandidate
  BY <1>1, WindowFacts DEF Relevant
<1> QED
  BY <1>1, <1>2, Complete

LEMMA DifferenceOfRounds == IInv => NeverAbsolute
<1> SUFFICES ASSUME IInv, Reported, minIterations >= 4, Finished(rnd)
             PROVE  HasWindow /\ FirstRelevant < LastRelevant /\ Throughput # {}
  BY DEF NeverAbsolute
<1> DEFINE l == Len(uopsForRound)
<1>1. l > 1
  BY DEF Reported
<1>2. l \in Nat /\ l >= 5
  <2>1. rnd >= 4 /\ rnd \in Nat /\ minIterations \in Nat
    BY Facts DEF IInv, Given, Finished
  <2>2. l = rnd + 1
    BY <2>1 DEF IInv, RoundKnown, Counted, Holding
  <2> HIDE DEF l
  <2> QED
    BY <2>1, <2>2
<1>3. /\ LastCandidate = l - 2 /\ LastCandidate \in Nat
      /\ FirstRelevant \in 0..LastCandidate /\ FirstRelevant <= l \div 2
      /\ LastRelevant \in FirstRelevant..LastCandidate
      /\ LastCandidate - FirstRelevant > 10 => LastRelevant \in LastCandidate - 4..LastCandidate
      /\ ~(LastCandidate - FirstRelevant > 10) => LastRelevant = LastCandidate
  BY <1>1, WindowFacts DEF LastRelevant
<1> HIDE DEF l
<1>4. FirstRelevant < LastCandidate
  BY <1>2, <1>3
<1>5. FirstRelevant < LastRelevant
  BY <1>3, <1>4
<1>6. FirstRelevant \in 0..LastCandidate /\ LastRelevant \in 0..LastCandidate
  BY <1>3
<1>7. LastRetired(FirstRelevant) # {}
  BY <1>1, <1>6, LastRetiredIs DEF l
<1>8. Throughput # {}
  <2>1. \E C : Cumulative(C)
    BY CumulativeExists DEF IInv
  <2> QED
    BY <1>5, <2>1, Between
<1> QED
  BY <1>5, <1>7, <1>8 DEF HasWindow

LEMMA Aligned == IInv => LongWindowAligned
<1> SUFFICES ASSUME IInv, Reported, LastCandidate - FirstRelevant > 10
             PROVE  \/ \E e \in LastRetired(LastRelevant), f \in LastRetired(FirstRelevant) : e.place = f.place
                    \/ \A r \in LastCandidate - 4..LastCandidate :
                         \A e \in LastRetired(r), f \in LastRetired(FirstRelevant) : e.place # f.place
  BY DEF LongWindowAligned
<1>1. Len(uopsForRound) > 1
  BY DEF Reported
<1>2. LastCandidate \in Nat /\ FirstRelevant \in 0..LastCandidate /\ (AlignedRounds # {} => LastRelevant \in AlignedRounds)
  BY <1>1, WindowFacts
<1>3. Monus(LastCandidate, 4) = LastCandidate - 4
  BY <1>2, MonusIs
<1>4. CASE AlignedRounds # {}
  BY <1>2, <1>4 DEF AlignedRounds
<1>5. CASE AlignedRounds = {}
  <2>1. \A r \in LastCandidate - 4..LastCandidate :
          ~\E e \in LastRetired(r), f \in LastRetired(FirstRelevant) : e.place = f.place
    BY <1>3, <1>5 DEF AlignedRounds
  <2> QED
    BY <2>1
<1> QED
  BY <1>4, <1>5

\* Of two uops the later one does not retire in an earlier cycle.
LEMMA Later ==
  ASSUME Given, NEW C, Cumulative(C), NEW e, NEW f, Measured(e, f, C), Rounds \in Nat \ {0}
  PROVE  /\ \E d \in Nat : e.retired = f.retired + d
         /\ e.retired \in Nat /\ f.retired \in Nat /\ e.place \in Nat /\ f.place \in Nat
         /\ N * Rounds \in Nat
<1>1. e.retired \in Nat /\ f.retired \in Nat /\ e.place \in Nat /\ f.place \in Nat
  BY DEF Measured, Entries
<1>2. N * Rounds \in Nat
  BY Facts
<1>3. C \in [Nat -> Nat]
  BY DEF Cumulative
<1>4. e.retired >= f.retired
  <2> SUFFICES ASSUME e.retired < f.retired PROVE FALSE
    BY <1>1
  <2>1. PICK d \in Nat : f.retired = (e.retired + 1) + d
    <3>1. f.retired - (e.retired + 1) \in Nat
      BY <1>1
    <3> QED
      BY <1>1, <3>1
  <2>2. C[e.retired + 1] <= C[f.retired]
    <3>1. e.retired + 1 \in Nat
      BY <1>1
    <3> HIDE DEF Measured
    <3> QED
      BY <2>1, <3>1, CumulativeFacts
  <2>3. C[e.retired + 1] \in Nat /\ C[f.retired] \in Nat /\ C[e.retired] \in Nat
    BY <1>1, <1>3
  <2>4. C[e.retired] + e.place = C[f.retired] + f.place + N * Rounds /\ C[e.retired] + e.place < C[e.retired + 1]
    BY DEF Measured
  <2> QED
    BY <1>1, <1>2, <2>2, <2>3, <2>4
<1>5. e.retired - f.retired \in Nat /\ e.retired = f.retired + (e.retired - f.retired)
  BY <1>1, <1>4
<1> QED
  BY <1>1, <1>2, <1>5

LEMMA BoundedByRetirement == IInv => NeverFasterThanRetire
<1> DEFINE aligned == \E e \in LastRetired(LastRelevant), f \in LastRetired(FirstRelevant) : e.place = f.place
<1> SUFFICES ASSUME IInv, Reported, FirstRelevant < LastRelevant, NEW tp \in Throughput
             PROVE  tp[1] * RetireWidth * Rounds >= tp[2] * (N * Rounds - IF aligned THEN 0 ELSE RetireWidth - 1)
  BY DEF NeverFasterThanRetire
<1>0. Given
  BY DEF IInv
<1>1. PICK C : Cumulative(C)
  BY <1>0, CumulativeExists
<1>2. Rounds \in Nat \ {0}
  BY <1>1, Between
<1>3. PICK e, f : /\ Measured(e, f, C) /\ LastRetired(LastRelevant) = {e} /\ LastRetired(FirstRelevant) = {f}
                  /\ Throughput = {<<e.retired - f.retired, Rounds>>}
  BY <1>1, Between
<1>4. /\ e.retired \in Nat /\ f.retired \in Nat /\ e.place \in Nat /\ f.place \in Nat
      /\ N * Rounds \in Nat
  BY <1>0, <1>1, <1>2, <1>3, Later
<1>5. PICK d \in Nat : e.retired = f.retired + d
  BY <1>0, <1>1, <1>2, <1>3, Later
<1>6. tp[1] = d /\ tp[2] = Rounds
  BY <1>3, <1>4, <1>5
<1>7. C[e.retired] <= C[f.retired] + (RetireWidth * d)
  BY <1>0, <1>1, <1>4, <1>5, CumulativeFacts
<1>8. C \in [Nat -> Nat] /\ RetireWidth \in Nat
  BY <1>0, <1>1, Facts DEF Cumulative
<1>9. C[e.retired + 1] <= C[e.retired] + RetireWidth
  BY <1>1, <1>4 DEF Cumulative
<1>10. C[e.retired] \in Nat /\ C[f.retired] \in Nat /\ C[e.retired + 1] \in Nat /\ RetireWidth * d \in Nat
  <2>1. e.retired + 1 \in Nat
    BY <1>4
  <2> QED
    BY <1>4, <1>8, <2>1
<1>11. C[e.retired] + e.place = C[f.retired] + f.place + N * Rounds /\ C[e.retired] + e.place < C[e.retired + 1]
  BY <1>3 DEF Measured
<1> DEFINE less == IF aligned THEN 0 ELSE RetireWidth - 1
           n == N * Rounds
           w == RetireWidth * d
<1>12. aligned <=> e.place = f.place
  BY <1>3
<1>13. less \in Int
  BY <1>8
<1>14. w >= n - less
  <2> HIDE DEF aligned
  <2>1. n \in Nat /\ w \in Nat
    BY <1>4, <1>10
  <2>2. C[e.retired] + e.place = C[f.retired] + f.place + n /\ C[e.retired] <= C[f.retired] + w
    BY <1>7, <1>11
  <2> HIDE DEF n, w
  <2>3. CASE aligned
    BY <1>4, <1>10, <1>12, <2>1, <2>2, <2>3
  <2>4. CASE ~aligned
    BY <1>4, <1>8, <1>9, <1>10, <1>11, <2>1, <2>2, <2>4
  <2> QED
    BY <2>3, <2>4
<1>15. n \in Nat /\ w \in Nat
  BY <1>4, <1>10
<1> HIDE DEF less, n, w
<1>16. w * Rounds >= Rounds * (n - less)
  <2>1. w - (n - less) \in Nat
    BY <1>13, <1>14, <1>15
  <2>2. (w - (n - less)) * Rounds >= 0
    BY <1>2, <2>1
  <2>3. w * Rounds = (w - (n - less)) * Rounds + Rounds * (n - less)
    BY <1>2, <1>13, <1>15
  <2>4. w * Rounds \in Int /\ Rounds * (n - less) \in Int /\ (w - (n - less)) * Rounds \in Int
    BY <1>2, <1>13, <1>15
  <2> QED
    BY <2>2, <2>3, <2>4
<1>17. tp[1] * RetireWidth * Rounds = w * Rounds
  <2>1. d * RetireWidth = w
    BY <1>8 DEF w
  <2> QED
    BY <1>6, <2>1
<1> QED
  BY <1>6, <1>16, <1>17 DEF less, n

LEMMA Times ==
  ASSUME NEW a \in Int, NEW b \in Int, NEW k \in Nat, a <= b
  PROVE  a * k <= b * k /\ k * a <= k * b
<1>1. (b - a) * k >= 0
  <2>1. b - a \in Nat
    OBVIOUS
  <2> DEFINE x == b - a
  <2> HIDE DEF x
  <2>2. x * k >= 0
    BY <2>1 DEF x
  <2> QED
    BY <2>2 DEF x
<1>2. b * k = a * k + (b - a) * k /\ a * k \in Int /\ (b - a) * k \in Int /\ k * a = a * k /\ k * b = b * k
  OBVIOUS
<1> QED
  BY <1>1, <1>2

LEMMA AverageOfRetirement == IInv => ThroughputIsAverage
<1> DEFINE L == Len(pattern)
           U == Uops
           X == N * Rounds
<1> SUFFICES ASSUME IInv, Reported, FirstRelevant < LastRelevant, NEW tp \in Throughput
             PROVE  tp[1] * Rounds * U - tp[2] * N * Rounds * L \in -(tp[2] * L * U)..(tp[2] * L * U)
  BY DEF ThroughputIsAverage
<1>0. Given
  BY DEF IInv
<1>1. PICK C : Cumulative(C)
  BY <1>0, CumulativeExists
<1>2. Rounds \in Nat \ {0}
  BY <1>1, Between
<1>3. PICK e, f : /\ Measured(e, f, C) /\ LastRetired(LastRelevant) = {e} /\ LastRetired(FirstRelevant) = {f}
                  /\ Throughput = {<<e.retired - f.retired, Rounds>>}
  BY <1>1, Between
<1> DEFINE cf == f.retired
           ce == e.retired
<1>4. ce \in Nat /\ cf \in Nat /\ e.place \in Nat /\ f.place \in Nat /\ X \in Nat
  BY <1>0, <1>1, <1>2, <1>3, Later
<1>5. PICK d \in Nat : ce = cf + d
  BY <1>0, <1>1, <1>2, <1>3, Later
<1>6. tp[1] = d /\ tp[2] = Rounds
  BY <1>3, <1>4, <1>5
<1>7. C \in [Nat -> Nat] /\ L \in Nat \ {0} /\ U \in Nat /\ N \in Nat
  BY <1>0, <1>1, Facts, CumulativeExists DEF Cumulative
<1>8. C[ce] + e.place = C[cf] + f.place + X /\ C[ce] + e.place < C[ce + 1] /\ C[cf] + f.place < C[cf + 1]
  BY <1>3 DEF Measured
<1>u. U = Uops /\ L = Len(pattern)
  OBVIOUS
<1> HIDE DEF ce, cf, X, L, U
<1>9. PICK q \in Nat, s \in 0..L - 1 : d = (L * q) + s
  BY <1>5, <1>7, Division
<1>10. s \in Nat /\ cf + s \in Nat /\ (cf + s) + 1 \in Nat /\ L * q \in Nat /\ q * U \in Nat /\ ce + 1 \in Nat /\ cf + 1 \in Nat
  BY <1>4, <1>7, <1>9
<1>11. C[ce] = C[cf + s] + (q * U)
  <2>1. ce = (cf + s) + (L * q)
    BY <1>4, <1>5, <1>9, <1>10
  <2>2. C[(cf + s) + (L * q)] = C[cf + s] + (q * U)
    BY <1>0, <1>1, <1>10, <1>u, CumulativeFacts
  <2> QED
    BY <2>1, <2>2
<1>12. C[ce + 1] = C[(cf + s) + 1] + (q * U)
  <2>1. ce + 1 = ((cf + s) + 1) + (L * q)
    BY <1>4, <1>5, <1>9, <1>10
  <2>2. C[((cf + s) + 1) + (L * q)] = C[(cf + s) + 1] + (q * U)
    BY <1>0, <1>1, <1>10, <1>u, CumulativeFacts
  <2> QED
    BY <2>1, <2>2
<1>13. \A x \in Nat, y \in Nat : C[x] <= C[x + y]
  BY <1>0, <1>1, CumulativeFacts
<1>14. \A y \in Nat : y <= L => C[cf + y] <= C[cf] + U
  <2> TAKE y \in Nat
  <2> HAVE y <= L
  <2>1. cf + y \in Nat /\ L - y \in Nat /\ (cf + y) + (L - y) = cf + L
    BY <1>4, <1>7
  <2>2. C[cf + y] <= C[(cf + y) + (L - y)]
    BY <1>13, <2>1
  <2>3. C[cf + L] = C[cf] + U
    BY <1>1, <1>4, <1>u DEF Cumulative
  <2> QED
    BY <2>1, <2>2, <2>3
<1>15. C[cf] <= C[cf + s] /\ C[(cf + s) + 1] <= C[cf] + U /\ C[cf + 1] <= C[cf] + U
  <2>1. s + 1 \in Nat /\ s + 1 <= L /\ (cf + s) + 1 = cf + (s + 1) /\ 1 <= L
    BY <1>4, <1>7, <1>9
  <2> QED
    BY <1>4, <1>10, <1>13, <1>14, <2>1
<1>16. s # 0 => C[cf + 1] <= C[cf + s]
  <2> HAVE s # 0
  <2>1. s - 1 \in Nat /\ (cf + 1) + (s - 1) = cf + s
    BY <1>4, <1>10
  <2> QED
    BY <1>10, <1>13, <2>1
<1>17. C[cf] \in Nat /\ C[cf + s] \in Nat /\ C[(cf + s) + 1] \in Nat /\ C[cf + 1] \in Nat /\ C[ce] \in Nat /\ C[ce + 1] \in Nat
  BY <1>4, <1>7, <1>10
<1> DEFINE w == X - (q * U)
<1>18. w \in Int /\ w <= U /\ (s # 0 => 0 <= w) /\ -U <= w
  <2>1. (C[cf + s] + (q * U)) + e.place = (C[cf] + f.place) + X
    BY <1>4, <1>8, <1>10, <1>11, <1>17
  <2>2. (C[cf] + f.place) + X < C[(cf + s) + 1] + (q * U)
    BY <1>4, <1>8, <1>10, <1>12, <1>17
  <2> DEFINE qU == q * U
  <2>3. qU \in Nat
    BY <1>10
  <2>4. w = X - qU
    OBVIOUS
  <2> HIDE DEF qU, w
  <2>5. w \in Int
    BY <1>4, <2>3, <2>4
  <2>6. (C[cf + s] + e.place) = (C[cf] + f.place) + w
    BY <1>4, <1>17, <2>1, <2>3, <2>4 DEF qU
  <2>7. (C[cf] + f.place) + w < C[(cf + s) + 1]
    BY <1>4, <1>17, <2>2, <2>3, <2>4 DEF qU
  <2>8. w <= U
    BY <1>4, <1>7, <1>15, <1>17, <2>5, <2>7
  <2>9. s # 0 => 0 <= w
    BY <1>4, <1>8, <1>16, <1>17, <2>5, <2>6
  <2>10. -U <= w
    BY <1>4, <1>7, <1>8, <1>15, <1>17, <2>5, <2>6
  <2> QED
    BY <2>5, <2>8, <2>9, <2>10
<1> DEFINE D == (d * U) - (X * L)
           M == L * U
<1>19. D = (s * U) - (w * L)
  <2>1. d * U = ((L * q) * U) + (s * U)
    BY <1>5, <1>7, <1>9, <1>10
  <2>2. X = (q * U) + w
    BY <1>4, <1>10
  <2> HIDE DEF w
  <2>3. X * L = ((q * U) * L) + (w * L)
    BY <1>7, <1>10, <1>18, <2>2
  <2>4. (q * U) * L = (L * q) * U
    BY <1>7, <1>9
  <2>5. s * U \in Int /\ w * L \in Int /\ (L * q) * U \in Int
    BY <1>7, <1>10, <1>18
  <2> QED
    BY <2>1, <2>3, <2>4, <2>5
<1> HIDE DEF w
<1>20. M \in Nat /\ D \in Int
  BY <1>4, <1>5, <1>7
<1>21. -M <= D /\ D <= M
  <2>1. 0 <= s * U /\ s * U <= M
    <3>1. s <= L
      BY <1>7, <1>9
    <3>2. s * U <= L * U /\ 0 * U <= s * U
      BY <1>7, <1>10, <3>1, Times
    <3> QED
      BY <1>7, <3>2
  <2>2. w * L <= M
    <3>1. w * L <= U * L
      BY <1>7, <1>18, Times
    <3>2. U * L = M
      BY <1>7
    <3> QED
      BY <3>1, <3>2
  <2>3. -M <= w * L
    <3>1. (-U) * L <= w * L
      <4>1. -U \in Int
        BY <1>7
      <4> QED
        BY <1>7, <1>18, <4>1, Times
    <3>2. (-U) * L = -M
      BY <1>7
    <3> QED
      BY <3>1, <3>2
  <2>4. s # 0 => 0 <= w * L
    <3> HAVE s # 0
    <3>1. 0 * L <= w * L
      BY <1>7, <1>18, Times
    <3> QED
      BY <1>7, <3>1
  <2>5. s = 0 => s * U = 0
    BY <1>7
  <2>6. w * L \in Int /\ s * U \in Int
    BY <1>7, <1>10, <1>18
  <2> DEFINE wL == w * L
             sU == s * U
  <2>7. D = sU - wL
    BY <1>19
  <2> HIDE DEF wL, sU, D, M
  <2> QED
    BY <1>20, <2>1, <2>2, <2>3, <2>4, <2>5, <2>6, <2>7 DEF wL, sU
<1>22. tp[1] * Rounds * U - tp[2] * N * Rounds * L = Rounds * D
  <2>1. (d * Rounds) * U = Rounds * (d * U)
    BY <1>2, <1>5, <1>7
  <2>2. ((Rounds * N) * Rounds) * L = Rounds * (X * L)
    <3>1. (Rounds * N) * Rounds = Rounds * X
      BY <1>2, <1>7 DEF X
    <3>2. (Rounds * X) * L = Rounds * (X * L)
      BY <1>2, <1>4, <1>7
    <3> QED
      BY <3>1, <3>2
  <2>3. Rounds * D = Rounds * (d * U) - Rounds * (X * L)
    BY <1>2, <1>4, <1>5, <1>7
  <2> QED
    BY <1>6, <2>1, <2>2, <2>3
<1>23. tp[2] * L * U = Rounds * M
  BY <1>2, <1>6, <1>7
<1> HIDE DEF D, M
<1>24. Rounds * D \in Int /\ Rounds * M \in Int /\ -(Rounds * M) <= Rounds * D /\ Rounds * D <= Rounds * M
  <2>1. Rounds * (-M) <= Rounds * D
    <3>1. -M \in Int
      BY <1>20
    <3> QED
      BY <1>2, <1>20, <1>21, <3>1, Times
  <2>2. Rounds * D <= Rounds * M
    BY <1>2, <1>20, <1>21, Times
  <2>3. Rounds * (-M) = -(Rounds * M)
    BY <1>2, <1>20
  <2>4. Rounds * D \in Int /\ Rounds * M \in Int
    BY <1>2, <1>20
  <2> QED
    BY <2>1, <2>2, <2>3, <2>4
<1> QED
  BY <1>22, <1>23, <1>24

(* For all of these, what compute_simulated_throughput looks at are        *)
(* complete rounds; with five rounds and more it is a difference between   *)
(* two of them; it is the average of the retirement, never faster than the *)
(* retire width, over a window whose ends are aligned if one of the last   *)
(* rounds allows it.                                                       *)
THEOREM WindowTheorem == Spec => []WindowSound
<1>1. IInv => WindowSound
  BY OrderedLog, CompleteWindow, DifferenceOfRounds, BoundedByRetirement, AverageOfRetirement, Aligned DEF WindowSound
<1> QED
  BY <1>1, LogSound, PTL

-------------------------------------------------------------------------------
(* The report. The sums it is made of are measures.                        *)

LEMMA IssuedIsSum ==
  ASSUME IsFiniteSet(Rows), NEW h \in [Rows -> Nat],
         \A x \in Rows : h[x] = Row(x[1], x[2]).issued, NEW m, IsMeasure(m, h, Rows)
  PROVE  TotalIssued = m[Rows]
<1> DEFINE c(s) == CHOOSE x \in s : TRUE
           F(it) == [s \in SUBSET Rows |-> IF s = {} THEN 0 ELSE Row(c(s)[1], c(s)[2]).issued + it[s \ {c(s)}]]
           G(it) == [s \in SUBSET Rows |-> IF s = {} THEN 0 ELSE h[c(s)] + it[s \ {c(s)}]]
<1>1. TotalIssued = (CHOOSE it : it = F(it))[Rows]
  BY DEF TotalIssued, MapThenSumSet, MapThenFoldSet
<1>2. \A it : F(it) = G(it)
  <2>1. \A s \in SUBSET Rows : s # {} => c(s) \in Rows
    OBVIOUS
  <2> HIDE DEF c
  <2> QED
    BY <2>1
<1>3. m = G(m) /\ \A it : it = G(it) => it[Rows] = m[Rows]
  <2>1. SumEquation(m, h, Rows) /\ \A it : SumEquation(it, h, Rows) => \A A \in SUBSET Rows : it[A] = m[A]
    BY SumIsMeasure
  <2>2. \A it : SumEquation(it, h, Rows) <=> it = G(it)
    BY Zenon DEF SumEquation
  <2> HIDE DEF G
  <2> QED
    BY <2>1, <2>2
<1> DEFINE chosen == CHOOSE it : it = F(it)
<1>4. chosen = F(chosen)
  <2> HIDE DEF F, G
  <2>1. m = F(m)
    BY <1>2, <1>3
  <2> QED
    BY <2>1
<1> HIDE DEF F, G
<1>5. chosen[Rows] = m[Rows]
  <2> HIDE DEF chosen
  <2> QED
    BY <1>2, <1>3, <1>4
<1> QED
  BY <1>1, <1>5

LEMMA OnPortIsSum ==
  ASSUME NEW p, IsFiniteSet(Rows), NEW h \in [Rows -> Nat],
         \A x \in Rows : h[x] = Row(x[1], x[2]).ports[p], NEW m, IsMeasure(m, h, Rows)
  PROVE  TotalOnPort(p) = m[Rows]
<1> DEFINE c(s) == CHOOSE x \in s : TRUE
           F(it) == [s \in SUBSET Rows |-> IF s = {} THEN 0 ELSE Row(c(s)[1], c(s)[2]).ports[p] + it[s \ {c(s)}]]
           G(it) == [s \in SUBSET Rows |-> IF s = {} THEN 0 ELSE h[c(s)] + it[s \ {c(s)}]]
<1>1. TotalOnPort(p) = (CHOOSE it : it = F(it))[Rows]
  BY DEF TotalOnPort, MapThenSumSet, MapThenFoldSet
<1>2. \A it : F(it) = G(it)
  <2>1. \A s \in SUBSET Rows : s # {} => c(s) \in Rows
    OBVIOUS
  <2> HIDE DEF c
  <2> QED
    BY <2>1
<1>3. m = G(m) /\ \A it : it = G(it) => it[Rows] = m[Rows]
  <2>1. SumEquation(m, h, Rows) /\ \A it : SumEquation(it, h, Rows) => \A A \in SUBSET Rows : it[A] = m[A]
    BY SumIsMeasure
  <2>2. \A it : SumEquation(it, h, Rows) <=> it = G(it)
    BY Zenon DEF SumEquation
  <2> HIDE DEF G
  <2> QED
    BY <2>1, <2>2
<1> DEFINE chosen == CHOOSE it : it = F(it)
<1>4. chosen = F(chosen)
  <2> HIDE DEF F, G
  <2>1. m = F(m)
    BY <1>2, <1>3
  <2> QED
    BY <2>1
<1> HIDE DEF F, G
<1>5. chosen[Rows] = m[Rows]
  <2> HIDE DEF chosen
  <2> QED
    BY <1>2, <1>3, <1>4
<1> QED
  BY <1>1, <1>5

LEMMA DivIsSum ==
  ASSUME IsFiniteSet(Rows), NEW h \in [Rows -> Nat],
         \A x \in Rows : h[x] = Row(x[1], x[2]).div, NEW m, IsMeasure(m, h, Rows)
  PROVE  TotalDiv = m[Rows]
<1> DEFINE c(s) == CHOOSE x \in s : TRUE
           F(it) == [s \in SUBSET Rows |-> IF s = {} THEN 0 ELSE Row(c(s)[1], c(s)[2]).div + it[s \ {c(s)}]]
           G(it) == [s \in SUBSET Rows |-> IF s = {} THEN 0 ELSE h[c(s)] + it[s \ {c(s)}]]
<1>1. TotalDiv = (CHOOSE it : it = F(it))[Rows]
  BY DEF TotalDiv, MapThenSumSet, MapThenFoldSet
<1>2. \A it : F(it) = G(it)
  <2>1. \A s \in SUBSET Rows : s # {} => c(s) \in Rows
    OBVIOUS
  <2> HIDE DEF c
  <2> QED
    BY <2>1
<1>3. m = G(m) /\ \A it : it = G(it) => it[Rows] = m[Rows]
  <2>1. SumEquation(m, h, Rows) /\ \A it : SumEquation(it, h, Rows) => \A A \in SUBSET Rows : it[A] = m[A]
    BY SumIsMeasure
  <2>2. \A it : SumEquation(it, h, Rows) <=> it = G(it)
    BY Zenon DEF SumEquation
  <2> HIDE DEF G
  <2> QED
    BY <2>1, <2>2
<1> DEFINE chosen == CHOOSE it : it = F(it)
<1>4. chosen = F(chosen)
  <2> HIDE DEF F, G
  <2>1. m = F(m)
    BY <1>2, <1>3
  <2> QED
    BY <2>1
<1> HIDE DEF F, G
<1>5. chosen[Rows] = m[Rows]
  <2> HIDE DEF chosen
  <2> QED
    BY <1>2, <1>3, <1>4
<1> QED
  BY <1>1, <1>5

\* The uops of the relevant rounds.
Uses == (1..N) \X Relevant

LEMMA DivUsageIsSum ==
  ASSUME IsFiniteSet(Uses), NEW h \in [Uses -> Nat],
         \A x \in Uses : h[x] = block.uops[x[1]].div, NEW m, IsMeasure(m, h, Uses)
  PROVE  DivUsage = m[Uses]
<1> DEFINE c(s) == CHOOSE x \in s : TRUE
           F(it) == [s \in SUBSET Uses |-> IF s = {} THEN 0 ELSE block.uops[c(s)[1]].div + it[s \ {c(s)}]]
           G(it) == [s \in SUBSET Uses |-> IF s = {} THEN 0 ELSE h[c(s)] + it[s \ {c(s)}]]
<1>1. DivUsage = (CHOOSE it : it = F(it))[Uses]
  BY DEF DivUsage, Uses, MapThenSumSet, MapThenFoldSet
<1>2. \A it : F(it) = G(it)
  <2>1. \A s \in SUBSET Uses : s # {} => c(s) \in Uses
    OBVIOUS
  <2> HIDE DEF c
  <2> QED
    BY <2>1
<1>3. m = G(m) /\ \A it : it = G(it) => it[Uses] = m[Uses]
  <2>1. SumEquation(m, h, Uses) /\ \A it : SumEquation(it, h, Uses) => \A A \in SUBSET Uses : it[A] = m[A]
    BY SumIsMeasure
  <2>2. \A it : SumEquation(it, h, Uses) <=> it = G(it)
    BY Zenon DEF SumEquation
  <2> HIDE DEF G
  <2> QED
    BY <2>1, <2>2
<1> DEFINE chosen == CHOOSE it : it = F(it)
<1>4. chosen = F(chosen)
  <2> HIDE DEF F, G
  <2>1. m = F(m)
    BY <1>2, <1>3
  <2> QED
    BY <2>1
<1> HIDE DEF F, G
<1>5. chosen[Uses] = m[Uses]
  <2> HIDE DEF chosen
  <2> QED
    BY <1>2, <1>3, <1>4
<1> QED
  BY <1>1, <1>5

LEMMA RowDivIsSum ==
  ASSUME NEW S, IsFiniteSet(S), NEW h \in [S -> Nat],
         \A x \in S : h[x] = block.uops[x].div, NEW m, IsMeasure(m, h, S)
  PROVE  MapThenSumSet(LAMBDA u : block.uops[u].div, S) = m[S]
<1> DEFINE c(s) == CHOOSE x \in s : TRUE
           F(it) == [s \in SUBSET S |-> IF s = {} THEN 0 ELSE block.uops[c(s)].div + it[s \ {c(s)}]]
           G(it) == [s \in SUBSET S |-> IF s = {} THEN 0 ELSE h[c(s)] + it[s \ {c(s)}]]
<1>1. MapThenSumSet(LAMBDA u : block.uops[u].div, S) = (CHOOSE it : it = F(it))[S]
  BY DEF MapThenSumSet, MapThenFoldSet
<1>2. \A it : F(it) = G(it)
  <2>1. \A s \in SUBSET S : s # {} => c(s) \in S
    OBVIOUS
  <2> HIDE DEF c
  <2> QED
    BY <2>1
<1>3. m = G(m) /\ \A it : it = G(it) => it[S] = m[S]
  <2>1. SumEquation(m, h, S) /\ \A it : SumEquation(it, h, S) => \A A \in SUBSET S : it[A] = m[A]
    BY SumIsMeasure
  <2>2. \A it : SumEquation(it, h, S) <=> it = G(it)
    BY Zenon DEF SumEquation
  <2> HIDE DEF G
  <2> QED
    BY <2>1, <2>2
<1> DEFINE chosen == CHOOSE it : it = F(it)
<1>4. chosen = F(chosen)
  <2> HIDE DEF F, G
  <2>1. m = F(m)
    BY <1>2, <1>3
  <2> QED
    BY <2>1
<1> HIDE DEF F, G
<1>5. chosen[S] = m[S]
  <2> HIDE DEF chosen
  <2> QED
    BY <1>2, <1>3, <1>4
<1> QED
  BY <1>1, <1>5


Mine(x) == {u \in 1..N : block.uops[u].instr = x[1] /\ block.uops[u].kind = x[2]}

\* Every uop is counted in one row.
LEMMA RowsPartition ==
  ASSUME Given
  PROVE  /\ IsFiniteSet(Rows)
         /\ \A u \in 1..N : <<block.uops[u].instr, block.uops[u].kind>> \in Rows /\ block.uops[u].div \in Nat
<1> DEFINE R == [instr : 1..block.length, kind : Kinds, port : [1..2 -> STRING], div : Nat]
<1>1. /\ block.uops \in Seq(R) /\ Len(block.uops) = N
      /\ DOMAIN block.uops = 1..N /\ LastApplicable \in 1..block.length
  BY Facts DEF N
<1>2. block.length \in Nat
  BY BlockAssumption DEF Given
<1>3. ASSUME NEW u \in 1..N
      PROVE  /\ block.uops[u] \in Range(block.uops)
             /\ block.uops[u] \in R
  <2>1. block.uops[u] \in Range(block.uops)
    BY <1>1 DEF Range
  <2>2. u \in 1..Len(block.uops)
    BY <1>1
  <2> HIDE DEF R
  <2>3. block.uops[u] \in R
    BY <1>1, <2>2, ElementOfSeq
  <2> QED
    BY <2>1, <2>3
<1>4. \A x \in Range(block.uops) : x \in R
  <2> HIDE DEF R
  <2> QED
    BY <1>1, <1>3 DEF Range
<1>5. Rows \subseteq (1..block.length) \X Kinds
  <2>1. \A x \in Range(block.uops) : <<x.instr, x.kind>> \in (1..block.length) \X Kinds
    BY <1>4
  <2>2. \A i \in 1..LastApplicable : <<i, "own">> \in (1..block.length) \X Kinds
    BY <1>1, <1>2 DEF Kinds
  <2> QED
    BY <2>1, <2>2 DEF Rows
<1>6. IsFiniteSet(Rows)
  <2>1. IsFiniteSet(1..block.length)
    BY <1>2, FS_Interval
  <2>2. IsFiniteSet(Kinds)
    <3>1. IsFiniteSet({"own"})
      BY FS_Singleton
    <3>2. IsFiniteSet({"own"} \cup {"merge"})
      BY <3>1, FS_AddElement
    <3>3. IsFiniteSet(({"own"} \cup {"merge"}) \cup {"sync"})
      BY <3>2, FS_AddElement
    <3>4. Kinds = ({"own"} \cup {"merge"}) \cup {"sync"}
      BY DEF Kinds
    <3> QED
      BY <3>3, <3>4
  <2>3. IsFiniteSet((1..block.length) \X Kinds)
    BY <2>1, <2>2, FS_Product
  <2> QED
    BY <1>5, <2>3, FS_Subset
<1>7. ASSUME NEW u \in 1..N PROVE <<block.uops[u].instr, block.uops[u].kind>> \in Rows
  <2> DEFINE x == block.uops[u]
  <2>1. x \in Range(block.uops)
    BY <1>3
  <2> HIDE DEF x
  <2>2. CASE x.kind # "own"
    BY <2>1, <2>2 DEF Rows, x
  <2>3. CASE x.kind = "own"
    <3>1. {v.instr : v \in {y \in Range(block.uops) : y.kind = "own"}} = 1..LastApplicable
      BY BlockAssumption DEF Given, LastApplicable
    <3>2. x.instr \in 1..LastApplicable
      BY <2>1, <2>3, <3>1
    <3> QED
      BY <2>3, <3>2 DEF Rows, x
  <2> QED
    BY <2>2, <2>3
<1> QED
  BY <1>3, <1>6, <1>7

RowOf(u) == <<block.uops[u].instr, block.uops[u].kind>>

LEMMA RowIs ==
  ASSUME Given, NEW x \in Rows
  PROVE  /\ x = <<x[1], x[2]>>
         /\ Row(x[1], x[2]).issued = Cardinality(Mine(x)) * Cardinality(Relevant)
         /\ \A p \in PortNames :
              Row(x[1], x[2]).ports[p] = Cardinality({y \in Mine(x) \X Relevant : PortIn(y[1], y[2]) = p})
         /\ Row(x[1], x[2]).div = MapThenSumSet(LAMBDA u : block.uops[u].div, Mine(x)) * Cardinality(Relevant)
         /\ \A u \in 1..N : u \in Mine(x) <=> RowOf(u) = x
<1>1. x = <<x[1], x[2]>>
  BY DEF Rows
<1>2. Row(x[1], x[2]).issued = Cardinality(Mine(x)) * Cardinality(Relevant)
  BY DEF Row, Mine
<1>3. \A p \in PortNames :
        Row(x[1], x[2]).ports[p] = Cardinality({y \in Mine(x) \X Relevant : PortIn(y[1], y[2]) = p})
  BY DEF Row, Mine
<1>4. Row(x[1], x[2]).div = MapThenSumSet(LAMBDA u : block.uops[u].div, Mine(x)) * Cardinality(Relevant)
  BY DEF Row, Mine
<1>5. \A u \in 1..N : u \in Mine(x) <=> RowOf(u) = x
  BY <1>1 DEF Mine, RowOf
<1> QED
  BY <1>1, <1>2, <1>3, <1>4, <1>5

LEMMA UsesFinite ==
  ASSUME IInv, Reported
  PROVE  /\ IsFiniteSet(Relevant) /\ Cardinality(Relevant) \in Nat
         /\ IsFiniteSet(1..N) /\ Cardinality(1..N) = N /\ N \in Nat
         /\ IsFiniteSet(Uses) /\ Cardinality(Uses) = N * Cardinality(Relevant)
<1>1. FirstRelevant \in Int /\ LastRelevant \in Int
  <2>1. Len(uopsForRound) > 1
    BY DEF Reported
  <2> QED
    BY <2>1, WindowFacts
<1>2. IsFiniteSet(Relevant)
  BY <1>1, FS_Interval DEF Relevant
<1>3. Cardinality(Relevant) \in Nat
  BY <1>2, FS_CardinalityType
<1>4. N \in Nat
  BY Facts DEF IInv
<1>5. IsFiniteSet(1..N) /\ Cardinality(1..N) = N
  <2>1. 1 \in Int /\ N \in Int
    BY <1>4
  <2>2. IsFiniteSet(1..N) /\ Cardinality(1..N) = IF 1 > N THEN 0 ELSE (N - 1) + 1
    BY <2>1, FS_Interval
  <2> QED
    BY <1>4, <2>2
<1>6. IsFiniteSet(Uses) /\ Cardinality(Uses) = Cardinality(1..N) * Cardinality(Relevant)
  <2> DEFINE ns == 1..N
  <2> HIDE DEF ns
  <2>1. IsFiniteSet(ns)
    BY <1>5 DEF ns
  <2>2. IsFiniteSet(ns \X Relevant) /\ Cardinality(ns \X Relevant) = Cardinality(ns) * Cardinality(Relevant)
    BY <1>2, <2>1, FS_Product
  <2> QED
    BY <2>2 DEF ns, Uses
<1> QED
  BY <1>2, <1>3, <1>4, <1>5, <1>6

\* The instances on a port, row by row.
LEMMA PortsAgree ==
  ASSUME IInv, Reported, NEW p \in PortNames
  PROVE  TotalOnPort(p) = PortUsage(p)
<1> DEFINE T == {x \in Uses : PortIn(x[1], x[2]) = p}
           part == [t \in T |-> RowOf(t[1])]
           m == [A \in SUBSET T |-> Cardinality(A)]
           w == [x \in T |-> 1]
           h == [r \in Rows |-> m[{t \in T : part[t] = r}]]
<1>0. Given
  BY DEF IInv
<1>1. IsFiniteSet(T)
  <2>1. T \subseteq Uses
    OBVIOUS
  <2> HIDE DEF T
  <2> QED
    BY <2>1, UsesFinite, FS_Subset
<1>2. IsFiniteSet(Rows) /\ \A u \in 1..N : RowOf(u) \in Rows
  BY <1>0, RowsPartition DEF RowOf
<1>3. part \in [T -> Rows]
  BY <1>2 DEF Uses
<1>4. w \in [T -> Nat] /\ IsMeasure(m, w, T)
  <2> HIDE DEF T
  <2> QED
    BY <1>1, CardinalityIsMeasure
<1>5. ASSUME NEW r \in Rows PROVE {t \in T : part[t] = r} = {y \in Mine(r) \X Relevant : PortIn(y[1], y[2]) = p}
  <2>1. \A u \in 1..N : u \in Mine(r) <=> RowOf(u) = r
    BY <1>0, RowIs
  <2>2. Mine(r) \subseteq 1..N
    BY DEF Mine
  <2> QED
    BY <2>1, <2>2 DEF Uses
<1>6. \A r \in Rows : h[r] \in Nat /\ h[r] = Row(r[1], r[2]).ports[p]
  <2> TAKE r \in Rows
  <2> DEFINE Q == {t \in T : part[t] = r}
  <2>1. Q \in SUBSET T
    OBVIOUS
  <2>2. h[r] = m[Q] /\ m[Q] = Cardinality(Q)
    BY <2>1
  <2>3. Q = {y \in Mine(r) \X Relevant : PortIn(y[1], y[2]) = p}
    BY <1>5
  <2>4. m[Q] \in Nat
    BY <1>4, <2>1 DEF IsMeasure
  <2> HIDE DEF Q, h, m
  <2> QED
    BY <1>0, <2>2, <2>3, <2>4, RowIs
<1>7. h \in [Rows -> Nat]
  BY <1>6
<1>a. PartSums(h, m, part, T, Rows) /\ m[T] = Cardinality(T)
  BY DEF PartSums
<1> HIDE DEF h, part, m, w
<1>8. PICK M : IsMeasure(M, h, Rows)
  BY <1>2, <1>7, MeasureExists
<1>9. M[Rows] = m[T]
  <2> HIDE DEF T
  <2> QED
    BY <1>1, <1>2, <1>3, <1>4, <1>8, <1>a, SumOfParts
<1>10. TotalOnPort(p) = M[Rows]
  BY <1>2, <1>6, <1>7, <1>8, OnPortIsSum
<1>11. PortUsage(p) = Cardinality(T)
  BY DEF PortUsage, Uses
<1> QED
  BY <1>9, <1>10, <1>11, <1>a

\* The uops issued, row by row.
LEMMA IssuedAgree ==
  ASSUME IInv, Reported
  PROVE  TotalIssued = N * Cardinality(Relevant)
<1> DEFINE T == Uses
           part == [t \in T |-> RowOf(t[1])]
           m == [A \in SUBSET T |-> Cardinality(A)]
           w == [x \in T |-> 1]
           h == [r \in Rows |-> m[{t \in T : part[t] = r}]]
<1>0. Given
  BY DEF IInv
<1>1. IsFiniteSet(T)
  BY UsesFinite
<1>2. IsFiniteSet(Rows) /\ \A u \in 1..N : RowOf(u) \in Rows
  BY <1>0, RowsPartition DEF RowOf
<1>3. part \in [T -> Rows]
  BY <1>2 DEF Uses
<1>4. w \in [T -> Nat] /\ IsMeasure(m, w, T)
  BY <1>1, CardinalityIsMeasure
<1>5. ASSUME NEW r \in Rows PROVE {t \in T : part[t] = r} = Mine(r) \X Relevant
  <2>1. \A u \in 1..N : u \in Mine(r) <=> RowOf(u) = r
    BY <1>0, RowIs
  <2>2. Mine(r) \subseteq 1..N
    BY DEF Mine
  <2> QED
    BY <2>1, <2>2 DEF Uses
<1>6. \A r \in Rows : h[r] \in Nat /\ h[r] = Row(r[1], r[2]).issued
  <2> TAKE r \in Rows
  <2> DEFINE Q == {t \in T : part[t] = r}
  <2>1. Q \in SUBSET T
    OBVIOUS
  <2>2. h[r] = m[Q] /\ m[Q] = Cardinality(Q)
    BY <2>1
  <2>3. Q = Mine(r) \X Relevant
    BY <1>5
  <2>4. m[Q] \in Nat
    BY <1>4, <2>1 DEF IsMeasure
  <2>5. Cardinality(Mine(r) \X Relevant) = Cardinality(Mine(r)) * Cardinality(Relevant)
    <3>1. Mine(r) \subseteq 1..N
      BY DEF Mine
    <3>2. IsFiniteSet(Mine(r))
      BY <3>1, UsesFinite, FS_Subset
    <3> QED
      BY <3>2, UsesFinite, FS_Product
  <2> HIDE DEF Q, h, m
  <2> QED
    BY <1>0, <2>2, <2>3, <2>4, <2>5, RowIs
<1>7. h \in [Rows -> Nat]
  BY <1>6
<1>a. PartSums(h, m, part, T, Rows) /\ m[T] = Cardinality(T)
  BY DEF PartSums
<1> HIDE DEF h, part, m, w
<1>8. PICK M : IsMeasure(M, h, Rows)
  BY <1>2, <1>7, MeasureExists
<1>9. M[Rows] = m[T]
  <2> HIDE DEF T
  <2> QED
    BY <1>1, <1>2, <1>3, <1>4, <1>8, <1>a, SumOfParts
<1>10. TotalIssued = M[Rows]
  BY <1>2, <1>6, <1>7, <1>8, IssuedIsSum
<1> QED
  BY <1>9, <1>10, <1>a, UsesFinite

\* What a uop is worth is the same in all rounds.
SameWeights(w, v) == \A t \in Uses : w[t] = v[t[1]]

\* What a set of uops occupies the divider for in all the rounds is what it does in one, times the rounds.
LEMMA Rectangle ==
  ASSUME IInv, Reported,
         NEW w \in [Uses -> Nat], NEW v \in [1..N -> Nat], SameWeights(w, v),
         NEW m, IsMeasure(m, w, Uses), NEW d, IsMeasure(d, v, 1..N)
  PROVE  \A A \in SUBSET (1..N) : m[A \X Relevant] = d[A] * Cardinality(Relevant)
<1> DEFINE ns == 1..N
           W == Cardinality(Relevant)
<1>0. IsFiniteSet(Relevant) /\ W \in Nat /\ IsFiniteSet(ns) /\ IsFiniteSet(Uses)
  BY UsesFinite
<1>s. Uses = ns \X Relevant
  BY DEF Uses
<1>m. (\A A \in SUBSET Uses : m[A] \in Nat) /\ m[{}] = 0
  BY DEF IsMeasure
<1>d. (\A A \in SUBSET ns : d[A] \in Nat) /\ d[{}] = 0
      /\ \A A \in SUBSET ns : \A x \in ns : x \notin A => d[A \cup {x}] = d[A] + v[x]
  BY DEF IsMeasure
<1>v. v \in [ns -> Nat]
  OBVIOUS
<1> HIDE DEF ns
<1>1. ASSUME NEW u \in ns PROVE m[{u} \X Relevant] = v[u] * W
  <2> DEFINE S == {Q \in SUBSET Relevant : m[{u} \X Q] = v[u] * Cardinality(Q)}
  <2>0. v[u] \in Nat
    BY <1>v
  <2>1. {} \in S
    <3>1. {u} \X {} = {}
      OBVIOUS
    <3>2. Cardinality({}) = 0 /\ v[u] * 0 = 0
      BY <2>0, FS_EmptySet
    <3> QED
      BY <1>m, <3>1, <3>2
  <2>2. \A Q \in SUBSET Relevant : \A r \in Relevant : Q \in S /\ r \notin Q => Q \cup {r} \in S
    <3> SUFFICES ASSUME NEW Q \in SUBSET Relevant, NEW r \in Relevant, Q \in S, r \notin Q
                 PROVE  m[{u} \X (Q \cup {r})] = v[u] * Cardinality(Q \cup {r})
      OBVIOUS
    <3>1. {u} \X (Q \cup {r}) = ({u} \X Q) \cup {<<u, r>>} /\ <<u, r>> \notin {u} \X Q
          /\ <<u, r>> \in Uses /\ {u} \X Q \in SUBSET Uses
      BY <1>s, <1>1
    <3>2. m[({u} \X Q) \cup {<<u, r>>}] = m[{u} \X Q] + w[<<u, r>>]
      BY <3>1 DEF IsMeasure
    <3>3. w[<<u, r>>] = v[u]
      BY <3>1 DEF SameWeights
    <3>4. IsFiniteSet(Q)
      BY <1>0, FS_Subset
    <3>5. Cardinality(Q) \in Nat /\ Cardinality(Q \cup {r}) = Cardinality(Q) + 1
      BY <3>4, FS_CardinalityType, FS_AddElement
    <3>6. v[u] * (Cardinality(Q) + 1) = (v[u] * Cardinality(Q)) + v[u]
      BY <2>0, <3>5
    <3> QED
      BY <3>1, <3>2, <3>3, <3>5, <3>6
  <2>3. \A Q \in SUBSET Relevant : Q \in S
    <3> HIDE DEF S
    <3> QED
      BY <1>0, <2>1, <2>2, Subsets
  <2> QED
    BY <2>3
<1> DEFINE S == {A \in SUBSET ns : m[A \X Relevant] = d[A] * W}
<1>2. {} \in S
  <2>1. {} \X Relevant = {} /\ 0 * W = 0
    BY <1>0
  <2> QED
    BY <1>m, <1>d, <2>1
<1>3. \A A \in SUBSET ns : \A u \in ns : A \in S /\ u \notin A => A \cup {u} \in S
  <2> SUFFICES ASSUME NEW A \in SUBSET ns, NEW u \in ns, A \in S, u \notin A
               PROVE  m[(A \cup {u}) \X Relevant] = d[A \cup {u}] * W
    OBVIOUS
  <2> DEFINE X == A \X Relevant
             Y == {u} \X Relevant
  <2>1. (A \cup {u}) \X Relevant = X \cup Y /\ X \cap Y = {} /\ X \in SUBSET Uses /\ Y \in SUBSET Uses
    BY <1>s, <1>3
  <2>2. m[X] = d[A] * W /\ m[Y] = v[u] * W
    BY <1>1
  <2> HIDE DEF X, Y
  <2>3. m[X \cup Y] = m[X] + m[Y]
    BY <1>0, <2>1, MeasureUnion
  <2>4. d[A \cup {u}] = d[A] + v[u] /\ d[A] \in Nat /\ v[u] \in Nat
    BY <1>d, <1>v
  <2>5. (d[A] + v[u]) * W = (d[A] * W) + (v[u] * W)
    BY <1>0, <2>4
  <2> QED
    BY <2>1, <2>2, <2>3, <2>4, <2>5
<1>4. \A A \in SUBSET ns : A \in S
  <2> HIDE DEF S
  <2> QED
    BY <1>0, <1>2, <1>3, Subsets
<1> QED
  BY <1>4 DEF ns

\* The cycles of the divider, row by row.
LEMMA DivAgrees ==
  ASSUME IInv, Reported
  PROVE  TotalDiv = DivUsage
<1>0. Given
  BY DEF IInv
<1>1. IsFiniteSet(Uses) /\ IsFiniteSet(1..N) /\ Cardinality(Relevant) \in Nat
  BY UsesFinite
<1>2. IsFiniteSet(Rows) /\ \A u \in 1..N : RowOf(u) \in Rows /\ block.uops[u].div \in Nat
  BY <1>0, RowsPartition DEF RowOf
<1>v. PICK v \in [1..N -> Nat] : \A u \in 1..N : v[u] = block.uops[u].div
  <2> DEFINE f == [u \in 1..N |-> block.uops[u].div]
  <2>1. f \in [1..N -> Nat] /\ \A u \in 1..N : f[u] = block.uops[u].div
    BY <1>2
  <2> HIDE DEF f
  <2> QED
    BY <2>1
<1>w. PICK w \in [Uses -> Nat] : \A t \in Uses : w[t] = block.uops[t[1]].div
  <2> DEFINE f == [t \in Uses |-> block.uops[t[1]].div]
  <2>1. f \in [Uses -> Nat] /\ \A t \in Uses : f[t] = block.uops[t[1]].div
    BY <1>2 DEF Uses
  <2> HIDE DEF f
  <2> QED
    BY <2>1
<1>p. PICK part \in [Uses -> Rows] : \A t \in Uses : part[t] = RowOf(t[1])
  <2> DEFINE f == [t \in Uses |-> RowOf(t[1])]
  <2>1. f \in [Uses -> Rows] /\ \A t \in Uses : f[t] = RowOf(t[1])
    BY <1>2 DEF Uses
  <2> HIDE DEF f
  <2> QED
    BY <2>1
<1>3. SameWeights(w, v)
  BY <1>v, <1>w DEF Uses, SameWeights
<1>4. PICK m : IsMeasure(m, w, Uses)
  BY <1>1, MeasureExists
<1>5. PICK d : IsMeasure(d, v, 1..N)
  BY <1>1, MeasureExists
<1> DEFINE h == [r \in Rows |-> m[{t \in Uses : part[t] = r}]]
<1>a. PartSums(h, m, part, Uses, Rows)
  BY DEF PartSums
<1>r. \A A \in SUBSET (1..N) : m[A \X Relevant] = d[A] * Cardinality(Relevant)
  BY <1>1, <1>3, <1>4, <1>5, <1>v, <1>w, Rectangle
<1>6. ASSUME NEW r \in Rows
      PROVE  h[r] \in Nat /\ h[r] = Row(r[1], r[2]).div
  <2> DEFINE S == Mine(r)
             Q == {t \in Uses : part[t] = r}
  <2>1. S \in SUBSET (1..N) /\ IsFiniteSet(S)
    <3>1. S \subseteq 1..N
      BY DEF Mine
    <3> HIDE DEF S
    <3> QED
      BY <1>1, <3>1, FS_Subset
  <2>2. \A u \in 1..N : u \in S <=> RowOf(u) = r
    BY <1>0, RowIs
  <2>3. Q = S \X Relevant
    BY <1>p, <2>1, <2>2 DEF Uses
  <2>4. m[S \X Relevant] = d[S] * Cardinality(Relevant)
    BY <1>r, <2>1
  <2> DEFINE g == [u \in S |-> block.uops[u].div]
             e == [A \in SUBSET S |-> d[A]]
  <2>5. g \in [S -> Nat] /\ (\A u \in S : g[u] = block.uops[u].div /\ g[u] = v[u])
    BY <1>2, <1>v, <2>1
  <2>6. IsMeasure(e, g, S)
    <3> HIDE DEF S
    <3>1. e \in [SUBSET S -> Nat] /\ e[{}] = 0
      BY <1>5, <2>1 DEF IsMeasure
    <3>2. ASSUME NEW A \in SUBSET S, NEW x \in S, x \notin A PROVE e[A \cup {x}] = e[A] + g[x]
      <4>1. A \in SUBSET (1..N) /\ x \in 1..N /\ A \cup {x} \in SUBSET S
        BY <2>1
      <4>2. d[A \cup {x}] = d[A] + v[x]
        BY <1>5, <3>2, <4>1 DEF IsMeasure
      <4>3. e[A \cup {x}] = d[A \cup {x}] /\ e[A] = d[A] /\ g[x] = v[x]
        BY <2>5, <4>1
      <4> QED
        BY <4>2, <4>3
    <3> HIDE DEF e, g
    <3> QED
      BY <3>1, <3>2 DEF IsMeasure
  <2>7. e[S] = d[S]
    OBVIOUS
  <2> HIDE DEF e, g, S
  <2>8. MapThenSumSet(LAMBDA u : block.uops[u].div, S) = e[S]
    BY <2>1, <2>5, <2>6, RowDivIsSum
  <2>9. Row(r[1], r[2]).div = MapThenSumSet(LAMBDA u : block.uops[u].div, S) * Cardinality(Relevant)
    BY <1>0, RowIs DEF S
  <2>10. h[r] = m[Q] /\ Q \in SUBSET Uses
    OBVIOUS
  <2>11. h[r] \in Nat
    BY <1>4, <2>10 DEF IsMeasure
  <2> HIDE DEF h, Q
  <2> QED
    BY <2>3, <2>4, <2>7, <2>8, <2>9, <2>10, <2>11
<1>7. h \in [Rows -> Nat]
  BY <1>6
<1> HIDE DEF h
<1>8. PICK M : IsMeasure(M, h, Rows)
  BY <1>2, <1>7, MeasureExists
<1>9. M[Rows] = m[Uses]
  BY <1>1, <1>2, <1>4, <1>8, <1>a, <1>p, <1>w, SumOfParts
<1>10. TotalDiv = M[Rows]
  BY <1>2, <1>6, <1>7, <1>8, DivIsSum
<1>11. DivUsage = m[Uses]
  BY <1>1, <1>4, <1>w, DivUsageIsSum
<1> QED
  BY <1>9, <1>10, <1>11

(* For all of these, the rows of build_regular_report add up to what       *)
(* append_python_runtime_bottlenecks counts: the same bottlenecks are      *)
(* reported from the totals as from the uops themselves.                   *)
THEOREM ReportTheorem == Spec => []ReportAgreesWithBottlenecks
<1>1. IInv => ReportAgreesWithBottlenecks
  <2> SUFFICES ASSUME IInv, Reported
               PROVE  /\ TotalIssued = N * Cardinality(Relevant)
                      /\ \A tp \in Throughput :
                           /\ SchedulingBound(tp) <=> \E p \in PortNames : AtLeast(98, TotalOnPort(p), tp)
                           /\ DividerBound(tp) <=> AtLeast(99, TotalDiv, tp)
    BY DEF ReportAgreesWithBottlenecks
  <2>1. \A p \in PortNames : TotalOnPort(p) = PortUsage(p)
    BY PortsAgree
  <2>2. TotalIssued = N * Cardinality(Relevant)
    BY IssuedAgree
  <2>3. TotalDiv = DivUsage
    BY DivAgrees
  <2> QED
    BY <2>1, <2>2, <2>3 DEF SchedulingBound, DividerBound
<1> QED
  BY <1>1, LogSound, PTL
=============================================================================
