------------------------- MODULE PacketFormatsProofs --------------------------
(***************************************************************************)
(* What PacketFormats computes, for every buffer, address, port, payload   *)
(* and length.  The sum of a buffer is characterised by its running sums;  *)
(* folding computes the residue modulo 0xffff that is 0 for no other sum,  *)
(* by induction over the sums; a checksum therefore completes a sum to a   *)
(* multiple of 0xffff.  Buffers are compared octet by octet.               *)
(***************************************************************************)
EXTENDS PacketFormats, WellFoundedInduction, SequenceTheorems, TLAPS

-----------------------------------------------------------------------------
(* Induction                                                                *)

\* A set with 0 that is closed under successors holds every number.
LEMMA Induction ==
    ASSUME NEW S, 0 \in S, \A n \in Nat : n \in S => n + 1 \in S
    PROVE  \A n \in Nat : n \in S
  <1> DEFINE T == Nat \ S
             R == OpToRel(<, Nat)
  <1>1. SUFFICES ASSUME T # {} PROVE FALSE OBVIOUS
  <1>2. IsWellFoundedOn(R, Nat) BY NatLessThanWellFounded
  <1>3. PICK x \in T : \A y \in T : ~(<<y, x>> \in R)
    <2> HIDE DEF R, T
    <2>1. T \subseteq Nat BY DEF T
    <2> QED BY <1>1, <1>2, <2>1, WFMin
  <1>4. x \in Nat \ {0} OBVIOUS
  <1>5. x - 1 \in Nat /\ x - 1 < x /\ x = (x - 1) + 1 BY <1>4
  <1>6. x - 1 \notin S BY <1>5
  <1>7. <<x - 1, x>> \in R BY <1>4, <1>5 DEF OpToRel
  <1> QED BY <1>3, <1>5, <1>6, <1>7

\* A number is in a set with every number whose predecessors all are in it.
LEMMA CourseOfValues ==
    ASSUME NEW S, \A n \in Nat : (\A m \in Nat : m < n => m \in S) => n \in S
    PROVE  \A n \in Nat : n \in S
  <1> DEFINE T == Nat \ S
             R == OpToRel(<, Nat)
  <1>1. SUFFICES ASSUME T # {} PROVE FALSE OBVIOUS
  <1>2. IsWellFoundedOn(R, Nat) BY NatLessThanWellFounded
  <1>3. PICK x \in T : \A y \in T : ~(<<y, x>> \in R)
    <2> HIDE DEF R, T
    <2>1. T \subseteq Nat BY DEF T
    <2> QED BY <1>1, <1>2, <2>1, WFMin
  <1>4. ASSUME NEW m \in Nat, m < x PROVE m \in S
    <2>1. <<m, x>> \in R BY <1>4 DEF OpToRel
    <2> QED BY <1>3, <2>1
  <1> QED BY <1>4

-----------------------------------------------------------------------------
(* The sum of a buffer                                                      *)

\* The running sums of the numbers t.
LEMMA RunningSum ==
    ASSUME NEW t, NEW n \in Nat
    PROVE  \E f : f = [i \in 0..n |-> IF i = 0 THEN 0 ELSE f[i - 1] + t[i]]
  <1> DEFINE S == {k \in Nat : \E f : f = [i \in 0..k |-> IF i = 0 THEN 0 ELSE f[i - 1] + t[i]]}
  <1>1. 0 \in S
    <2> DEFINE f == [i \in 0..0 |-> 0]
    <2>1. f = [i \in 0..0 |-> IF i = 0 THEN 0 ELSE f[i - 1] + t[i]] OBVIOUS
    <2> QED BY <2>1
  <1>2. ASSUME NEW k \in Nat, k \in S PROVE k + 1 \in S
    <2>1. PICK f : f = [i \in 0..k |-> IF i = 0 THEN 0 ELSE f[i - 1] + t[i]] BY <1>2
    <2> DEFINE g == [i \in 0..k + 1 |-> IF i = k + 1 THEN f[k] + t[k + 1] ELSE f[i]]
               h == [i \in 0..k + 1 |-> IF i = 0 THEN 0 ELSE g[i - 1] + t[i]]
    <2>2. ASSUME NEW i \in 0..k + 1 PROVE g[i] = h[i]
      <3>1. CASE i = k + 1
        <4>1. i - 1 = k /\ k \in 0..k + 1 /\ k # k + 1 /\ i # 0 BY <3>1
        <4>2. g[i - 1] = f[k] BY <4>1
        <4> QED BY <3>1, <4>1, <4>2
      <3>2. CASE i = 0 BY <2>1, <3>2
      <3>3. CASE i \in 1..k
        <4>1. i - 1 \in 0..k + 1 /\ i - 1 # k + 1 /\ i # 0 /\ i # k + 1 /\ i \in 0..k BY <3>3
        <4>2. g[i - 1] = f[i - 1] BY <4>1
        <4>3. f[i] = f[i - 1] + t[i] BY <2>1, <4>1
        <4> QED BY <4>1, <4>2, <4>3
      <3> QED BY <3>1, <3>2, <3>3
    <2>3. g = h BY <2>2
    <2>4. g = [i \in 0..k + 1 |-> IF i = 0 THEN 0 ELSE g[i - 1] + t[i]] BY <2>3 DEF h
    <2> HIDE DEF g
    <2>5. k + 1 \in Nat OBVIOUS
    <2> QED BY <2>4, <2>5
  <1> HIDE DEF S
  <1>3. n \in S BY <1>1, <1>2, Induction
  <1> QED BY <1>3 DEF S

Weight(buf, i) == IF i % 2 = 1 THEN 256 * buf[i] ELSE buf[i]

\* f holds the sums of the beginnings of a buffer.
Sums(f, buf) ==
    f = [i \in 0..Len(buf) |-> IF i = 0 THEN 0 ELSE f[i - 1] + Weight(buf, i)]

LEMMA WordSumIsSum ==
    ASSUME NEW buf \in Seq(Nat)
    PROVE  \E f : Sums(f, buf) /\ WordSum(buf) = f[Len(buf)]
  <1> DEFINE t == [i \in 1..Len(buf) |-> Weight(buf, i)]
             sum[i \in 0..Len(buf)] ==
               IF i = 0 THEN 0 ELSE sum[i - 1] + (IF i % 2 = 1 THEN 256 * buf[i] ELSE buf[i])
  <1>1. PICK f : f = [i \in 0..Len(buf) |-> IF i = 0 THEN 0 ELSE f[i - 1] + t[i]]
    <2> HIDE DEF t
    <2>1. Len(buf) \in Nat OBVIOUS
    <2> QED BY <2>1, RunningSum
  <1>2. f = [i \in 0..Len(buf) |->
               IF i = 0 THEN 0 ELSE f[i - 1] + (IF i % 2 = 1 THEN 256 * buf[i] ELSE buf[i])]
    <2> DEFINE g == [i \in 0..Len(buf) |->
               IF i = 0 THEN 0 ELSE f[i - 1] + (IF i % 2 = 1 THEN 256 * buf[i] ELSE buf[i])]
    <2>1. ASSUME NEW i \in 0..Len(buf) PROVE f[i] = g[i]
      <3>1. CASE i = 0 BY <1>1, <3>1
      <3>2. CASE i # 0
        <4>1. i \in 1..Len(buf) BY <3>2
        <4>2. f[i] = f[i - 1] + t[i] BY <1>1, <3>2
        <4>3. t[i] = Weight(buf, i) BY <4>1
        <4> QED BY <3>2, <4>2, <4>3 DEF Weight
      <3> QED BY <3>1, <3>2
    <2>2. f = [i \in 0..Len(buf) |-> f[i]]
      <3> HIDE DEF t
      <3> QED BY <1>1
    <2> QED BY <2>1, <2>2
  <1>3. sum = [i \in 0..Len(buf) |->
               IF i = 0 THEN 0 ELSE sum[i - 1] + (IF i % 2 = 1 THEN 256 * buf[i] ELSE buf[i])]
    BY <1>2
  <1>4. WordSum(buf) = sum[Len(buf)] BY DEF WordSum
  <1> HIDE DEF sum
  <1> QED BY <1>3, <1>4 DEF Sums, Weight

Residue(n) == IF n = 0 THEN 0 ELSE ((n - 1) % 65535) + 1

\* Folding computes the residue modulo 65535 that is not 0 unless the sum is.
LEMMA FoldedIsResidue ==
    \A n \in Nat : Folded[n] = Residue(n)
  <1> DEFINE Closed == [n \in Nat |-> IF n = 0 THEN 0 ELSE ((n - 1) % 65535) + 1]
             Step(n) == (n \div 65536) + (n % 65536)
             Folds(F) == F = [sum \in Nat |->
                                IF sum > 65535 THEN F[(sum \div 65536) + (sum % 65536)] ELSE sum]
  <1>1. ASSUME NEW n \in Nat, n > 65535
        PROVE  Step(n) \in Nat /\ Step(n) < n /\ Step(n) # 0 /\ Closed[Step(n)] = Closed[n]
    <2> DEFINE q == n \div 65536
               r == n % 65536
    <2>1. q \in Nat /\ r \in Nat OBVIOUS
    <2>2. n = 65536 * q + r OBVIOUS
    <2> HIDE DEF q, r
    <2>3. r < 65536 BY DEF r
    <2>4. q > 0 BY <1>1, <2>1, <2>2, <2>3
    <2>5. q + r - 1 \in Nat /\ n - 1 = (q + r - 1) + 65535 * q BY <2>1, <2>2, <2>4
    <2>6. ((q + r - 1) + 65535 * q) % 65535 = (q + r - 1) % 65535 BY <2>1, <2>5
    <2>7. (n - 1) % 65535 = (q + r - 1) % 65535 BY <2>5, <2>6
    <2>8. q + r \in Nat /\ q + r # 0 /\ q + r < n BY <2>1, <2>2, <2>4
    <2>9. Step(n) = q + r BY DEF q, r
    <2> QED BY <1>1, <2>7, <2>8, <2>9
  <1>2. ASSUME NEW n \in Nat, n <= 65535 PROVE Closed[n] = n
    <2>1. CASE n = 0 BY <2>1
    <2>2. CASE n # 0
      <3>1. n - 1 \in Nat /\ n - 1 < 65535 BY <1>2, <2>2
      <3>2. (n - 1) % 65535 = n - 1 BY <3>1
      <3> QED BY <2>2, <3>2
    <2> QED BY <2>1, <2>2
  <1>3. Folds(Closed)
    <2> DEFINE G == [sum \in Nat |-> IF sum > 65535 THEN Closed[Step(sum)] ELSE sum]
    <2>1. ASSUME NEW n \in Nat PROVE Closed[n] = G[n]
      <3> HIDE DEF Closed, Step
      <3>1. CASE n > 65535 BY <1>1, <3>1
      <3>2. CASE n <= 65535 BY <1>2, <3>2
      <3> QED BY <3>1, <3>2
    <2>2. Closed = G BY <2>1
    <2> QED BY <2>2
  <1>4. Folds(Folded)
    <2>1. Folded = CHOOSE F : Folds(F) BY DEF Folded
    <2> HIDE DEF Folds, Closed
    <2> QED BY <1>3, <2>1
  <1> DEFINE S == {n \in Nat : Folded[n] = Closed[n]}
  <1>5. ASSUME NEW n \in Nat, \A m \in Nat : m < n => m \in S PROVE n \in S
    <2> HIDE DEF Closed
    <2>1. CASE n > 65535
      <3>1. Folded[n] = Folded[Step(n)] BY <1>4, <2>1
      <3> QED BY <1>1, <1>5, <2>1, <3>1
    <2>2. CASE n <= 65535
      <3>1. Folded[n] = n BY <1>4, <2>2
      <3> QED BY <1>2, <2>2, <3>1
    <2> QED BY <2>1, <2>2
  <1>6. \A n \in Nat : n \in S
    <2> HIDE DEF S
    <2> QED BY <1>5, CourseOfValues
  <1> QED BY <1>6 DEF Residue


\* The sums of beginnings one by one.
LEMMA SumsStep ==
    ASSUME NEW buf \in Seq(Nat), NEW f, Sums(f, buf)
    PROVE  /\ Len(buf) \in Nat
           /\ f[0] = 0
           /\ \A i \in 1..Len(buf) : f[i] = f[i - 1] + Weight(buf, i) /\ Weight(buf, i) \in Nat
           /\ \A i \in 0..Len(buf) : f[i] \in Nat
  <1>1. Len(buf) \in Nat OBVIOUS
  <1>2. f[0] = 0
    <2>1. 0 \in 0..Len(buf) BY <1>1
    <2> QED BY <2>1 DEF Sums
  <1>3. \A i \in 1..Len(buf) : Weight(buf, i) \in Nat
    <2>1. \A i \in 1..Len(buf) : buf[i] \in Nat OBVIOUS
    <2>2. \A n \in Nat : 256 * n \in Nat OBVIOUS
    <2> QED BY <2>1, <2>2 DEF Weight
  <1>4. ASSUME NEW i \in 1..Len(buf) PROVE f[i] = f[i - 1] + Weight(buf, i)
    <2>1. i \in 0..Len(buf) /\ i # 0 BY <1>1
    <2> QED BY <2>1 DEF Sums
  <1> DEFINE S == {n \in Nat : n <= Len(buf) => f[n] \in Nat}
  <1>5. 0 \in S BY <1>2
  <1>6. ASSUME NEW n \in Nat, n \in S PROVE n + 1 \in S
    <2>1. CASE n + 1 <= Len(buf)
      <3>1. n + 1 \in 1..Len(buf) /\ (n + 1) - 1 = n /\ f[n] \in Nat BY <1>1, <1>6, <2>1
      <3>2. f[n + 1] = f[n] + Weight(buf, n + 1) /\ Weight(buf, n + 1) \in Nat BY <1>3, <1>4, <3>1
      <3> QED BY <3>1, <3>2
    <2>2. CASE ~(n + 1 <= Len(buf)) BY <2>2
    <2> QED BY <2>1, <2>2
  <1>7. \A n \in Nat : n \in S
    <2> HIDE DEF S
    <2> QED BY <1>5, <1>6, Induction
  <1> QED BY <1>1, <1>2, <1>3, <1>4, <1>7

LEMMA WordSumNat ==
    ASSUME NEW buf \in Seq(Nat)
    PROVE  WordSum(buf) \in Nat
  <1>1. PICK f : Sums(f, buf) /\ WordSum(buf) = f[Len(buf)] BY WordSumIsSum
  <1> QED BY <1>1, SumsStep

\* The sum is zero for zeros only.
LEMMA SumPositive ==
    ASSUME NEW buf \in Seq(Nat), Len(buf) > 0, buf[1] > 0
    PROVE  WordSum(buf) # 0
  <1>1. PICK f : Sums(f, buf) /\ WordSum(buf) = f[Len(buf)] BY WordSumIsSum
  <1> DEFINE S == {n \in Nat : n + 1 <= Len(buf) => f[n + 1] > 0}
  <1>2. /\ Len(buf) \in Nat /\ f[0] = 0
        /\ \A i \in 1..Len(buf) : f[i] = f[i - 1] + Weight(buf, i) /\ Weight(buf, i) \in Nat
        /\ \A i \in 0..Len(buf) : f[i] \in Nat
    BY <1>1, SumsStep
  <1>3. 0 \in S
    <2>1. 1 \in 1..Len(buf) /\ buf[1] \in Nat BY <1>2
    <2>2. Weight(buf, 1) = 256 * buf[1] BY DEF Weight
    <2>3. f[1] = f[1 - 1] + Weight(buf, 1) BY <1>2, <2>1
    <2>4. f[1] = 256 * buf[1] BY <1>2, <2>1, <2>2, <2>3
    <2>5. f[1] > 0 BY <2>1, <2>4
    <2> QED BY <2>5
  <1>4. ASSUME NEW n \in Nat, n \in S PROVE n + 1 \in S
    <2>1. CASE n + 2 <= Len(buf)
      <3>1. n + 2 \in 1..Len(buf) /\ (n + 2) - 1 = n + 1 /\ n + 1 \in 0..Len(buf) /\ f[n + 1] > 0
        BY <1>2, <1>4, <2>1
      <3>2. f[n + 2] = f[n + 1] + Weight(buf, n + 2) /\ Weight(buf, n + 2) \in Nat BY <1>2, <3>1
      <3>3. f[n + 2] > 0 BY <1>2, <3>1, <3>2
      <3>4. (n + 1) + 1 = n + 2 OBVIOUS
      <3> QED BY <3>3, <3>4
    <2>2. CASE ~(n + 2 <= Len(buf)) BY <2>2
    <2> QED BY <2>1, <2>2
  <1>5. \A n \in Nat : n \in S
    <2> HIDE DEF S
    <2> QED BY <1>3, <1>4, Induction
  <1>6. Len(buf) - 1 \in Nat /\ (Len(buf) - 1) + 1 = Len(buf) BY <1>2
  <1>7. Len(buf) - 1 \in S BY <1>5, <1>6
  <1> QED BY <1>1, <1>6, <1>7

\* The terms of two sums, regrouped.
Regrouped(a, h, b, l) == (a + h) + (b + l) = (a + b) + (h + l)

LEMMA SumsRegroup ==
    ASSUME NEW a \in Nat, NEW h \in Nat, NEW b \in Nat, NEW l \in Nat
    PROVE  Regrouped(a, h, b, l)
  BY DEF Regrouped

\* The two last terms of a sum, exchanged.
Swapped(a, h, b) == (a + h) + b = (a + b) + h

LEMMA SumsSwap ==
    ASSUME NEW a \in Nat, NEW h \in Nat, NEW b \in Nat
    PROVE  Swapped(a, h, b)
  BY DEF Swapped

\* Filling in a 16-bit field that was zero, at an even offset, adds its value.
LEMMA SumOfFilledIn ==
    ASSUME NEW buf \in Seq(Nat), NEW filled \in Seq(Nat), Len(filled) = Len(buf),
           NEW k \in 1..Len(buf), k + 1 <= Len(buf), k % 2 = 1,
           buf[k] = 0, buf[k + 1] = 0,
           \A i \in 1..Len(buf) : i # k /\ i # k + 1 => filled[i] = buf[i]
    PROVE  WordSum(filled) = WordSum(buf) + Word(filled, k)
  <1>1. PICK f : Sums(f, buf) /\ WordSum(buf) = f[Len(buf)] BY WordSumIsSum
  <1>2. PICK g : Sums(g, filled) /\ WordSum(filled) = g[Len(buf)] BY WordSumIsSum
  <1>3. /\ Len(buf) \in Nat /\ f[0] = 0
        /\ \A i \in 1..Len(buf) : f[i] = f[i - 1] + Weight(buf, i) /\ Weight(buf, i) \in Nat
        /\ \A i \in 0..Len(buf) : f[i] \in Nat
    BY <1>1, SumsStep
  <1>4. /\ g[0] = 0
        /\ \A i \in 1..Len(buf) : g[i] = g[i - 1] + Weight(filled, i) /\ Weight(filled, i) \in Nat
        /\ \A i \in 0..Len(buf) : g[i] \in Nat
    BY <1>2, SumsStep
  <1> DEFINE high == 256 * filled[k]
             low  == filled[k + 1]
             Added(n) == IF n < k THEN 0 ELSE IF n = k THEN high ELSE high + low
             S == {n \in Nat : n <= Len(buf) => g[n] = f[n] + Added(n)}
  <1>5. high \in Nat /\ low \in Nat
    <2>1. k + 1 \in 1..Len(filled) BY <1>3
    <2>2. filled[k] \in Nat /\ filled[k + 1] \in Nat BY <2>1, ElementOfSeq
    <2> QED BY <2>2
  <1>6. ASSUME NEW i \in 1..Len(buf)
        PROVE  Weight(filled, i) = Weight(buf, i) + (IF i = k THEN high ELSE IF i = k + 1 THEN low ELSE 0)
    <2>1. CASE i = k
      <3>1. Weight(filled, i) = high /\ Weight(buf, i) = 256 * 0 BY <2>1 DEF Weight
      <3> QED BY <1>5, <2>1, <3>1
    <2>2. CASE i = k + 1
      <3>1. i % 2 # 1 /\ i # k
        <4> DEFINE m == k \div 2
        <4>1. m \in Nat /\ k = 2 * m + 1 OBVIOUS
        <4> HIDE DEF m
        <4>2. (2 * (m + 1)) % 2 = 0 /\ k + 1 = 2 * (m + 1) BY <4>1
        <4>3. k + 1 # k OBVIOUS
        <4> QED BY <2>2, <4>2, <4>3
      <3>2. Weight(filled, i) = low /\ Weight(buf, i) = 0 BY <2>2, <3>1 DEF Weight
      <3> HIDE DEF low
      <3> QED BY <1>5, <2>2, <3>1, <3>2
    <2>3. CASE i # k /\ i # k + 1
      <3>1. Weight(filled, i) = Weight(buf, i) BY <2>3 DEF Weight
      <3> QED BY <1>3, <2>3, <3>1
    <2> QED BY <2>1, <2>2, <2>3
  <1>7. 0 \in S BY <1>3, <1>4
  <1>8. ASSUME NEW n \in Nat, n \in S PROVE n + 1 \in S
    <2> HIDE DEF high, low
    <2>1. CASE n + 1 <= Len(buf)
      <3>1. n + 1 \in 1..Len(buf) /\ (n + 1) - 1 = n /\ n \in 0..Len(buf) BY <1>3, <2>1
      <3>2. f[n + 1] = f[n] + Weight(buf, n + 1) /\ Weight(buf, n + 1) \in Nat BY <1>3, <3>1
      <3>3. g[n + 1] = g[n] + Weight(filled, n + 1) BY <1>4, <3>1
      <3>4. g[n] = f[n] + Added(n) /\ f[n] \in Nat BY <1>3, <1>8, <3>1
      <3>5. g[n + 1] = f[n + 1] + Added(n + 1)
        <4>1. CASE n + 1 = k
          <5>1. Weight(filled, n + 1) = Weight(buf, n + 1) + high BY <1>6, <3>1, <4>1
          <5>2. Added(n) = 0 /\ Added(n + 1) = high BY <3>1, <4>1
          <5> HIDE DEF Added
          <5>3. g[n] = f[n] BY <3>4, <5>2
          <5>4. g[n + 1] = g[n] + (Weight(buf, n + 1) + high) BY <3>3, <5>1
          <5>5. g[n + 1] = f[n + 1] + high BY <1>5, <3>2, <3>4, <5>3, <5>4
          <5> QED BY <5>2, <5>5
        <4>2. CASE n + 1 = k + 1
          <5>1. n + 1 # k /\ n = k BY <4>2
          <5>2. Weight(filled, n + 1) = Weight(buf, n + 1) + low BY <1>6, <3>1, <4>2, <5>1
          <5>3. Added(n) = high /\ Added(n + 1) = high + low BY <5>1
          <5> HIDE DEF Added
          <5>4. g[n] = f[n] + high BY <3>4, <5>3
          <5>5. g[n + 1] = g[n] + (Weight(buf, n + 1) + low) BY <3>3, <5>2
          <5>6. g[n + 1] = f[n + 1] + (high + low)
            <6>1. PICK before \in Nat : before = f[n] BY <3>4
            <6>2. PICK wt \in Nat : wt = Weight(buf, n + 1) BY <3>2
            <6>3. Regrouped(before, high, wt, low)
              BY <1>5, <6>1, <6>2, SumsRegroup, Zenon
            <6>4. (before + high) + (wt + low) = (before + wt) + (high + low)
              BY <6>3, Zenon DEF Regrouped
            <6>5. g[n + 1] = (before + high) + (wt + low) /\ f[n + 1] = before + wt
              BY <3>2, <5>4, <5>5, <6>1, <6>2, Zenon
            <6> QED BY <6>4, <6>5, Zenon
          <5> QED BY <5>3, <5>6
        <4>3. CASE n + 1 # k /\ n + 1 # k + 1
          <5>1. Weight(filled, n + 1) = Weight(buf, n + 1) BY <1>6, <3>1, <3>2, <4>3
          <5>2. Added(n) = Added(n + 1) /\ Added(n) \in Nat BY <1>5, <4>3
          <5> HIDE DEF Added
          <5>3. f[n] \in Nat /\ Added(n) \in Nat /\ Weight(buf, n + 1) \in Nat
            BY <3>2, <3>4, <5>2
          <5>4. (f[n] + Added(n)) + Weight(buf, n + 1) = (f[n] + Weight(buf, n + 1)) + Added(n)
            <6>1. Swapped(f[n], Added(n), Weight(buf, n + 1)) BY <5>3, SumsSwap, Zenon
            <6> QED BY <6>1, Zenon DEF Swapped
          <5> QED BY <3>2, <3>3, <3>4, <5>1, <5>2, <5>4, Zenon
        <4> QED BY <4>1, <4>2, <4>3
      <3> QED BY <3>5
    <2>2. CASE ~(n + 1 <= Len(buf)) BY <2>2
    <2> QED BY <2>1, <2>2
  <1>9. \A n \in Nat : n \in S
    <2> HIDE DEF S
    <2> QED BY <1>7, <1>8, Induction
  <1>10. g[Len(buf)] = f[Len(buf)] + high + low
    <2>1. Len(buf) \in Nat /\ ~(Len(buf) < k) /\ Len(buf) # k BY <1>3
    <2> HIDE DEF high, low
    <2>3. Added(Len(buf)) = high + low BY <2>1
    <2> HIDE DEF Added
    <2>2. g[Len(buf)] = f[Len(buf)] + Added(Len(buf))
      <3>1. Len(buf) <= Len(buf) BY <2>1
      <3> QED BY <1>9, <2>1, <3>1, Zenon
    <2>4. f[Len(buf)] \in Nat BY <1>3
    <2> QED BY <1>5, <2>2, <2>3, <2>4
  <1>11. Word(filled, k) = high + low BY DEF Word
  <1>12. WordSum(buf) \in Nat BY <1>1, <1>3
  <1> HIDE DEF high, low
  <1> QED BY <1>1, <1>2, <1>5, <1>10, <1>11, <1>12

Full == 65535
Multiple(n) == \E j \in Nat : j # 0 /\ n = Full * j
Leaves(n, v) == v # 0 /\ v <= 65535 /\ \E k \in Nat : n = 65535 * k + v

\* What a multiple of 65535, and what any other number is folded to.
LEMMA FoldedMultiple ==
    ASSUME NEW n \in Nat, Multiple(n)
    PROVE  Folded[n] = 65535
  <1>1. PICK j \in Nat : j # 0 /\ n = Full * j BY DEF Multiple
  <1>2. PICK k \in Nat : k = j - 1 BY <1>1, SMT
  <1>3. n # 0 /\ n - 1 = 65534 + 65535 * k BY <1>1, <1>2, SMT DEF Full
  <1>4. (65534 + 65535 * k) % 65535 = 65534 BY SMT
  <1>5. (n - 1) % 65535 = 65534 BY <1>3, <1>4
  <1>6. Residue(n) = 65535 BY <1>3, <1>5, SMT DEF Residue
  <1> QED BY <1>6, FoldedIsResidue

LEMMA FoldedLeaves ==
    ASSUME NEW n \in Nat, n # 0
    PROVE  Folded[n] \in Nat /\ Leaves(n, Folded[n])
  <1>1. PICK m \in Nat : m = n - 1 BY SMT
  <1>2. /\ m % 65535 \in Nat /\ m % 65535 <= 65534 /\ m \div 65535 \in Nat
        /\ m = 65535 * (m \div 65535) + (m % 65535)
    BY SMT
  <1>3. PICK r \in Nat : r = m % 65535 /\ r <= 65534 BY <1>2
  <1>4. PICK k \in Nat : k = m \div 65535 BY <1>2
  <1>5. m = 65535 * k + r BY <1>2, <1>3, <1>4
  <1>6. PICK v \in Nat : v = r + 1 BY SMT
  <1>7. v # 0 /\ v <= 65535 /\ n = 65535 * k + v BY <1>1, <1>3, <1>5, <1>6, SMT
  <1>8. Residue(n) = v BY <1>1, <1>3, <1>6, SMT DEF Residue
  <1>9. Leaves(n, v) BY <1>7 DEF Leaves
  <1> QED BY <1>8, <1>9, FoldedIsResidue

\* A sum and the checksum made from it add up to zero, that is 65535.
LEMMA ChecksumVerifies ==
    ASSUME NEW buf \in Seq(Nat), WordSum(buf) # 0
    PROVE  /\ checksum(buf) \in Nat /\ checksum(buf) # 0 /\ checksum(buf) <= 65535
           /\ Folded[WordSum(buf) + checksum(buf)] = 65535
  <1>1. PICK n \in Nat : n = WordSum(buf) /\ n # 0 BY WordSumNat
  <1>2. PICK v \in Nat : v = Folded[n] /\ Leaves(n, v) BY <1>1, FoldedLeaves
  <1>3. checksum(buf) = IF 65535 - v = 0 THEN 65535 ELSE 65535 - v BY <1>1, <1>2 DEF checksum
  <1>4. PICK k \in Nat : v # 0 /\ v <= 65535 /\ n = 65535 * k + v BY <1>2 DEF Leaves
  <1>5. \E c \in Nat : checksum(buf) = c /\ c # 0 /\ c <= 65535 /\ Multiple(n + c)
    <2>1. CASE v = 65535
      <3>1. checksum(buf) = 65535 BY <1>3, <2>1, SMT
      <3>2. PICK j \in Nat : j = k + 2 /\ j # 0 BY SMT
      <3>3. n + 65535 = Full * j BY <1>4, <2>1, <3>2, SMT DEF Full
      <3>4. Multiple(n + 65535) BY <3>2, <3>3 DEF Multiple
      <3> QED BY <3>1, <3>4, SMT
    <2>2. CASE v # 65535
      <3>1. PICK c \in Nat : c = 65535 - v /\ c # 0 /\ c <= 65535 BY <1>4, <2>2, SMT
      <3>2. checksum(buf) = c BY <1>3, <3>1, SMT
      <3>3. PICK j \in Nat : j = k + 1 /\ j # 0 BY SMT
      <3>4. n + c = Full * j BY <1>4, <3>1, <3>3, SMT DEF Full
      <3>5. Multiple(n + c) BY <3>3, <3>4 DEF Multiple
      <3> QED BY <3>1, <3>2, <3>5
    <2> QED BY <2>1, <2>2
  <1>6. PICK c \in Nat : checksum(buf) = c /\ c # 0 /\ c <= 65535 /\ Multiple(n + c) BY <1>5
  <1>7. n + c \in Nat BY SMT
  <1>8. Folded[n + c] = 65535 BY <1>6, <1>7, FoldedMultiple
  <1> QED BY <1>1, <1>6, <1>8

\* The largest packet fits into the 16 bits of a length.
LEMMA LimitShort == MaxPacket \in Nat /\ MaxPacket <= 65535
  BY PacketAssumption

-----------------------------------------------------------------------------
(* Fields and headers                                                       *)

LEMMA FieldIs ==
    ASSUME NEW n \in Nat
    PROVE  /\ Field16(n) \in Seq(Nat) /\ Len(Field16(n)) = 2
           /\ n <= 65535 => Word(Field16(n), 1) = n
  <1>1. /\ n \div 256 \in Nat /\ n % 256 \in Nat /\ n % 256 < 256
        /\ n = 256 * (n \div 256) + (n % 256)
    BY SMT
  <1>2. PICK q \in Nat : q = n \div 256 BY <1>1
  <1>3. PICK r \in Nat : r = n % 256 BY <1>1
  <1>4. q % 256 \in Nat BY SMT
  <1>5. Field16(n) = << q % 256, r >> BY <1>2, <1>3 DEF Field16
  <1>6. Field16(n) \in Seq(Nat) /\ Len(Field16(n)) = 2 BY <1>4, <1>5
  <1>7. Word(Field16(n), 1) = 256 * (q % 256) + r BY <1>5 DEF Word
  <1>8. ASSUME n <= 65535 PROVE Word(Field16(n), 1) = n
    <2>1. n = 256 * q + r BY <1>1, <1>2, <1>3
    <2>2. q < 256 BY <1>8, <2>1, SMT
    <2>3. q % 256 = q BY <2>2, SMT
    <2> QED BY <1>7, <2>1, <2>3
  <1> QED BY <1>6, <1>8

LEMMA Concatenated ==
    ASSUME NEW s \in Seq(Nat), NEW t \in Seq(Nat)
    PROVE  /\ s \o t \in Seq(Nat)
           /\ Len(s \o t) = Len(s) + Len(t)
           /\ \A i \in 1..Len(s) : (s \o t)[i] = s[i]
           /\ \A i \in 1..Len(t) : (s \o t)[Len(s) + i] = t[i]
           /\ SubSeq(s \o t, Len(s) + 1, Len(s) + Len(t)) = t
  OBVIOUS

LEMMA Associated ==
    ASSUME NEW s \in Seq(Nat), NEW t \in Seq(Nat), NEW u \in Seq(Nat)
    PROVE  (s \o t) \o u = s \o (t \o u)
  OBVIOUS

\* Three fields, and a fourth of 16 bits behind them.
LEMMA ThreeFields ==
    ASSUME NEW a \in Seq(Nat), NEW b \in Seq(Nat), NEW c \in Seq(Nat),
           Len(a) = 2, Len(b) = 2, Len(c) = 2
    PROVE  a \o b \o c \in Seq(Nat) /\ Len(a \o b \o c) = 6
  <1>1. PICK s \in Seq(Nat) : s = a \o b /\ Len(s) = Len(a) + Len(b) BY Concatenated
  <1>2. PICK t \in Seq(Nat) : t = s \o c /\ Len(t) = Len(s) + Len(c) BY Concatenated
  <1>3. Len(t) = 6 BY <1>1, <1>2
  <1> QED BY <1>1, <1>2, <1>3

LEMMA FourthField ==
    ASSUME NEW h \in Seq(Nat), Len(h) = 6, NEW d \in Seq(Nat), Len(d) = 2
    PROVE  /\ h \o d \in Seq(Nat) /\ Len(h \o d) = 8
           /\ \A i \in 1..6 : (h \o d)[i] = h[i]
           /\ (h \o d)[7] = d[1] /\ (h \o d)[8] = d[2]
  <1>1. PICK s \in Seq(Nat) : s = h \o d BY Concatenated
  <1>2. /\ Len(s) = Len(h) + Len(d)
        /\ \A i \in 1..Len(h) : s[i] = h[i]
        /\ \A i \in 1..Len(d) : s[Len(h) + i] = d[i]
    <2>1. /\ Len(h \o d) = Len(h) + Len(d)
          /\ \A i \in 1..Len(h) : (h \o d)[i] = h[i]
          /\ \A i \in 1..Len(d) : (h \o d)[Len(h) + i] = d[i]
      BY Concatenated, Zenon
    <2> QED BY <1>1, <2>1, Zenon
  <1>3. 1 \in 1..Len(d) /\ 2 \in 1..Len(d) OBVIOUS
  <1>4. s[Len(h) + 1] = d[1] /\ s[Len(h) + 2] = d[2] BY <1>2, <1>3
  <1>5. Len(h) + 1 = 7 /\ Len(h) + 2 = 8 OBVIOUS
  <1>6. s[7] = d[1] /\ s[8] = d[2] BY <1>4, <1>5
  <1>7. Len(s) = 8 BY <1>2
  <1>8. \A i \in 1..6 : s[i] = h[i] BY <1>2
  <1> QED BY <1>1, <1>6, <1>7, <1>8

\* Two UDP headers with the same ports and length.
SameHeader(U, Z) == \A i \in Nat : 0 < i /\ i <= 6 => U[i] = Z[i]

\* A UDP header U with checksum c, and the same header Z with none.
WithAndWithout(U, Z, c) ==
    /\ U \in Seq(Nat) /\ Len(U) = 8 /\ Z \in Seq(Nat) /\ Len(Z) = 8
    /\ SameHeader(U, Z)
    /\ Word(U, 7) = Word(Field16(c), 1)
    /\ Z[7] = 0 /\ Z[8] = 0

LEMMA UdpHdrIs ==
    ASSUME NEW src \in Nat, NEW dst \in Nat, NEW ulen \in Nat, NEW c \in Nat
    PROVE  WithAndWithout(UdpHdr(src, dst, ulen, c), UdpHdr(src, dst, ulen, 0), c)
  <1> DEFINE h == Field16(src) \o Field16(dst) \o Field16(ulen)
             U == UdpHdr(src, dst, ulen, c)
             Z == UdpHdr(src, dst, ulen, 0)
  <1>1. h \in Seq(Nat) /\ Len(h) = 6
    <2>1. /\ Field16(src) \in Seq(Nat) /\ Len(Field16(src)) = 2
          /\ Field16(dst) \in Seq(Nat) /\ Len(Field16(dst)) = 2
          /\ Field16(ulen) \in Seq(Nat) /\ Len(Field16(ulen)) = 2
      BY FieldIs
    <2> QED BY <2>1, ThreeFields
  <1>2. U = h \o Field16(c) /\ Z = h \o Field16(0) BY DEF UdpHdr
  <1> HIDE DEF h, U, Z
  <1>3. Field16(c) \in Seq(Nat) /\ Len(Field16(c)) = 2 BY FieldIs
  <1>4. Field16(0) = << 0, 0 >> BY SMT DEF Field16
  <1>5. Field16(0) \in Seq(Nat) /\ Len(Field16(0)) = 2 /\ Field16(0)[1] = 0 /\ Field16(0)[2] = 0
    <2>1. Field16(0) \in Seq(Nat) /\ Len(Field16(0)) = 2 BY FieldIs
    <2> QED BY <1>4, <2>1
  <1>6. /\ U \in Seq(Nat) /\ Len(U) = 8
        /\ \A i \in 1..6 : U[i] = h[i]
        /\ U[7] = Field16(c)[1] /\ U[8] = Field16(c)[2]
    BY <1>1, <1>2, <1>3, FourthField
  <1>7. /\ Z \in Seq(Nat) /\ Len(Z) = 8
        /\ \A i \in 1..6 : Z[i] = h[i]
        /\ Z[7] = 0 /\ Z[8] = 0
    BY <1>1, <1>2, <1>5, FourthField
  <1>8. Word(U, 7) = Word(Field16(c), 1)
    <2>1. 7 + 1 = 8 /\ 1 + 1 = 2 OBVIOUS
    <2> QED BY <1>6, <2>1 DEF Word
  <1>9. SameHeader(U, Z)
    <2>1. \A i \in Nat : 0 < i /\ i <= 6 => i \in 1..6 OBVIOUS
    <2> QED BY <1>6, <1>7, <2>1 DEF SameHeader
  <1>10. WithAndWithout(U, Z, c) BY <1>6, <1>7, <1>8, <1>9 DEF WithAndWithout
  <1> QED BY <1>10 DEF U, Z

\* r consists of the l octets of s and then the m octets of t.
Joined(r, s, l, t, m) ==
    /\ r \in Seq(Nat)
    /\ Len(r) = l + m
    /\ \A i \in Nat : 0 < i /\ i <= l => r[i] = s[i]
    /\ \A i \in Nat : 0 < i /\ i <= m => r[l + i] = t[i]

LEMMA ConcatenationIsJoined ==
    ASSUME NEW s \in Seq(Nat), NEW t \in Seq(Nat),
           NEW l \in Nat, NEW m \in Nat, Len(s) = l, Len(t) = m
    PROVE  Joined(s \o t, s, l, t, m)
  <1>1. PICK r \in Seq(Nat) :
          /\ r = s \o t /\ Len(r) = Len(s) + Len(t)
          /\ \A i \in 1..Len(s) : r[i] = s[i]
          /\ \A i \in 1..Len(t) : r[Len(s) + i] = t[i]
    BY Concatenated
  <1>2. \A i \in Nat : 0 < i /\ i <= l => r[i] = s[i] BY <1>1
  <1>3. \A i \in Nat : 0 < i /\ i <= m => r[l + i] = t[i] BY <1>1
  <1>4. Joined(r, s, l, t, m) BY <1>1, <1>2, <1>3 DEF Joined
  <1> QED BY <1>1, <1>4

\* A segment of a header (U, or Z without checksum) and data D behind a pseudo header P.
SegmentIs(filled, zero, P, Z, U, m) ==
    /\ Len(zero) = 20 + m /\ Len(filled) = 20 + m
    /\ zero[1] = P[1]
    /\ zero[19] = Z[7] /\ zero[20] = Z[8]
    /\ filled[19] = U[7] /\ filled[20] = U[8]
    /\ \A i \in Nat : 0 < i /\ i <= 20 + m /\ i # 19 /\ i # 20 => filled[i] = zero[i]

LEMMA SegmentFilled ==
    ASSUME NEW P, NEW Z, NEW U, NEW D, NEW A, NEW zero, NEW B, NEW filled, NEW m \in Nat,
           Joined(A, P, 12, Z, 8), Joined(zero, A, 20, D, m),
           Joined(B, U, 8, D, m), Joined(filled, P, 12, B, 8 + m),
           SameHeader(U, Z)
    PROVE  SegmentIs(filled, zero, P, Z, U, m)
  <1>1. /\ \A i \in Nat : 0 < i /\ i <= 12 => A[i] = P[i]
        /\ \A i \in Nat : 0 < i /\ i <= 8 => A[12 + i] = Z[i]
    BY DEF Joined
  <1>2. /\ Len(zero) = 20 + m
        /\ \A i \in Nat : 0 < i /\ i <= 20 => zero[i] = A[i]
        /\ \A i \in Nat : 0 < i /\ i <= m => zero[20 + i] = D[i]
    BY DEF Joined
  <1>3. /\ \A i \in Nat : 0 < i /\ i <= 8 => B[i] = U[i]
        /\ \A i \in Nat : 0 < i /\ i <= m => B[8 + i] = D[i]
    BY DEF Joined
  <1>4. /\ Len(filled) = 12 + (8 + m)
        /\ \A i \in Nat : 0 < i /\ i <= 12 => filled[i] = P[i]
        /\ \A i \in Nat : 0 < i /\ i <= 8 + m => filled[12 + i] = B[i]
    BY DEF Joined
  <1>5. \A i \in Nat : 0 < i /\ i <= 8 => zero[12 + i] = Z[i] /\ filled[12 + i] = U[i]
    <2> TAKE i \in Nat
    <2> HAVE 0 < i /\ i <= 8
    <2>1. 12 + i \in Nat /\ 0 < 12 + i /\ 12 + i <= 20 /\ i <= 8 + m OBVIOUS
    <2>2. zero[12 + i] = A[12 + i] BY <1>2, <2>1
    <2>3. filled[12 + i] = B[i] BY <1>4, <2>1
    <2> QED BY <1>1, <1>3, <2>2, <2>3
  <1>6. ASSUME NEW i \in Nat, 0 < i, i <= 20 + m, i # 19, i # 20
        PROVE  filled[i] = zero[i]
    <2>1. CASE i <= 12
      <3>1. i <= 20 BY <2>1
      <3> QED BY <1>1, <1>2, <1>4, <1>6, <2>1, <3>1
    <2>2. CASE 12 < i /\ i <= 18
      <3>1. PICK j \in Nat : i = 12 + j /\ 0 < j /\ j <= 6
        <4>1. i - 12 \in Nat /\ i = 12 + (i - 12) /\ 0 < i - 12 /\ i - 12 <= 6 BY <2>2
        <4> QED BY <4>1
      <3>2. U[j] = Z[j] BY <3>1 DEF SameHeader
      <3>3. j <= 8 BY <3>1
      <3> QED BY <1>5, <3>1, <3>2, <3>3
    <2>3. CASE 20 < i
      <3>1. PICK j \in Nat : i = 20 + j /\ 0 < j /\ j <= m
        <4>1. i - 20 \in Nat /\ i = 20 + (i - 20) /\ 0 < i - 20 /\ i - 20 <= m BY <1>6, <2>3
        <4> QED BY <4>1
      <3>2. 8 + j \in Nat /\ 0 < 8 + j /\ 8 + j <= 8 + m /\ i = 12 + (8 + j) BY <3>1
      <3>3. zero[i] = D[j] BY <1>2, <3>1
      <3>4. filled[12 + (8 + j)] = B[8 + j] BY <1>4, <3>2
      <3>5. B[8 + j] = D[j] BY <1>3, <3>1
      <3> QED BY <3>2, <3>3, <3>4, <3>5
    <2> QED BY <1>6, <2>1, <2>2, <2>3
  <1>7. zero[1] = P[1] BY <1>1, <1>2
  <1>8. 12 + 7 = 19 /\ 12 + 8 = 20 OBVIOUS
  <1>9. zero[12 + 7] = Z[7] /\ filled[12 + 7] = U[7] BY <1>5
  <1>10. zero[12 + 8] = Z[8] /\ filled[12 + 8] = U[8] BY <1>5
  <1>11. Len(filled) = 20 + m BY <1>4
  <1> QED BY <1>2, <1>6, <1>7, <1>8, <1>9, <1>10, <1>11 DEF SegmentIs

\* Behind a pseudo header P of twelve octets, and before m octets D, the checksum
\* that UDP computes over the segment without one verifies.
LEMMA SegmentVerifies ==
    ASSUME NEW P \in Seq(Nat), Len(P) = 12, P[1] > 0, NEW m \in Nat, NEW D \in Seq(Nat), Len(D) = m,
           NEW Z \in Seq(Nat), Len(Z) = 8, Z[7] = 0, Z[8] = 0,
           NEW U \in Seq(Nat), Len(U) = 8, SameHeader(U, Z),
           Word(U, 7) = checksum(P \o Z \o D)
    PROVE  Verifies(P \o (U \o D))
  <1>0. 8 \in Nat /\ 12 \in Nat /\ 20 \in Nat /\ 8 + m \in Nat OBVIOUS
  <1>1. PICK A \in Seq(Nat) : A = P \o Z BY Concatenated
  <1>2. Joined(A, P, 12, Z, 8) BY <1>0, <1>1, ConcatenationIsJoined
  <1>3. Len(A) = 20
    <2>1. Len(A) = 12 + 8 BY <1>2 DEF Joined
    <2> QED BY <2>1
  <1>4. PICK zero \in Seq(Nat) : zero = A \o D BY Concatenated
  <1>5. Joined(zero, A, 20, D, m) BY <1>0, <1>3, <1>4, ConcatenationIsJoined
  <1>6. PICK B \in Seq(Nat) : B = U \o D BY Concatenated
  <1>7. Joined(B, U, 8, D, m) BY <1>0, <1>6, ConcatenationIsJoined
  <1>8. Len(B) = 8 + m BY <1>7 DEF Joined
  <1>9. PICK filled \in Seq(Nat) : filled = P \o B BY Concatenated
  <1>10. Joined(filled, P, 12, B, 8 + m) BY <1>0, <1>8, <1>9, ConcatenationIsJoined
  <1>11. /\ Len(zero) = 20 + m /\ Len(filled) = 20 + m
         /\ zero[1] = P[1]
         /\ zero[19] = Z[7] /\ zero[20] = Z[8]
         /\ filled[19] = U[7] /\ filled[20] = U[8]
         /\ \A i \in Nat : 0 < i /\ i <= 20 + m /\ i # 19 /\ i # 20 => filled[i] = zero[i]
    <2>1. SegmentIs(filled, zero, P, Z, U, m) BY <1>2, <1>5, <1>7, <1>10, SegmentFilled
    <2> QED BY <2>1 DEF SegmentIs
  <1>12. PICK c : c = checksum(zero) OBVIOUS
  <1>13. Word(U, 7) = c BY <1>1, <1>4, <1>12
  <1>14. WordSum(zero) # 0
    <2>1. Len(zero) > 0 /\ zero[1] > 0 BY <1>11
    <2> QED BY <2>1, SumPositive
  <1>15. c \in Nat /\ Folded[WordSum(zero) + c] = 65535 BY <1>12, <1>14, ChecksumVerifies
  <1>16. WordSum(filled) = WordSum(zero) + c
    <2>1. PICK k \in Nat : k = 19 OBVIOUS
    <2>2. k \in 1..Len(zero) /\ k + 1 <= Len(zero) /\ k % 2 = 1 BY <1>11, <2>1
    <2>3. zero[k] = 0 /\ zero[k + 1] = 0 BY <1>11, <2>1
    <2>4. \A i \in 1..Len(zero) : i # k /\ i # k + 1 => filled[i] = zero[i] BY <1>11, <2>1
    <2>5. Word(filled, k) = c
      <3>1. filled[k] = U[7] /\ filled[k + 1] = U[8] /\ 7 + 1 = 8 BY <1>11, <2>1
      <3> QED BY <1>13, <3>1 DEF Word
    <2>6. Len(filled) = Len(zero) BY <1>11
    <2> QED BY <2>2, <2>3, <2>4, <2>5, <2>6, SumOfFilledIn
  <1>17. Verifies(filled) BY <1>15, <1>16 DEF Verifies
  <1> QED BY <1>6, <1>9, <1>17

-----------------------------------------------------------------------------
(* The tunnel                                                               *)

\* H consists of the octets s, of the field F and of the four octets T.
FirstEight(H, s, F, T) ==
    /\ H \in Seq(Nat) /\ Len(H) = 8
    /\ H[1] = s[1] /\ H[2] = s[2] /\ H[3] = F[1] /\ H[4] = F[2]
    /\ H[5] = T[1] /\ H[6] = T[2] /\ H[7] = T[3] /\ H[8] = T[4]

LEMMA FirstEightAre ==
    ASSUME NEW s \in Seq(Nat), NEW F \in Seq(Nat), NEW T \in Seq(Nat),
           Len(s) = 2, Len(F) = 2, Len(T) = 4
    PROVE  FirstEight(s \o F \o T, s, F, T)
  <1>0. 2 \in Nat /\ 4 \in Nat OBVIOUS
  <1>1. PICK A \in Seq(Nat) : A = s \o F BY Concatenated
  <1>2. Joined(A, s, 2, F, 2) BY <1>0, <1>1, ConcatenationIsJoined
  <1>3. /\ Len(A) = 2 + 2
        /\ \A i \in Nat : 0 < i /\ i <= 2 => A[i] = s[i]
        /\ \A i \in Nat : 0 < i /\ i <= 2 => A[2 + i] = F[i]
    BY <1>2 DEF Joined
  <1>4. Len(A) = 4 /\ A[1] = s[1] /\ A[2] = s[2] /\ A[3] = F[1] /\ A[4] = F[2]
    <2>1. 2 + 2 = 4 /\ 2 + 1 = 3 /\ 0 < 1 /\ 1 <= 2 /\ 0 < 2 /\ 2 <= 2 /\ 1 \in Nat OBVIOUS
    <2>2. A[2 + 1] = F[1] /\ A[2 + 2] = F[2] BY <1>0, <1>3, <2>1
    <2> QED BY <1>0, <1>3, <2>1, <2>2
  <1>5. PICK H \in Seq(Nat) : H = A \o T BY Concatenated
  <1>6. Joined(H, A, 4, T, 4) BY <1>0, <1>4, <1>5, ConcatenationIsJoined
  <1>7. /\ Len(H) = 4 + 4
        /\ \A i \in Nat : 0 < i /\ i <= 4 => H[i] = A[i]
        /\ \A i \in Nat : 0 < i /\ i <= 4 => H[4 + i] = T[i]
    BY <1>6 DEF Joined
  <1>8. H[1] = A[1] /\ H[2] = A[2] /\ H[3] = A[3] /\ H[4] = A[4] BY <1>7
  <1>9. H[4 + 1] = T[1] /\ H[4 + 2] = T[2] /\ H[4 + 3] = T[3] /\ H[4 + 4] = T[4] BY <1>7
  <1>10. 4 + 1 = 5 /\ 4 + 2 = 6 /\ 4 + 3 = 7 /\ 4 + 4 = 8 OBVIOUS
  <1>11. FirstEight(H, s, F, T) BY <1>4, <1>7, <1>8, <1>9, <1>10 DEF FirstEight
  <1> QED BY <1>1, <1>5, <1>11

LEMMA FifthToEighth ==
    ASSUME NEW d \in Seq(Nat), NEW n \in Nat, Len(d) = 8 + n
    PROVE  SubSeq(d, 5, 8) = << d[5], d[6], d[7], d[8] >>
  <1> DEFINE t == SubSeq(d, 5, 8)
             u == << d[5], d[6], d[7], d[8] >>
  <1>1. t \in Seq(Nat) /\ Len(t) = 4 OBVIOUS
  <1>2. t[1] = d[5] /\ t[2] = d[6] /\ t[3] = d[7] /\ t[4] = d[8] OBVIOUS
  <1>3. d[5] \in Nat /\ d[6] \in Nat /\ d[7] \in Nat /\ d[8] \in Nat OBVIOUS
  <1>4. u \in Seq(Nat) /\ Len(u) = 4 BY <1>3
  <1>5. u[1] = d[5] /\ u[2] = d[6] /\ u[3] = d[7] /\ u[4] = d[8] OBVIOUS
  <1> HIDE DEF t, u
  <1>6. \A i \in 1..4 : t[i] = u[i] BY <1>2, <1>5
  <1>7. t = u BY <1>1, <1>4, <1>6, SeqEqual
  <1> QED BY <1>7 DEF t, u

\* What follows the first eight octets of a datagram without options.
LEMMA DecapsulatedIs ==
    ASSUME NEW H \in Seq(Nat), NEW s, NEW F, NEW T, FirstEight(H, s, F, T),
           s[1] % 8 = 0, NEW pkt \in Seq(Nat), Len(pkt) = Word(F, 1)
    PROVE  /\ Decapsulated(H \o pkt) = pkt
           /\ H \o pkt \in Seq(Nat)
           /\ TunnelOf(H \o pkt) = << T[1], T[2], T[3], T[4] >>
  <1>1. PICK d \in Seq(Nat) :
          /\ d = H \o pkt /\ SubSeq(d, Len(H) + 1, Len(H) + Len(pkt)) = pkt
    BY Concatenated
  <1>2. PICK n \in Nat : n = Len(pkt) OBVIOUS
  <1>3. Len(H) = 8 /\ 8 \in Nat BY DEF FirstEight
  <1>4. Joined(d, H, 8, pkt, n) BY <1>1, <1>2, <1>3, ConcatenationIsJoined
  <1>5. Len(d) = 8 + n /\ \A i \in Nat : 0 < i /\ i <= 8 => d[i] = H[i] BY <1>4 DEF Joined
  <1>6. /\ d[1] = H[1] /\ d[3] = H[3] /\ d[4] = H[4]
        /\ d[5] = H[5] /\ d[6] = H[6] /\ d[7] = H[7] /\ d[8] = H[8]
    BY <1>5
  <1>7. Word(d, 3) = n
    <2>1. 3 + 1 = 4 /\ 1 + 1 = 2 OBVIOUS
    <2>2. d[3] = F[1] /\ d[4] = F[2] BY <1>6 DEF FirstEight
    <2>3. Word(d, 3) = Word(F, 1) BY <2>1, <2>2 DEF Word
    <2> QED BY <1>2, <2>3
  <1>8. d[1] % 8 = 0 BY <1>6 DEF FirstEight
  <1>9. SubSeq(d, 9, 8 + n) = pkt
    <2>1. Len(H) + 1 = 9 /\ Len(H) + Len(pkt) = 8 + n BY <1>2, <1>3
    <2> QED BY <1>1, <2>1
  <1>10. Decapsulated(d) = pkt
    <2>1. ~(8 + n > 8 + n) OBVIOUS
    <2>2. Decapsulated(d) = IF 8 + n > 8 + n THEN <<>> ELSE SubSeq(d, 9, 8 + n)
      BY <1>5, <1>7, <1>8, Zenon DEF Decapsulated
    <2> QED BY <1>9, <2>1, <2>2
  <1>11. TunnelOf(d) = << T[1], T[2], T[3], T[4] >>
    <2>1. SubSeq(d, 5, 8) = << d[5], d[6], d[7], d[8] >> BY <1>5, FifthToEighth
    <2>2. d[5] = T[1] /\ d[6] = T[2] /\ d[7] = T[3] /\ d[8] = T[4] BY <1>6 DEF FirstEight
    <2> QED BY <2>1, <2>2, Zenon DEF TunnelOf
  <1> QED BY <1>1, <1>10, <1>11

LEMMA Field32Is ==
    \E T \in Seq(Nat) :
        T = Field32(1) /\ Len(T) = 4 /\ T[1] = 0 /\ T[2] = 0 /\ T[3] = 0 /\ T[4] = 1
  <1>1. PICK f \in Seq(Nat) : f = Field16(0) /\ Len(f) = 2 BY FieldIs
  <1>2. PICK g \in Seq(Nat) : g = Field16(1) /\ Len(g) = 2 BY FieldIs
  <1>3. Field16(0) = << 0, 0 >> BY SMT DEF Field16
  <1>4. Field16(1) = << 0, 1 >> BY SMT DEF Field16
  <1>5. f[1] = 0 /\ f[2] = 0 /\ g[1] = 0 /\ g[2] = 1 BY <1>1, <1>2, <1>3, <1>4
  <1>6. PICK T \in Seq(Nat) : T = f \o g BY Concatenated
  <1>7. 2 \in Nat OBVIOUS
  <1>8. Joined(T, f, 2, g, 2) BY <1>1, <1>2, <1>6, <1>7, ConcatenationIsJoined
  <1>9. /\ Len(T) = 2 + 2 /\ T[1] = f[1] /\ T[2] = f[2]
        /\ T[2 + 1] = g[1] /\ T[2 + 2] = g[2]
    BY <1>8 DEF Joined
  <1>10. Len(T) = 4 /\ T[1] = 0 /\ T[2] = 0 /\ T[3] = 0 /\ T[4] = 1 BY <1>5, <1>9
  <1>11. 1 \div 65536 = 0 /\ 1 % 65536 = 1 BY SMT
  <1>12. Field32(1) = Field16(0) \o Field16(1)
    <2>1. PICK q : q = 1 \div 65536 OBVIOUS
    <2>2. PICK r : r = 1 % 65536 OBVIOUS
    <2>3. Field32(1) = Field16(q) \o Field16(r) BY <2>1, <2>2 DEF Field32
    <2>4. q = 0 /\ r = 1 BY <1>11, <2>1, <2>2
    <2> QED BY <2>3, <2>4
  <1>13. T = Field32(1) BY <1>1, <1>2, <1>6, <1>12
  <1> QED BY <1>10, <1>13

\* The header of a packet of n octets for tunnel 1, without options.
LEMMA TunnelHeaderIs ==
    ASSUME NEW n \in Nat
    PROVE  \E H \in Seq(Nat), s \in Seq(Nat), T \in Seq(Nat) :
             /\ H = BuildGTPv1Header(<<>>, <<>>, <<>>, n, 1)
             /\ FirstEight(H, s, Field16(n), T)
             /\ s[1] % 8 = 0
             /\ T[1] = 0 /\ T[2] = 0 /\ T[3] = 0 /\ T[4] = 1
  <1>1. PICK F \in Seq(Nat) : F = Field16(n) /\ Len(F) = 2 BY FieldIs
  <1>2. PICK T \in Seq(Nat) :
          T = Field32(1) /\ Len(T) = 4 /\ T[1] = 0 /\ T[2] = 0 /\ T[3] = 0 /\ T[4] = 1
    BY Field32Is
  <1>3. PICK s \in Seq(Nat) : s = << 48, 255 >> /\ Len(s) = 2 /\ s[1] % 8 = 0
    <2>1. << 48, 255 >> \in Seq(Nat) /\ Len(<< 48, 255 >>) = 2 OBVIOUS
    <2>2. << 48, 255 >>[1] % 8 = 0
      <3>1. 48 % 8 = 0 BY SMT
      <3>2. << 48, 255 >>[1] = 48 OBVIOUS
      <3> QED BY <3>1, <3>2
    <2> QED BY <2>1, <2>2
  <1>4. PICK H \in Seq(Nat) : H = s \o F \o T /\ FirstEight(H, s, F, T)
    <2>1. FirstEight(s \o F \o T, s, F, T) BY <1>1, <1>2, <1>3, FirstEightAre
    <2>2. s \o F \o T \in Seq(Nat) BY <2>1 DEF FirstEight
    <2> QED BY <2>1, <2>2
  <1>5. BuildGTPv1Header(<<>>, <<>>, <<>>, n, 1) = s \o F \o T \o <<>>
    <2>1. 3 * 16 + 4 * Len(<<>>) + 2 * Len(<<>>) + Len(<<>>) = 48 BY EmptySeq, SMT
    <2> QED BY <1>1, <1>2, <1>3, <2>1, Zenon DEF BuildGTPv1Header
  <1>6. H \o <<>> = H BY ConcatEmptySeq
  <1>7. H = BuildGTPv1Header(<<>>, <<>>, <<>>, n, 1) BY <1>4, <1>5, <1>6, Zenon
  <1>8. FirstEight(H, s, Field16(n), T) BY <1>1, <1>4, Zenon
  <1> QED BY <1>2, <1>3, <1>7, <1>8, Zenon

\* A number that a 16-bit field holds.
Short(n) == n <= 65535

LEMMA ShortField ==
    ASSUME NEW n \in Nat, Short(n)
    PROVE  Word(Field16(n), 1) = n
  BY FieldIs DEF Short

\* Out of the tunnel comes what was sent into it.
LEMMA TunnelCarries ==
    ASSUME NEW pkt \in Seq(Nat), Short(Len(pkt))
    PROVE  /\ Decapsulated(sendGTP(pkt, 1)) = pkt
           /\ TunnelOf(sendGTP(pkt, 1)) = << 0, 0, 0, 1 >>
  <1>1. PICK n \in Nat : n = Len(pkt) OBVIOUS
  <1>2. PICK H \in Seq(Nat), s \in Seq(Nat), T \in Seq(Nat) :
          /\ H = BuildGTPv1Header(<<>>, <<>>, <<>>, n, 1)
          /\ FirstEight(H, s, Field16(n), T)
          /\ s[1] % 8 = 0
          /\ T[1] = 0 /\ T[2] = 0 /\ T[3] = 0 /\ T[4] = 1
    BY TunnelHeaderIs
  <1>3. Word(Field16(n), 1) = n BY <1>1, ShortField
  <1>4. /\ Decapsulated(H \o pkt) = pkt
        /\ TunnelOf(H \o pkt) = << T[1], T[2], T[3], T[4] >>
    BY <1>1, <1>2, <1>3, DecapsulatedIs
  <1>5. sendGTP(pkt, 1) = H \o pkt BY <1>1, <1>2, Zenon DEF sendGTP
  <1> QED BY <1>2, <1>4, <1>5

-----------------------------------------------------------------------------
(* The packets of the emulator                                              *)

LEMMA ChecksumNat ==
    ASSUME NEW buf \in Seq(Nat)
    PROVE  checksum(buf) \in Nat /\ Short(checksum(buf))
  <1>1. CASE WordSum(buf) = 0
    <2>1. Folded[0] = 0 BY FoldedIsResidue DEF Residue
    <2>2. checksum(buf) = IF 65535 - 0 = 0 THEN 65535 ELSE 65535 - 0 BY <1>1, <2>1 DEF checksum
    <2>3. checksum(buf) = 65535 BY <2>2, SMT
    <2> QED BY <2>3, SMT DEF Short
  <1>2. CASE WordSum(buf) # 0 BY <1>2, ChecksumVerifies DEF Short
  <1> QED BY <1>1, <1>2

\* n octets of which the first is x.
Begins(r, x, n) == r \in Seq(Nat) /\ Len(r) = n /\ r[1] = x

LEMMA PairBegins ==
    ASSUME NEW x \in Nat, NEW y \in Nat
    PROVE  Begins(<< x, y >>, x, 2)
  BY DEF Begins

\* k octets are n octets, at least one, and those of t.
Longer(n, t, k) == n \in Nat /\ n > 0 /\ t \in Seq(Nat) /\ k \in Nat /\ k = n + Len(t)

LEMMA ConcatenationBegins ==
    ASSUME NEW r, NEW x, NEW n, NEW t, NEW k, Begins(r, x, n), Longer(n, t, k)
    PROVE  Begins(r \o t, x, k)
  <1>0. n \in Nat /\ n > 0 /\ t \in Seq(Nat) /\ k \in Nat /\ k = n + Len(t) BY DEF Longer
  <1>1. PICK s \in Seq(Nat) : s = r \o t BY <1>0, Concatenated DEF Begins
  <1>2. r \in Seq(Nat) /\ Len(r) = n /\ r[1] = x BY DEF Begins
  <1>3. Joined(s, r, n, t, Len(t)) BY <1>0, <1>1, <1>2, ConcatenationIsJoined
  <1>4. Len(s) = k /\ s[1] = r[1] BY <1>0, <1>3 DEF Joined
  <1>5. Begins(s, x, k) BY <1>2, <1>4 DEF Begins
  <1> QED BY <1>1, <1>5

LEMMA IpHdrIs ==
    ASSUME NEW iplen \in Nat, NEW csum \in Nat, NEW src \in Seq(Nat), NEW dst \in Seq(Nat),
           Len(src) = 4, Len(dst) = 4
    PROVE  Begins(IpHdr(iplen, csum, src, dst), 69, 18)
  <1>1. PICK a : a = << 69, 0 >> OBVIOUS
  <1>2. Begins(a, 69, 2) BY <1>1, PairBegins
  <1>3. PICK b \in Seq(Nat) : b = Field16(iplen) /\ Len(b) = 2 BY FieldIs
  <1>4. PICK c \in Seq(Nat) : c = Field16(0) /\ Len(c) = 2 BY FieldIs
  <1>5. PICK d \in Seq(Nat) : d = << 64, 17 >> /\ Len(d) = 2
    <2>1. Begins(<< 64, 17 >>, 64, 2) BY PairBegins
    <2> QED BY <2>1 DEF Begins
  <1>6. PICK e \in Seq(Nat) : e = Field16(csum) /\ Len(e) = 2 BY FieldIs
  <1>7. PICK s1 : s1 = a \o b OBVIOUS
  <1>8. PICK s2 : s2 = s1 \o c OBVIOUS
  <1>9. PICK s3 : s3 = s2 \o d OBVIOUS
  <1>10. PICK s4 : s4 = s3 \o e OBVIOUS
  <1>11. PICK s5 : s5 = s4 \o src OBVIOUS
  <1>12. PICK s6 : s6 = s5 \o dst OBVIOUS
  <1>13. Begins(s1, 69, 4)
    <2>1. Longer(2, b, 4) BY <1>3 DEF Longer
    <2> QED BY <1>2, <1>7, <2>1, ConcatenationBegins, Zenon
  <1>14. Begins(s2, 69, 6)
    <2>1. Len(c) = 2 BY <1>4
    <2>2. Longer(4, c, 6) BY <2>1 DEF Longer
    <2> QED BY <1>13, <1>8, <2>2, ConcatenationBegins, Zenon
  <1>15. Begins(s3, 69, 8)
    <2>1. Longer(6, d, 8) BY <1>5 DEF Longer
    <2> QED BY <1>14, <1>9, <2>1, ConcatenationBegins, Zenon
  <1>16. Begins(s4, 69, 10)
    <2>1. Longer(8, e, 10) BY <1>6 DEF Longer
    <2> QED BY <1>15, <1>10, <2>1, ConcatenationBegins, Zenon
  <1>17. Begins(s5, 69, 14)
    <2>1. Longer(10, src, 14) BY DEF Longer
    <2> QED BY <1>16, <1>11, <2>1, ConcatenationBegins, Zenon
  <1>18. Begins(s6, 69, 18)
    <2>1. Longer(14, dst, 18) BY DEF Longer
    <2> QED BY <1>17, <1>12, <2>1, ConcatenationBegins, Zenon
  <1>19. IpHdr(iplen, csum, src, dst) = s6
    BY <1>1, <1>3, <1>4, <1>5, <1>6, <1>7, <1>8, <1>9, <1>10, <1>11, <1>12, Zenon DEF IpHdr
  <1> QED BY <1>18, <1>19

LEMMA PseudoHdrIs ==
    ASSUME NEW src \in Seq(Nat), NEW dst \in Seq(Nat), NEW plen \in Nat,
           Len(src) = 4, Len(dst) = 4
    PROVE  Begins(PseudoHdr(src, dst, plen), src[1], 12)
  <1>1. PICK a \in Seq(Nat) : a = << 0, 17 >> /\ Len(a) = 2
    <2>1. Begins(<< 0, 17 >>, 0, 2) BY PairBegins
    <2> QED BY <2>1 DEF Begins
  <1>2. PICK b \in Seq(Nat) : b = Field16(plen) /\ Len(b) = 2 BY FieldIs
  <1>3. PICK x : x = src[1] OBVIOUS
  <1>4. Begins(src, x, 4) BY <1>3 DEF Begins
  <1>5. PICK s1 : s1 = src \o dst OBVIOUS
  <1>6. PICK s2 : s2 = s1 \o a OBVIOUS
  <1>7. PICK s3 : s3 = s2 \o b OBVIOUS
  <1>8. Begins(s1, x, 8)
    <2>1. Longer(4, dst, 8) BY DEF Longer
    <2> QED BY <1>4, <1>5, <2>1, ConcatenationBegins, Zenon
  <1>9. Begins(s2, x, 10)
    <2>1. Longer(8, a, 10) BY <1>1 DEF Longer
    <2> QED BY <1>8, <1>6, <2>1, ConcatenationBegins, Zenon
  <1>10. Begins(s3, x, 12)
    <2>1. Longer(10, b, 12) BY <1>2 DEF Longer
    <2> QED BY <1>9, <1>7, <2>1, ConcatenationBegins, Zenon
  <1>11. PseudoHdr(src, dst, plen) = s3
    BY <1>1, <1>2, <1>5, <1>6, <1>7, Zenon DEF PseudoHdr
  <1> QED BY <1>3, <1>10, <1>11

\* r begins with the first octet of a, another one, and the two of b: of an IPv4
\* header, its version and length and the total length.
Announces(r, a, b) ==
    r \in Seq(Nat) /\ Len(r) \in Nat /\ Len(r) >= 4 /\ r[1] = a[1] /\ r[3] = b[1] /\ r[4] = b[2]

LEMMA AnnouncesBegins ==
    ASSUME NEW a \in Seq(Nat), NEW b \in Seq(Nat), Len(a) = 2, Len(b) = 2
    PROVE  Announces(a \o b, a, b)
  <1>1. PICK r \in Seq(Nat) : r = a \o b BY Concatenated
  <1>2. 2 \in Nat OBVIOUS
  <1>3. Joined(r, a, 2, b, 2) BY <1>1, <1>2, ConcatenationIsJoined
  <1>4. /\ Len(r) = 2 + 2
        /\ \A i \in Nat : 0 < i /\ i <= 2 => r[i] = a[i]
        /\ \A i \in Nat : 0 < i /\ i <= 2 => r[2 + i] = b[i]
    BY <1>3 DEF Joined
  <1>5. 1 \in Nat /\ 0 < 1 /\ 1 <= 2 /\ 0 < 2 /\ 2 <= 2 OBVIOUS
  <1>6. r[1] = a[1] /\ r[2 + 1] = b[1] /\ r[2 + 2] = b[2] BY <1>2, <1>4, <1>5, Zenon
  <1>7. 2 + 1 = 3 /\ 2 + 2 = 4 OBVIOUS
  <1>8. Announces(r, a, b) BY <1>4, <1>6, <1>7 DEF Announces
  <1> QED BY <1>1, <1>8

LEMMA AnnouncesGrows ==
    ASSUME NEW r, NEW a, NEW b, Announces(r, a, b), NEW t \in Seq(Nat)
    PROVE  Announces(r \o t, a, b)
  <1>1. r \in Seq(Nat) /\ Len(r) \in Nat /\ Len(r) >= 4 BY DEF Announces
  <1>2. PICK s \in Seq(Nat) : s = r \o t BY <1>1, Concatenated
  <1>3. PICK l \in Nat : l = Len(r) BY <1>1
  <1>4. PICK m \in Nat : m = Len(t) OBVIOUS
  <1>5. Joined(s, r, l, t, m) BY <1>1, <1>2, <1>3, <1>4, ConcatenationIsJoined
  <1>6. Len(s) = l + m /\ \A i \in Nat : 0 < i /\ i <= l => s[i] = r[i] BY <1>5 DEF Joined
  <1>7. s[1] = r[1] /\ s[3] = r[3] /\ s[4] = r[4] BY <1>1, <1>3, <1>6
  <1>8. Len(s) \in Nat /\ Len(s) >= 4 BY <1>1, <1>3, <1>6
  <1>9. Announces(s, a, b) BY <1>7, <1>8 DEF Announces
  <1> QED BY <1>2, <1>9

\* Five words of header and a total length of n octets.
Says(r, n) == r[1] = 69 /\ Word(r, 3) = n

LEMMA AnnouncedIs ==
    ASSUME NEW r, NEW n \in Nat, Short(n), Announces(r, << 69, 0 >>, Field16(n))
    PROVE  Says(r, n)
  <1>1. r[1] = << 69, 0 >>[1] /\ r[3] = Field16(n)[1] /\ r[4] = Field16(n)[2] BY DEF Announces
  <1>2. 3 + 1 = 4 /\ 1 + 1 = 2 OBVIOUS
  <1>3. Word(r, 3) = Word(Field16(n), 1) BY <1>1, <1>2 DEF Word
  <1>4. Word(Field16(n), 1) = n BY ShortField
  <1> QED BY <1>1, <1>3, <1>4 DEF Says

\* What the emulator's header says of itself and of the packet behind it.
LEMMA IpHdrAnnounces ==
    ASSUME NEW iplen \in Nat, NEW csum \in Nat, NEW src \in Seq(Nat), NEW dst \in Seq(Nat)
    PROVE  Announces(IpHdr(iplen, csum, src, dst), << 69, 0 >>, Field16(iplen))
  <1>1. PICK a \in Seq(Nat) : a = << 69, 0 >> /\ Len(a) = 2
    <2>1. Begins(<< 69, 0 >>, 69, 2) BY PairBegins
    <2> QED BY <2>1 DEF Begins
  <1>2. PICK b \in Seq(Nat) : b = Field16(iplen) /\ Len(b) = 2 BY FieldIs
  <1>3. PICK c \in Seq(Nat) : c = Field16(0) BY FieldIs
  <1>4. PICK d \in Seq(Nat) : d = << 64, 17 >>
    <2>1. Begins(<< 64, 17 >>, 64, 2) BY PairBegins
    <2> QED BY <2>1 DEF Begins
  <1>5. PICK e \in Seq(Nat) : e = Field16(csum) BY FieldIs
  <1>6. Announces(a \o b, a, b) BY <1>1, <1>2, AnnouncesBegins
  <1>7. Announces(a \o b \o c, a, b) BY <1>6, AnnouncesGrows, Zenon
  <1>8. Announces(a \o b \o c \o d, a, b) BY <1>7, AnnouncesGrows, Zenon
  <1>9. Announces(a \o b \o c \o d \o e, a, b) BY <1>8, AnnouncesGrows, Zenon
  <1>10. Announces(a \o b \o c \o d \o e \o src, a, b) BY <1>9, AnnouncesGrows, Zenon
  <1>11. Announces(a \o b \o c \o d \o e \o src \o dst, a, b) BY <1>10, AnnouncesGrows, Zenon
  <1>12. IpHdr(iplen, csum, src, dst) = a \o b \o c \o d \o e \o src \o dst
    BY <1>1, <1>2, <1>3, <1>4, <1>5, Zenon DEF IpHdr
  <1> QED BY <1>1, <1>2, <1>11, <1>12

\* The segment of a packet, behind the eighteen octets of its IP header.
LEMMA BehindIpHdr ==
    ASSUME NEW I \in Seq(Nat), Len(I) = 18, NEW S \in Seq(Nat), NEW made, made = I \o S
    PROVE  /\ made \in Seq(Nat) /\ Len(made) = 18 + Len(S)
           /\ SubSeq(made, 19, Len(made)) = S
  <1>1. /\ I \o S \in Seq(Nat) /\ Len(I \o S) = Len(I) + Len(S)
        /\ SubSeq(I \o S, Len(I) + 1, Len(I) + Len(S)) = S
    BY Concatenated
  <1>2. Len(I) + 1 = 19 /\ Len(I) + Len(S) = 18 + Len(S) OBVIOUS
  <1> QED BY <1>1, <1>2

\* A UDP segment built for the pseudo header of its addresses.
SegmentOf(S, src, dst, n) ==
    /\ S \in Seq(Nat) /\ Len(S) = n
    /\ Verifies(PseudoHdr(src, dst, n) \o S)
    /\ Word(S, 7) # 0

LEMMA FirstOctet ==
    ASSUME NEW s \in Seq(Nat), Len(s) = 4
    PROVE  s[1] \in Nat
  <1>1. 1 \in 1..Len(s) OBVIOUS
  <1> QED BY <1>1, ElementOfSeq, Zenon

LEMMA UdpSegment ==
    ASSUME NEW src \in Seq(Nat), NEW dst \in Seq(Nat), Len(src) = 4, Len(dst) = 4, src[1] > 0,
           NEW srcPort \in Nat, NEW dstPort \in Nat, NEW payload \in Seq(Nat)
    PROVE  /\ UdpChecksum(src, dst, srcPort, dstPort, payload) \in Nat
           /\ SegmentOf(UdpHdr(srcPort, dstPort, 8 + Len(payload),
                               UdpChecksum(src, dst, srcPort, dstPort, payload)) \o payload,
                        src, dst, 8 + Len(payload))
  <1>1. PICK m \in Nat : m = Len(payload) OBVIOUS
  <1>2. PICK ulen \in Nat : ulen = 8 + m OBVIOUS
  <1>3. PICK P \in Seq(Nat) : P = PseudoHdr(src, dst, ulen) /\ Len(P) = 12 /\ P[1] = src[1]
    BY PseudoHdrIs DEF Begins
  <1>4. PICK Z \in Seq(Nat) : Z = UdpHdr(srcPort, dstPort, ulen, 0) /\ Len(Z) = 8 /\ Z[7] = 0 /\ Z[8] = 0
    <2>1. 0 \in Nat OBVIOUS
    <2>2. WithAndWithout(UdpHdr(srcPort, dstPort, ulen, 0), UdpHdr(srcPort, dstPort, ulen, 0), 0)
      BY <2>1, UdpHdrIs, Zenon
    <2> QED BY <2>2 DEF WithAndWithout
  <1>5. PICK zero \in Seq(Nat) : zero = P \o Z \o payload
    <2>1. P \o Z \in Seq(Nat) BY Concatenated
    <2> QED BY <2>1, Concatenated
  <1>6. PICK c \in Nat : c = checksum(zero) /\ Short(c) BY ChecksumNat
  <1>7. PICK U \in Seq(Nat) : /\ U = UdpHdr(srcPort, dstPort, ulen, c) /\ Len(U) = 8
                              /\ SameHeader(U, Z) /\ Word(U, 7) = Word(Field16(c), 1)
    <2>1. WithAndWithout(UdpHdr(srcPort, dstPort, ulen, c), UdpHdr(srcPort, dstPort, ulen, 0), c)
      BY UdpHdrIs, Zenon
    <2> QED BY <1>4, <2>1 DEF WithAndWithout
  <1>8. UdpChecksum(src, dst, srcPort, dstPort, payload) = c
    BY <1>1, <1>2, <1>3, <1>4, <1>5, <1>6, Zenon DEF UdpChecksum
  <1>9. Word(U, 7) = c BY <1>6, <1>7, ShortField
  <1>10. Verifies(P \o (U \o payload))
    BY <1>1, <1>3, <1>4, <1>5, <1>6, <1>7, <1>9, SegmentVerifies
  <1>11. c # 0
    <2>1. PICK x \in Nat : x = src[1] /\ x > 0
      <3>1. src[1] \in Nat BY FirstOctet, Zenon
      <3> QED BY <3>1
    <2>2. PICK k \in Nat : k = 20 + m OBVIOUS
    <2>3. PICK A : A = P \o Z OBVIOUS
    <2>4. Begins(P, x, 12) BY <1>3, <2>1 DEF Begins
    <2>5. Begins(A, x, 20)
      <3>1. Len(Z) = 8 BY <1>4
      <3>2. Longer(12, Z, 20) BY <3>1 DEF Longer
      <3> QED BY <2>3, <2>4, <3>2, ConcatenationBegins, Zenon
    <2>6. Begins(zero, x, k)
      <3>1. Longer(20, payload, k) BY <1>1, <2>2 DEF Longer
      <3> QED BY <1>5, <2>3, <2>5, <3>1, ConcatenationBegins, Zenon
    <2>7. Len(zero) > 0 /\ zero[1] > 0 BY <2>1, <2>2, <2>6 DEF Begins
    <2>8. WordSum(zero) # 0 BY <2>7, SumPositive
    <2> QED BY <1>6, <2>8, ChecksumVerifies
  <1>12. PICK S \in Seq(Nat) : S = U \o payload BY Concatenated
  <1>13. Joined(S, U, 8, payload, m) BY <1>1, <1>7, <1>12, ConcatenationIsJoined
  <1>14. Len(S) = 8 + m /\ Word(S, 7) = Word(U, 7)
    <2>1. Len(S) = 8 + m /\ S[7] = U[7] /\ S[8] = U[8] BY <1>13 DEF Joined
    <2>2. 7 + 1 = 8 OBVIOUS
    <2> QED BY <2>1, <2>2 DEF Word
  <1>15. SegmentOf(S, src, dst, ulen)
    BY <1>2, <1>3, <1>9, <1>10, <1>11, <1>12, <1>14 DEF SegmentOf
  <1> QED BY <1>1, <1>2, <1>7, <1>8, <1>12, <1>15, Zenon

\* A segment that verifies, of a payload of n octets, behind an IP header that
\* counts two octets more than there are.
RawPacket(made, src, dst, n) ==
    /\ made \in Seq(Nat) /\ Len(made) = 26 + n
    /\ Short(28 + n) => Says(made, 28 + n)
    /\ SegmentOf(SubSeq(made, 19, Len(made)), src, dst, 8 + n)

LEMMA RawUdpIpIs ==
    ASSUME NEW src \in Seq(Nat), NEW dst \in Seq(Nat), Len(src) = 4, Len(dst) = 4, src[1] > 0,
           NEW srcPort \in Nat, NEW dstPort \in Nat, NEW payload \in Seq(Nat)
    PROVE  RawPacket(BuildRawUdpIp(src, dst, srcPort, dstPort, payload), src, dst, Len(payload))
  <1>1. PICK ulen \in Nat : ulen = 8 + Len(payload) OBVIOUS
  <1>2. PICK total \in Nat : total = 20 + ulen OBVIOUS
  <1>3. PICK csum \in Nat : csum = IpChecksum(total, src, dst)
    <2>1. 0 \in Nat OBVIOUS
    <2>2. IpHdr(total, 0, src, dst) \in Seq(Nat) BY <2>1, IpHdrIs DEF Begins
    <2> QED BY <2>2, ChecksumNat DEF IpChecksum
  <1>4. PICK I \in Seq(Nat) : I = IpHdr(total, csum, src, dst) /\ Len(I) = 18
    BY IpHdrIs DEF Begins
  <1>5. PICK u \in Nat : u = UdpChecksum(src, dst, srcPort, dstPort, payload)
    BY UdpSegment
  <1>6. PICK U : U = UdpHdr(srcPort, dstPort, ulen, u) OBVIOUS
  <1>7. PICK S : S = U \o payload /\ SegmentOf(S, src, dst, ulen)
    BY <1>1, <1>5, <1>6, UdpSegment
  <1>8. U \in Seq(Nat)
    <2>1. WithAndWithout(UdpHdr(srcPort, dstPort, ulen, u), UdpHdr(srcPort, dstPort, ulen, 0), u)
      BY UdpHdrIs, Zenon
    <2> QED BY <1>6, <2>1 DEF WithAndWithout
  <1>9. PICK made : made = BuildRawUdpIp(src, dst, srcPort, dstPort, payload) OBVIOUS
  <1>10. made = (I \o U) \o payload
    BY <1>1, <1>2, <1>3, <1>4, <1>5, <1>6, <1>9, Zenon DEF BuildRawUdpIp
  <1>11. made = I \o S
    <2>1. (I \o U) \o payload = I \o (U \o payload) BY <1>8, Associated, Zenon
    <2> QED BY <1>7, <1>10, <2>1
  <1>12. S \in Seq(Nat) /\ Len(S) = ulen BY <1>7 DEF SegmentOf
  <1>13. made \in Seq(Nat) /\ Len(made) = 18 + Len(S) /\ SubSeq(made, 19, Len(made)) = S
    <2>1. Len(I) = 18 /\ S \in Seq(Nat) BY <1>4, <1>12
    <2> QED BY <1>11, <2>1, BehindIpHdr, Zenon
  <1>14. Len(made) = 26 + Len(payload) BY <1>1, <1>12, <1>13
  <1>15. SegmentOf(SubSeq(made, 19, Len(made)), src, dst, ulen) BY <1>7, <1>13
  <1>16. ASSUME Short(28 + Len(payload)) PROVE Says(made, 28 + Len(payload))
    <2>1. Announces(I, << 69, 0 >>, Field16(total)) BY <1>4, IpHdrAnnounces
    <2>2. Announces(made, << 69, 0 >>, Field16(total)) BY <1>11, <1>12, <2>1, AnnouncesGrows
    <2>3. total = 28 + Len(payload) BY <1>1, <1>2
    <2> QED BY <1>16, <2>2, <2>3, AnnouncedIs
  <1>17. RawPacket(made, src, dst, Len(payload))
    BY <1>1, <1>13, <1>14, <1>15, <1>16, Zenon DEF RawPacket
  <1> QED BY <1>9, <1>17

-----------------------------------------------------------------------------
(* The echo request                                                         *)

LEMMA OddAfterEven ==
    ASSUME NEW l \in Nat, l % 2 = 0, NEW i \in Nat
    PROVE  (l + i) % 2 = i % 2
  <1>1. PICK m \in Nat : l = 2 * m
    <2>1. l \div 2 \in Nat /\ l = 2 * (l \div 2) BY SMT
    <2> QED BY <2>1
  <1>2. (2 * m + i) % 2 = i % 2 BY SMT
  <1> QED BY <1>1, <1>2

\* Behind an even number of octets a buffer adds its own sum.
LEMMA SumOfJoined ==
    ASSUME NEW s \in Seq(Nat), NEW t \in Seq(Nat), NEW r, NEW l \in Nat, NEW m \in Nat,
           Len(s) = l, Len(t) = m, Joined(r, s, l, t, m), l % 2 = 0
    PROVE  WordSum(r) = WordSum(s) + WordSum(t)
  <1>1. /\ r \in Seq(Nat) /\ Len(r) = l + m
        /\ \A i \in Nat : 0 < i /\ i <= l => r[i] = s[i]
        /\ \A i \in Nat : 0 < i /\ i <= m => r[l + i] = t[i]
    BY DEF Joined
  <1>2. PICK f : Sums(f, s) /\ WordSum(s) = f[l] BY WordSumIsSum
  <1>3. PICK g : Sums(g, t) /\ WordSum(t) = g[m] BY WordSumIsSum
  <1>4. PICK h : Sums(h, r) /\ WordSum(r) = h[l + m] BY <1>1, WordSumIsSum
  <1>5. /\ f[0] = 0
        /\ \A i \in 1..l : f[i] = f[i - 1] + Weight(s, i) /\ Weight(s, i) \in Nat
        /\ \A i \in 0..l : f[i] \in Nat
    BY <1>2, SumsStep
  <1>6. /\ g[0] = 0
        /\ \A i \in 1..m : g[i] = g[i - 1] + Weight(t, i) /\ Weight(t, i) \in Nat
        /\ \A i \in 0..m : g[i] \in Nat
    BY <1>3, SumsStep
  <1>7. /\ h[0] = 0
        /\ \A i \in 1..l + m : h[i] = h[i - 1] + Weight(r, i) /\ Weight(r, i) \in Nat
    BY <1>1, <1>4, SumsStep
  <1> DEFINE S == {n \in Nat : n <= l => h[n] = f[n]}
             T == {n \in Nat : n <= m => h[l + n] = f[l] + g[n]}
  <1>8. 0 \in S BY <1>5, <1>7
  <1>9. ASSUME NEW n \in Nat, n \in S PROVE n + 1 \in S
    <2>1. CASE n + 1 <= l
      <3>1. n + 1 \in 1..l /\ n + 1 \in 1..l + m /\ (n + 1) - 1 = n /\ h[n] = f[n] BY <1>9, <2>1
      <3>2. f[n + 1] = f[n] + Weight(s, n + 1) BY <1>5, <3>1
      <3>3. h[n + 1] = h[n] + Weight(r, n + 1) BY <1>7, <3>1
      <3>4. r[n + 1] = s[n + 1]
        <4>1. PICK i \in Nat : i = n + 1 OBVIOUS
        <4>2. 0 < i /\ i <= l BY <2>1, <4>1
        <4> QED BY <1>1, <4>1, <4>2
      <3>5. Weight(r, n + 1) = Weight(s, n + 1) BY <3>4 DEF Weight
      <3>6. h[n + 1] = f[n + 1] BY <3>1, <3>2, <3>3, <3>5
      <3> QED BY <3>6
    <2>2. CASE ~(n + 1 <= l) BY <2>2
    <2> QED BY <2>1, <2>2
  <1>10. \A n \in Nat : n \in S
    <2> HIDE DEF S
    <2> QED BY <1>8, <1>9, Induction
  <1>11. 0 \in T
    <2>1. h[l] = f[l] /\ f[l] \in Nat BY <1>5, <1>10
    <2>2. l + 0 = l /\ f[l] + 0 = f[l] BY <2>1
    <2> QED BY <1>6, <2>1, <2>2
  <1>12. ASSUME NEW n \in Nat, n \in T PROVE n + 1 \in T
    <2>1. CASE n + 1 <= m
      <3>1. /\ n + 1 \in 1..m /\ l + (n + 1) \in 1..l + m /\ (n + 1) - 1 = n /\ n \in 0..m
            /\ (l + (n + 1)) - 1 = l + n
        BY <2>1
      <3>2. g[n + 1] = g[n] + Weight(t, n + 1) /\ Weight(t, n + 1) \in Nat /\ g[n] \in Nat BY <1>6, <3>1
      <3>3. h[l + (n + 1)] = h[l + n] + Weight(r, l + (n + 1)) BY <1>7, <3>1
      <3>4. h[l + n] = f[l] + g[n] /\ f[l] \in Nat BY <1>5, <1>12, <2>1
      <3>5. Weight(r, l + (n + 1)) = Weight(t, n + 1)
        <4>1. PICK i \in Nat : i = n + 1 OBVIOUS
        <4>2. r[l + i] = t[i] BY <1>1, <2>1, <4>1
        <4>3. (l + i) % 2 = i % 2 BY OddAfterEven
        <4>4. Weight(r, l + i) = Weight(t, i) BY <4>2, <4>3 DEF Weight
        <4> QED BY <4>1, <4>4
      <3>6. h[l + (n + 1)] = f[l] + g[n + 1] BY <3>2, <3>3, <3>4, <3>5
      <3> QED BY <3>6
    <2>2. CASE ~(n + 1 <= m) BY <2>2
    <2> QED BY <2>1, <2>2
  <1>13. \A n \in Nat : n \in T
    <2> HIDE DEF T
    <2> QED BY <1>11, <1>12, Induction
  <1>14. h[l + m] = f[l] + g[m] BY <1>13
  <1> QED BY <1>2, <1>3, <1>4, <1>14

\* r has n octets, an even number, that add up to w.
Summed(r, n, w) == r \in Seq(Nat) /\ Len(r) = n /\ n % 2 = 0 /\ WordSum(r) = w
Plus(a, b, c) == a \in Nat /\ b \in Nat /\ c = a + b

LEMMA SummedTogether ==
    ASSUME NEW s, NEW t, NEW l, NEW m, NEW n, NEW v, NEW w, NEW u,
           Summed(s, l, v), Summed(t, m, w), Plus(l, m, n), Plus(v, w, u)
    PROVE  Summed(s \o t, n, u)
  <1>1. s \in Seq(Nat) /\ Len(s) = l /\ l % 2 = 0 /\ WordSum(s) = v BY DEF Summed
  <1>2. t \in Seq(Nat) /\ Len(t) = m /\ m % 2 = 0 /\ WordSum(t) = w BY DEF Summed
  <1>3. l \in Nat /\ m \in Nat /\ n = l + m /\ u = v + w BY DEF Plus
  <1>4. PICK r \in Seq(Nat) : r = s \o t BY <1>1, <1>2, Concatenated
  <1>5. Joined(r, s, l, t, m) BY <1>1, <1>2, <1>3, <1>4, ConcatenationIsJoined
  <1>6. WordSum(r) = u BY <1>1, <1>2, <1>3, <1>5, SumOfJoined
  <1>7. Len(r) = n BY <1>3, <1>5 DEF Joined
  <1>8. n % 2 = 0
    <2>1. (l + m) % 2 = m % 2 BY <1>1, <1>3, OddAfterEven
    <2> QED BY <1>2, <1>3, <2>1
  <1>9. Summed(r, n, u) BY <1>6, <1>7, <1>8 DEF Summed
  <1> QED BY <1>4, <1>9

\* Two octets.
LEMMA SummedPair ==
    ASSUME NEW t \in Seq(Nat), Len(t) = 2
    PROVE  Summed(t, 2, Word(t, 1))
  <1>1. PICK f : Sums(f, t) /\ WordSum(t) = f[Len(t)] BY WordSumIsSum
  <1>2. /\ f[0] = 0
        /\ \A i \in 1..Len(t) : f[i] = f[i - 1] + Weight(t, i) /\ Weight(t, i) \in Nat
    BY <1>1, SumsStep
  <1>3. 1 \in 1..Len(t) /\ 2 \in 1..Len(t) /\ 1 - 1 = 0 /\ 2 - 1 = 1 OBVIOUS
  <1>4. f[1] = 0 + Weight(t, 1) /\ f[2] = f[1] + Weight(t, 2) BY <1>2, <1>3
  <1>5. t[1] \in Nat /\ t[2] \in Nat BY <1>3, ElementOfSeq, Zenon
  <1>6. 1 % 2 = 1 /\ 2 % 2 = 0 /\ 0 # 1 BY SMT
  <1>7. Weight(t, 1) = 256 * t[1] /\ Weight(t, 2) = t[2] BY <1>6 DEF Weight
  <1>8. f[2] = 256 * t[1] + t[2] BY <1>4, <1>5, <1>7
  <1>9. Word(t, 1) = 256 * t[1] + t[2]
    <2>1. 1 + 1 = 2 OBVIOUS
    <2> QED BY <2>1 DEF Word
  <1>10. WordSum(t) = Word(t, 1) BY <1>1, <1>8, <1>9
  <1> QED BY <1>6, <1>10 DEF Summed

LEMMA SummedFour ==
    ASSUME NEW t \in Seq(Nat), Len(t) = 4
    PROVE  Summed(t, 4, Word(t, 1) + Word(t, 3))
  <1>1. PICK f : Sums(f, t) /\ WordSum(t) = f[Len(t)] BY WordSumIsSum
  <1>2. /\ f[0] = 0
        /\ \A i \in 1..Len(t) : f[i] = f[i - 1] + Weight(t, i) /\ Weight(t, i) \in Nat
    BY <1>1, SumsStep
  <1>3. 1 \in 1..Len(t) /\ 2 \in 1..Len(t) /\ 3 \in 1..Len(t) /\ 4 \in 1..Len(t) OBVIOUS
  <1>4. 1 - 1 = 0 /\ 2 - 1 = 1 /\ 3 - 1 = 2 /\ 4 - 1 = 3 OBVIOUS
  <1>5. /\ f[1] = 0 + Weight(t, 1) /\ f[2] = f[1] + Weight(t, 2)
        /\ f[3] = f[2] + Weight(t, 3) /\ f[4] = f[3] + Weight(t, 4)
    BY <1>2, <1>3, <1>4
  <1>6. t[1] \in Nat /\ t[2] \in Nat /\ t[3] \in Nat /\ t[4] \in Nat
    BY <1>3, ElementOfSeq, Zenon
  <1>7. 1 % 2 = 1 /\ 2 % 2 = 0 /\ 3 % 2 = 1 /\ 4 % 2 = 0 /\ 0 # 1 BY SMT
  <1>8. /\ Weight(t, 1) = 256 * t[1] /\ Weight(t, 2) = t[2]
        /\ Weight(t, 3) = 256 * t[3] /\ Weight(t, 4) = t[4]
    BY <1>7 DEF Weight
  <1>9. f[4] = (256 * t[1] + t[2]) + (256 * t[3] + t[4]) BY <1>5, <1>6, <1>8
  <1>10. Word(t, 1) = 256 * t[1] + t[2] /\ Word(t, 3) = 256 * t[3] + t[4]
    <2>1. 1 + 1 = 2 /\ 3 + 1 = 4 OBVIOUS
    <2> QED BY <2>1 DEF Word
  <1>11. WordSum(t) = Word(t, 1) + Word(t, 3) BY <1>1, <1>9, <1>10
  <1> QED BY <1>7, <1>11 DEF Summed

\* The beginning of a header: n octets that add up to w, the second word l.
Header(r, n, w, l) == Summed(r, n, w) /\ n >= 4 /\ Word(r, 3) = l

LEMMA HeaderGrows ==
    ASSUME NEW s, NEW t, NEW l, NEW m, NEW n, NEW v, NEW w, NEW u, NEW x,
           Header(s, l, v, x), Summed(t, m, w), Plus(l, m, n), Plus(v, w, u)
    PROVE  Header(s \o t, n, u, x)
  <1>1. Summed(s, l, v) /\ l >= 4 /\ Word(s, 3) = x BY DEF Header
  <1>2. Summed(s \o t, n, u) BY <1>1, SummedTogether
  <1>3. l \in Nat /\ m \in Nat /\ n = l + m BY DEF Plus
  <1>4. s \in Seq(Nat) /\ Len(s) = l /\ t \in Seq(Nat) /\ Len(t) = m BY <1>1 DEF Summed
  <1>5. PICK r \in Seq(Nat) : r = s \o t BY <1>4, Concatenated
  <1>6. Joined(r, s, l, t, m) BY <1>3, <1>4, <1>5, ConcatenationIsJoined
  <1>7. \A i \in Nat : 0 < i /\ i <= l => r[i] = s[i] BY <1>6 DEF Joined
  <1>8. r[3] = s[3] /\ r[4] = s[4] BY <1>1, <1>3, <1>7
  <1>9. Word(r, 3) = x
    <2>1. 3 + 1 = 4 OBVIOUS
    <2> QED BY <1>1, <1>8, <2>1 DEF Word
  <1>10. n >= 4 BY <1>1, <1>3
  <1> QED BY <1>2, <1>5, <1>9, <1>10 DEF Header

\* Two fields begin a header.
LEMMA HeaderBegins ==
    ASSUME NEW s \in Seq(Nat), NEW t \in Seq(Nat), Len(s) = 2, Len(t) = 2,
           NEW v, NEW w, NEW u, Word(s, 1) = v, Word(t, 1) = w, Plus(v, w, u)
    PROVE  Header(s \o t, 4, u, w)
  <1>1. Summed(s, 2, v) /\ Summed(t, 2, w) BY SummedPair
  <1>2. Plus(2, 2, 4) BY DEF Plus
  <1>3. Summed(s \o t, 4, u) BY <1>1, <1>2, SummedTogether
  <1>4. PICK r \in Seq(Nat) : r = s \o t BY Concatenated
  <1>5. 2 \in Nat OBVIOUS
  <1>6. Joined(r, s, 2, t, 2) BY <1>4, <1>5, ConcatenationIsJoined
  <1>7. \A i \in Nat : 0 < i /\ i <= 2 => r[2 + i] = t[i] BY <1>6 DEF Joined
  <1>8. r[2 + 1] = t[1] /\ r[2 + 2] = t[2]
    <2>1. 1 \in Nat /\ 0 < 1 /\ 1 <= 2 /\ 0 < 2 /\ 2 <= 2 OBVIOUS
    <2> QED BY <1>5, <1>7, <2>1, Zenon
  <1>9. 2 + 1 = 3 /\ 2 + 2 = 4 /\ 3 + 1 = 4 /\ 1 + 1 = 2 /\ 4 >= 4 OBVIOUS
  <1>10. Word(r, 3) = Word(t, 1) BY <1>8, <1>9 DEF Word
  <1> QED BY <1>3, <1>4, <1>9, <1>10 DEF Header

LEMMA SummedField ==
    ASSUME NEW n \in Nat, Short(n)
    PROVE  Summed(Field16(n), 2, n)
  <1>1. Field16(n) \in Seq(Nat) /\ Len(Field16(n)) = 2 BY FieldIs
  <1>2. Word(Field16(n), 1) = n BY ShortField
  <1> QED BY <1>1, <1>2, SummedPair

LEMMA WordOfPair ==
    ASSUME NEW x \in Nat, NEW y \in Nat
    PROVE  << x, y >> \in Seq(Nat) /\ Len(<< x, y >>) = 2 /\ Word(<< x, y >>, 1) = 256 * x + y
  BY DEF Word

\* The header of the echo request, with a checksum c, adds up to
\* 0x4500 + 48 + 1 + 0x4001 + c and its addresses.
LEMMA PingHeaderIs ==
    ASSUME NEW src, NEW dst, NEW c \in Nat, Short(c), NEW v \in Nat, NEW w \in Nat,
           Summed(src, 4, v), Summed(dst, 4, w)
    PROVE  \E sum \in Nat : /\ sum = 34098 + c + v + w
                            /\ Header(PingHeader(c, src, dst), 20, sum, 48)
  <1>1. PICK version \in Nat : version = 17664 OBVIOUS
  <1>2. PICK protocol \in Nat : protocol = 16385 OBVIOUS
  <1>3. PICK n1 \in Nat : n1 = version + 48 OBVIOUS
  <1>4. PICK n2 \in Nat : n2 = n1 + 1 OBVIOUS
  <1>5. PICK n3 \in Nat : n3 = n2 + protocol OBVIOUS
  <1>6. PICK n4 \in Nat : n4 = n3 + c OBVIOUS
  <1>7. PICK n5 \in Nat : n5 = n4 + v OBVIOUS
  <1>8. PICK n6 \in Nat : n6 = n5 + w OBVIOUS
  <1>9. /\ Plus(version, 48, n1) /\ Plus(n1, 1, n2) /\ Plus(n2, 0, n2)
        /\ Plus(n2, protocol, n3) /\ Plus(n3, c, n4) /\ Plus(n4, v, n5) /\ Plus(n5, w, n6)
    BY <1>3, <1>4, <1>5, <1>6, <1>7, <1>8 DEF Plus
  <1>10. PICK a : a = << 69, 0 >> /\ a \in Seq(Nat) /\ Len(a) = 2 /\ Word(a, 1) = version
    <2>1. 256 * 69 + 0 = version BY <1>1
    <2> QED BY <2>1, WordOfPair
  <1>11. PICK d : d = << 64, 1 >> /\ Summed(d, 2, protocol)
    <2>1. 256 * 64 + 1 = protocol BY <1>2
    <2>2. PICK d \in Seq(Nat) : d = << 64, 1 >> /\ Len(d) = 2 /\ Word(d, 1) = protocol
      <3>1. 64 \in Nat /\ 1 \in Nat OBVIOUS
      <3>2. /\ << 64, 1 >> \in Seq(Nat) /\ Len(<< 64, 1 >>) = 2
            /\ Word(<< 64, 1 >>, 1) = 256 * 64 + 1
        BY <3>1, WordOfPair, Zenon
      <3> QED BY <2>1, <3>2, Zenon
    <2> QED BY <2>2, SummedPair
  <1>12. Short(48) /\ Short(1) /\ Short(0) BY SMT DEF Short
  <1>13. PICK b : b = Field16(48) /\ b \in Seq(Nat) /\ Len(b) = 2 /\ Word(b, 1) = 48
    BY <1>12, FieldIs, ShortField
  <1>14. PICK i : i = Field16(1) /\ Summed(i, 2, 1) BY <1>12, SummedField
  <1>15. PICK z : z = Field16(0) /\ Summed(z, 2, 0) BY <1>12, SummedField
  <1>16. PICK e : e = Field16(c) /\ Summed(e, 2, c) BY SummedField
  <1>17. PICK s1 : s1 = a \o b OBVIOUS
  <1>18. PICK s2 : s2 = s1 \o i OBVIOUS
  <1>19. PICK s3 : s3 = s2 \o z OBVIOUS
  <1>20. PICK s4 : s4 = s3 \o d OBVIOUS
  <1>21. PICK s5 : s5 = s4 \o e OBVIOUS
  <1>22. PICK s6 : s6 = s5 \o src OBVIOUS
  <1>23. PICK s7 : s7 = s6 \o dst OBVIOUS
  <1>24. /\ Plus(4, 2, 6) /\ Plus(6, 2, 8) /\ Plus(8, 2, 10) /\ Plus(10, 2, 12)
         /\ Plus(12, 4, 16) /\ Plus(16, 4, 20)
    BY SMT DEF Plus
  <1>25. Header(s1, 4, n1, 48) BY <1>9, <1>10, <1>13, <1>17, HeaderBegins, Zenon
  <1>26. Header(s2, 6, n2, 48) BY <1>9, <1>14, <1>18, <1>24, <1>25, HeaderGrows, Zenon
  <1>27. Header(s3, 8, n2, 48) BY <1>9, <1>15, <1>19, <1>24, <1>26, HeaderGrows, Zenon
  <1>28. Header(s4, 10, n3, 48) BY <1>9, <1>11, <1>20, <1>24, <1>27, HeaderGrows, Zenon
  <1>29. Header(s5, 12, n4, 48) BY <1>9, <1>16, <1>21, <1>24, <1>28, HeaderGrows, Zenon
  <1>30. Header(s6, 16, n5, 48) BY <1>9, <1>22, <1>24, <1>29, HeaderGrows, Zenon
  <1>31. Header(s7, 20, n6, 48) BY <1>9, <1>23, <1>24, <1>30, HeaderGrows, Zenon
  <1>32. PingHeader(c, src, dst) = s7
    BY <1>10, <1>11, <1>13, <1>14, <1>15, <1>16, <1>17, <1>18, <1>19, <1>20, <1>21, <1>22, <1>23
    DEF PingHeader
  <1>33. n6 = 34098 + c + v + w BY <1>1, <1>2, <1>3, <1>4, <1>5, <1>6, <1>7, <1>8
  <1> QED BY <1>31, <1>32, <1>33

\* A sum, not 0, whose carry is at most 1; the complement of what one fold leaves.
CarriesOnce(n) == n # 0 /\ n <= 131070
OneFold(n)     == 65535 - (((n \div 65536) + (n % 65536)) % 65536)

\* One fold is enough: with the complement of what it leaves the sum is a
\* multiple of 0xffff.
LEMMA FoldedOnce ==
    ASSUME NEW n \in Nat, CarriesOnce(n)
    PROVE  \E c \in Nat : c = OneFold(n) /\ Short(c) /\ Multiple(n + c)
  <1>0. n # 0 /\ n <= 131070 BY DEF CarriesOnce
  <1>1. CASE n <= 65535
    <2>1. n \div 65536 = 0 /\ n % 65536 = n BY <1>1, SMT
    <2>2. PICK m \in Nat : m = (n \div 65536) + (n % 65536) /\ m = n BY <2>1, SMT
    <2>3. m % 65536 = n BY <1>1, <2>2, SMT
    <2>4. PICK c \in Nat : c = 65535 - n BY <1>1, SMT
    <2>5. n + c = Full * 1 /\ Short(c) BY <1>0, <1>1, <2>4, SMT DEF Full, Short
    <2>6. Multiple(n + c) BY <2>5, SMT DEF Multiple
    <2>7. OneFold(n) = c BY <2>2, <2>3, <2>4 DEF OneFold
    <2> QED BY <2>5, <2>6, <2>7
  <1>2. CASE 65535 < n
    <2>1. PICK r \in Nat : r = n - 65536 /\ r <= 65534 BY <1>0, <1>2, SMT
    <2>2. n = 65536 * 1 + r BY <2>1, SMT
    <2>3. n \div 65536 = 1 /\ n % 65536 = r BY <2>1, <2>2, SMT
    <2>4. PICK m \in Nat : m = (n \div 65536) + (n % 65536) /\ m = r + 1 BY <2>3, SMT
    <2>5. m % 65536 = r + 1 BY <2>1, <2>4, SMT
    <2>6. PICK c \in Nat : c = 65535 - (r + 1) BY <2>1, SMT
    <2>7. n + c = Full * 2 /\ Short(c) BY <2>1, <2>2, <2>6, SMT DEF Full, Short
    <2>8. Multiple(n + c) BY <2>7, SMT DEF Multiple
    <2>9. OneFold(n) = c BY <2>4, <2>5, <2>6 DEF OneFold
    <2> QED BY <2>7, <2>8, <2>9
  <1> QED BY <1>1, <1>2, SMT

LEMMA PingHeaderAnnounces ==
    ASSUME NEW c \in Nat, NEW src \in Seq(Nat), NEW dst \in Seq(Nat)
    PROVE  Says(PingHeader(c, src, dst), 48)
  <1>1. PICK a \in Seq(Nat) : a = << 69, 0 >> /\ Len(a) = 2
    <2>1. Begins(<< 69, 0 >>, 69, 2) BY PairBegins
    <2> QED BY <2>1 DEF Begins
  <1>2. PICK b \in Seq(Nat) : b = Field16(48) /\ Len(b) = 2 BY FieldIs
  <1>3. PICK i \in Seq(Nat) : i = Field16(1) BY FieldIs
  <1>4. PICK z \in Seq(Nat) : z = Field16(0) BY FieldIs
  <1>5. PICK d \in Seq(Nat) : d = << 64, 1 >>
    <2>1. Begins(<< 64, 1 >>, 64, 2) BY PairBegins
    <2> QED BY <2>1 DEF Begins
  <1>6. PICK e \in Seq(Nat) : e = Field16(c) BY FieldIs
  <1>7. Announces(a \o b, a, b) BY <1>1, <1>2, AnnouncesBegins
  <1>8. Announces(a \o b \o i, a, b) BY <1>7, AnnouncesGrows, Zenon
  <1>9. Announces(a \o b \o i \o z, a, b) BY <1>8, AnnouncesGrows, Zenon
  <1>10. Announces(a \o b \o i \o z \o d, a, b) BY <1>9, AnnouncesGrows, Zenon
  <1>11. Announces(a \o b \o i \o z \o d \o e, a, b) BY <1>10, AnnouncesGrows, Zenon
  <1>12. Announces(a \o b \o i \o z \o d \o e \o src, a, b) BY <1>11, AnnouncesGrows, Zenon
  <1>13. Announces(a \o b \o i \o z \o d \o e \o src \o dst, a, b) BY <1>12, AnnouncesGrows, Zenon
  <1>14. PingHeader(c, src, dst) = a \o b \o i \o z \o d \o e \o src \o dst
    BY <1>1, <1>2, <1>3, <1>4, <1>5, <1>6, Zenon DEF PingHeader
  <1>15. Announces(PingHeader(c, src, dst), << 69, 0 >>, Field16(48))
    BY <1>1, <1>2, <1>13, <1>14
  <1>16. Short(48) BY SMT DEF Short
  <1> QED BY <1>15, <1>16, AnnouncedIs

\* The echo request from an address in 60.60.0.0/16 to 60.60.0.101.
LEMMA PingHeaderVerifies ==
    ASSUME NEW src, NEW dst, NEW h \in Nat, Short(h), NEW v \in Nat, v = 15420 + h,
           Summed(src, 4, v), Summed(dst, 4, 15521)
    PROVE  LET made == PingHeader(CalculateIpv4HeaderChecksum(src, dst), src, dst)
           IN  /\ made \in Seq(Nat) /\ Len(made) = 20 /\ Says(made, 48)
               /\ Verifies(made)
  <1>1. PICK w \in Nat : w = 15521 OBVIOUS
  <1>2. PICK n \in Nat : n = 65039 + h /\ CarriesOnce(n) BY SMT DEF Short, CarriesOnce
  <1>3. WordSum(PingHeader(0, src, dst)) = n
    <2>1. 0 \in Nat /\ Short(0) BY SMT DEF Short
    <2>2. PICK zero : zero = PingHeader(0, src, dst) OBVIOUS
    <2>3. PICK sum \in Nat : sum = 34098 + 0 + v + w /\ Header(zero, 20, sum, 48)
      BY <1>1, <2>1, <2>2, PingHeaderIs
    <2>4. WordSum(zero) = sum BY <2>3 DEF Header, Summed
    <2>5. sum = n BY <1>1, <1>2, <2>3
    <2> QED BY <2>2, <2>4, <2>5
  <1>4. PICK c \in Nat : c = OneFold(n) /\ Short(c) /\ Multiple(n + c)
    BY <1>2, FoldedOnce
  <1>5. CalculateIpv4HeaderChecksum(src, dst) = c
    BY <1>3, <1>4 DEF CalculateIpv4HeaderChecksum, OneFold
  <1>6. PICK made : made = PingHeader(c, src, dst) OBVIOUS
  <1>7. PICK sum \in Nat : sum = 34098 + c + v + w /\ Header(made, 20, sum, 48)
    <2>1. Short(c) BY <1>4
    <2>2. Summed(dst, 4, w) BY <1>1
    <2> QED BY <1>6, <2>1, <2>2, PingHeaderIs
  <1>8. sum = n + c BY <1>1, <1>2, <1>7
  <1>9. Folded[sum] = 65535 BY <1>4, <1>8, FoldedMultiple
  <1>10. /\ made \in Seq(Nat) /\ Len(made) = 20 /\ WordSum(made) = sum /\ Word(made, 3) = 48
    BY <1>7 DEF Header, Summed
  <1>11. Verifies(made) BY <1>9, <1>10 DEF Verifies
  <1>12. Says(made, 48) BY <1>6, PingHeaderAnnounces DEF Summed
  <1> QED BY <1>5, <1>6, <1>10, <1>11, <1>12

\* Two fields of two octets.
FourOctets(T, f, g) ==
    T \in Seq(Nat) /\ Len(T) = 4 /\ T[1] = f[1] /\ T[2] = f[2] /\ T[3] = g[1] /\ T[4] = g[2]

LEMMA FourOctetsAre ==
    ASSUME NEW f \in Seq(Nat), NEW g \in Seq(Nat), Len(f) = 2, Len(g) = 2
    PROVE  FourOctets(f \o g, f, g)
  <1>1. PICK T \in Seq(Nat) : T = f \o g BY Concatenated
  <1>2. 1 \in Nat /\ 2 \in Nat /\ 0 < 1 /\ 1 <= 2 /\ 0 < 2 /\ 2 <= 2 OBVIOUS
  <1>3. Joined(T, f, 2, g, 2) BY <1>1, <1>2, ConcatenationIsJoined
  <1>4. /\ Len(T) = 2 + 2 /\ T[1] = f[1] /\ T[2] = f[2]
        /\ T[2 + 1] = g[1] /\ T[2 + 2] = g[2]
    BY <1>2, <1>3, Zenon DEF Joined
  <1>5. 2 + 1 = 3 /\ 2 + 2 = 4 OBVIOUS
  <1>6. FourOctets(T, f, g) BY <1>4, <1>5 DEF FourOctets
  <1> QED BY <1>1, <1>6

\* A header of eight octets and four behind them.
Twelve(r, s, F, T, f, g) ==
    /\ r \in Seq(Nat) /\ Len(r) = 12
    /\ r[1] = s[1] /\ r[2] = s[2] /\ r[3] = F[1] /\ r[4] = F[2]
    /\ r[5] = T[1] /\ r[6] = T[2] /\ r[7] = T[3] /\ r[8] = T[4]
    /\ r[9] = f[1] /\ r[10] = f[2] /\ r[11] = g[1] /\ r[12] = g[2]

LEMMA TwelveAre ==
    ASSUME NEW H \in Seq(Nat), NEW s, NEW F, NEW T, FirstEight(H, s, F, T),
           NEW Y, NEW f, NEW g, FourOctets(Y, f, g)
    PROVE  Twelve(H \o Y, s, F, T, f, g)
  <1>1. Y \in Seq(Nat) /\ Len(Y) = 4 /\ Len(H) = 8 BY DEF FourOctets, FirstEight
  <1>2. PICK r \in Seq(Nat) : r = H \o Y BY <1>1, Concatenated
  <1>3. 8 \in Nat /\ 4 \in Nat OBVIOUS
  <1>4. Joined(r, H, 8, Y, 4) BY <1>1, <1>2, <1>3, ConcatenationIsJoined
  <1>5. /\ Len(r) = 8 + 4
        /\ r[1] = H[1] /\ r[2] = H[2] /\ r[3] = H[3] /\ r[4] = H[4]
        /\ r[5] = H[5] /\ r[6] = H[6] /\ r[7] = H[7] /\ r[8] = H[8]
        /\ r[8 + 1] = Y[1] /\ r[8 + 2] = Y[2] /\ r[8 + 3] = Y[3] /\ r[8 + 4] = Y[4]
    BY <1>4 DEF Joined
  <1>6. 8 + 1 = 9 /\ 8 + 2 = 10 /\ 8 + 3 = 11 /\ 8 + 4 = 12 OBVIOUS
  <1>7. /\ r[1] = s[1] /\ r[2] = s[2] /\ r[3] = F[1] /\ r[4] = F[2]
        /\ r[5] = T[1] /\ r[6] = T[2] /\ r[7] = T[3] /\ r[8] = T[4]
        /\ r[9] = f[1] /\ r[10] = f[2] /\ r[11] = g[1] /\ r[12] = g[2]
    BY <1>5, <1>6 DEF FirstEight, FourOctets
  <1>8. Len(r) = 12 BY <1>5
  <1>9. Twelve(r, s, F, T, f, g) BY <1>7, <1>8 DEF Twelve
  <1> QED BY <1>2, <1>9

LEMMA TwelveEqual ==
    ASSUME NEW r, NEW u, NEW s, NEW F, NEW T, NEW f, NEW g,
           Twelve(r, s, F, T, f, g), Twelve(u, s, F, T, f, g)
    PROVE  r = u
  <1>1. r \in Seq(Nat) /\ Len(r) = 12 /\ u \in Seq(Nat) /\ Len(u) = 12 BY DEF Twelve
  <1>2. /\ r[1] = u[1] /\ r[2] = u[2] /\ r[3] = u[3] /\ r[4] = u[4] /\ r[5] = u[5] /\ r[6] = u[6]
        /\ r[7] = u[7] /\ r[8] = u[8] /\ r[9] = u[9] /\ r[10] = u[10] /\ r[11] = u[11]
        /\ r[12] = u[12]
    BY DEF Twelve
  <1>3. ASSUME NEW i \in 1..12 PROVE r[i] = u[i]
    <2>1. \/ i = 1 \/ i = 2 \/ i = 3 \/ i = 4 \/ i = 5 \/ i = 6
          \/ i = 7 \/ i = 8 \/ i = 9 \/ i = 10 \/ i = 11 \/ i = 12
      BY SMT
    <2> QED BY <1>2, <2>1, Zenon
  <1> QED BY <1>1, <1>3, SeqEqual

LEMMA PairIs ==
    ASSUME NEW x \in Nat, NEW y \in Nat
    PROVE  << x, y >> \in Seq(Nat) /\ Len(<< x, y >>) = 2 /\ << x, y >>[1] = x /\ << x, y >>[2] = y
  OBVIOUS

\* The header with a sequence number v as its only optional argument.
Flagged(s, v) ==
    \E flags : /\ flags = 3 * 16 + 4 * Len(<<>>) + 2 * Len(<< v >>) + Len(<<>>)
               /\ flags # 48
               /\ s = << flags, 255 >>

LEMMA NumberedHeader ==
    ASSUME NEW n, NEW v, NEW s, Flagged(s, v)
    PROVE  BuildGTPv1Header(<< v >>, <<>>, <<>>, n, 1)
           = (s \o Field16(n) \o Field32(1)) \o (Field16(v) \o << 0, 0 >>)
  <1>1. << v >> # <<>> /\ << v >>[1] = v OBVIOUS
  <1> QED BY <1>1, Zenon DEF BuildGTPv1Header, Flagged

\* The header written by hand is the one BuildGTPv1Header makes.
LEMMA PingTunnelHeaderIs ==
    /\ PingTunnelHeader = BuildGTPv1Header(<< 0 >>, <<>>, <<>>, 52, 1)
    /\ PingTunnelHeader \in Seq(Nat) /\ Len(PingTunnelHeader) = 12
    /\ PingTunnelHeader[1] = 50 /\ PingTunnelHeader[3] = 0 /\ PingTunnelHeader[4] = 52
  <1>0. PICK s : s = << 50, 255 >> OBVIOUS
  <1>1. s \in Seq(Nat) /\ Len(s) = 2 /\ s[1] = 50 /\ s[2] = 255 BY <1>0
  <1>2. PICK F \in Seq(Nat) : F = Field16(52) /\ Len(F) = 2 /\ F[1] = 0 /\ F[2] = 52
    <2>1. PICK F \in Seq(Nat) : F = Field16(52) /\ Len(F) = 2 BY FieldIs
    <2>2. Field16(52) = << 0, 52 >> BY SMT DEF Field16
    <2> QED BY <2>1, <2>2
  <1>3. PICK T \in Seq(Nat) :
          T = Field32(1) /\ Len(T) = 4 /\ T[1] = 0 /\ T[2] = 0 /\ T[3] = 0 /\ T[4] = 1
    BY Field32Is
  <1>4. PICK f \in Seq(Nat) : f = Field16(0) /\ Len(f) = 2 /\ f[1] = 0 /\ f[2] = 0
    <2>1. PICK f \in Seq(Nat) : f = Field16(0) /\ Len(f) = 2 BY FieldIs
    <2>2. Field16(0) = << 0, 0 >> BY SMT DEF Field16
    <2> QED BY <2>1, <2>2
  <1>5. PICK g \in Seq(Nat) : g = << 0, 0 >> /\ Len(g) = 2 /\ g[1] = 0 /\ g[2] = 0 BY PairIs
  <1>6. PICK Y : Y = f \o g /\ FourOctets(Y, f, g) BY <1>4, <1>5, FourOctetsAre
  <1>7. PICK H \in Seq(Nat) : H = s \o F \o T /\ FirstEight(H, s, F, T)
    <2>1. FirstEight(s \o F \o T, s, F, T) BY <1>1, <1>2, <1>3, FirstEightAre
    <2>2. s \o F \o T \in Seq(Nat) BY <2>1 DEF FirstEight
    <2> QED BY <2>1, <2>2
  <1>8. PICK h : h = PingTunnelHeader OBVIOUS
  <1>9. h \in Seq(Nat) /\ Len(h) = 12 BY <1>8 DEF PingTunnelHeader
  <1>10. /\ h[1] = 50 /\ h[2] = 255 /\ h[3] = 0 /\ h[4] = 52 /\ h[5] = 0 /\ h[6] = 0
         /\ h[7] = 0 /\ h[8] = 1 /\ h[9] = 0 /\ h[10] = 0 /\ h[11] = 0 /\ h[12] = 0
    BY <1>8 DEF PingTunnelHeader
  <1>11. Twelve(h, s, F, T, f, g)
    <2>1. h[1] = s[1] /\ h[2] = s[2] /\ h[3] = F[1] /\ h[4] = F[2] BY <1>1, <1>2, <1>10, Zenon
    <2>2. h[5] = T[1] /\ h[6] = T[2] /\ h[7] = T[3] /\ h[8] = T[4] BY <1>3, <1>10, Zenon
    <2>3. h[9] = f[1] /\ h[10] = f[2] /\ h[11] = g[1] /\ h[12] = g[2]
      BY <1>4, <1>5, <1>10, Zenon
    <2> QED BY <1>9, <2>1, <2>2, <2>3, Zenon DEF Twelve
  <1>12. h = H \o Y
    <2>1. Twelve(H \o Y, s, F, T, f, g) BY <1>6, <1>7, TwelveAre
    <2> QED BY <1>11, <2>1, TwelveEqual
  <1>13. BuildGTPv1Header(<< 0 >>, <<>>, <<>>, 52, 1) = H \o Y
    <2>1. PICK n : n = 52 OBVIOUS
    <2>2. Flagged(s, 0)
      <3>1. 3 * 16 + 4 * Len(<<>>) + 2 * Len(<< 0 >>) + Len(<<>>) = 50 /\ 50 # 48 BY SMT
      <3> QED BY <1>0, <3>1 DEF Flagged
    <2>3. BuildGTPv1Header(<< 0 >>, <<>>, <<>>, n, 1)
          = (s \o Field16(n) \o Field32(1)) \o (Field16(0) \o << 0, 0 >>)
      BY <2>2, NumberedHeader, Zenon
    <2>4. F = Field16(n) BY <1>2, <2>1
    <2>5. H = s \o Field16(n) \o Field32(1) BY <1>3, <1>7, <2>4, Zenon
    <2>6. Y = Field16(0) \o << 0, 0 >> BY <1>4, <1>5, <1>6, Zenon
    <2>7. BuildGTPv1Header(<< 0 >>, <<>>, <<>>, n, 1) = H \o Y BY <2>3, <2>5, <2>6, Zenon
    <2> QED BY <2>1, <2>7
  <1>14. h[1] = 50 /\ h[3] = 0 /\ h[4] = 52 BY <1>10
  <1> QED BY <1>8, <1>9, <1>12, <1>13, <1>14, Zenon

\* The n octets of d behind the first o.
Window(w, d, o, n) ==
    w \in Seq(Nat) /\ Len(w) = n /\ \A i \in Nat : 0 < i /\ i <= n => w[i] = d[o + i]

LEMMA SubSeqIsWindow ==
    ASSUME NEW d \in Seq(Nat), NEW o \in Nat, NEW n \in Nat, o + n <= Len(d),
           NEW first, NEW last, first = o + 1, last = o + n
    PROVE  Window(SubSeq(d, first, last), d, o, n)
  <1>1. PICK w : w = SubSeq(d, first, last) OBVIOUS
  <1>2. w \in Seq(Nat) /\ Len(w) = n BY <1>1
  <1>3. ASSUME NEW i \in Nat, 0 < i, i <= n PROVE w[i] = d[o + i] BY <1>1, <1>3
  <1>4. Window(w, d, o, n) BY <1>2, <1>3 DEF Window
  <1> QED BY <1>1, <1>4

\* r begins with the n octets of p.
Agrees(r, p, n) == \A i \in Nat : 0 < i /\ i <= n => r[i] = p[i]

LEMMA Prefix ==
    ASSUME NEW r \in Seq(Nat), NEW p \in Seq(Nat), NEW n \in Nat, Len(p) = n, n <= Len(r),
           Agrees(r, p, n)
    PROVE  SubSeq(r, 1, n) = p
  <1>1. PICK t : t = SubSeq(r, 1, n) OBVIOUS
  <1>2. Window(t, r, 0, n)
    <2>1. 0 \in Nat /\ 0 + n <= Len(r) /\ 1 = 0 + 1 /\ n = 0 + n OBVIOUS
    <2> QED BY <1>1, <2>1, SubSeqIsWindow
  <1>3. t \in Seq(Nat) /\ Len(t) = n BY <1>2 DEF Window
  <1>4. \A i \in Nat : 0 < i /\ i <= n => t[i] = r[0 + i] BY <1>2 DEF Window
  <1>5. \A i \in Nat : 0 < i /\ i <= n => t[i] = p[i]
    <2> TAKE i \in Nat
    <2> HAVE 0 < i /\ i <= n
    <2>1. 0 + i = i OBVIOUS
    <2>2. r[i] = p[i] BY DEF Agrees
    <2> QED BY <1>4, <2>1, <2>2
  <1>6. \A i \in 1..Len(t) : t[i] = p[i]
    <2>1. \A i \in 1..Len(t) : i \in Nat /\ 0 < i /\ i <= n BY <1>3
    <2> QED BY <1>5, <2>1, Zenon
  <1>7. t = p BY <1>3, <1>6, SeqEqual
  <1> QED BY <1>1, <1>7

LEMMA ThirdWord ==
    ASSUME NEW r, NEW p, NEW n \in Nat, 4 <= n, Agrees(r, p, n)
    PROVE  r[1] = p[1] /\ Word(r, 3) = Word(p, 3)
  <1>1. r[1] = p[1] /\ r[3] = p[3] /\ r[4] = p[4] BY DEF Agrees
  <1>2. 3 + 1 = 4 OBVIOUS
  <1> QED BY <1>1, <1>2 DEF Word

\* A datagram d of the header h, the packet p and what follows it.
Datagram(d, h, p) ==
    d \in Seq(Nat) /\ Len(d) = 88 /\ Agrees(d, h, 12) /\ \A i \in Nat : 0 < i /\ i <= 20 => d[12 + i] = p[i]

LEMMA DatagramIs ==
    ASSUME NEW h \in Seq(Nat), Len(h) = 12, NEW p \in Seq(Nat), Len(p) = 20,
           NEW icmp \in Seq(Nat), Len(icmp) = 56
    PROVE  Datagram(h \o p \o icmp, h, p)
  <1>1. PICK a \in Seq(Nat) : a = h \o p BY Concatenated
  <1>2. PICK d \in Seq(Nat) : d = a \o icmp BY Concatenated
  <1>3. 12 \in Nat /\ 20 \in Nat /\ 32 \in Nat /\ 56 \in Nat OBVIOUS
  <1>4. Joined(a, h, 12, p, 20) BY <1>1, <1>3, ConcatenationIsJoined
  <1>5. /\ Len(a) = 12 + 20
        /\ \A i \in Nat : 0 < i /\ i <= 12 => a[i] = h[i]
        /\ \A i \in Nat : 0 < i /\ i <= 20 => a[12 + i] = p[i]
    BY <1>4 DEF Joined
  <1>6. Len(a) = 32 BY <1>5
  <1>7. Joined(d, a, 32, icmp, 56)
    <2>1. PICK l \in Nat : l = 32 OBVIOUS
    <2>2. PICK m \in Nat : m = 56 OBVIOUS
    <2>3. Len(a) = l /\ Len(icmp) = m BY <1>6, <2>1, <2>2
    <2>4. Joined(d, a, l, icmp, m) BY <1>2, <2>3, ConcatenationIsJoined, Zenon
    <2> QED BY <2>1, <2>2, <2>4
  <1>8. Len(d) = 32 + 56 /\ \A i \in Nat : 0 < i /\ i <= 32 => d[i] = a[i] BY <1>7 DEF Joined
  <1>9. Len(d) = 88 BY <1>8
  <1>10. Agrees(d, h, 12)
    <2>1. \A i \in Nat : 0 < i /\ i <= 12 => 0 < i /\ i <= 32 OBVIOUS
    <2> QED BY <1>5, <1>8, <2>1 DEF Agrees
  <1>11. \A i \in Nat : 0 < i /\ i <= 20 => d[12 + i] = p[i]
    <2> TAKE i \in Nat
    <2> HAVE 0 < i /\ i <= 20
    <2>1. 12 + i \in Nat /\ 0 < 12 + i /\ 12 + i <= 32 OBVIOUS
    <2> QED BY <1>5, <1>8, <2>1
  <1> QED BY <1>1, <1>2, <1>9, <1>10, <1>11 DEF Datagram

\* h has the octets of a header with options and the length 52.
WithOptions(h) == h[1] = 50 /\ h[3] = 0 /\ h[4] = 52

\* got are the forty-eight octets that begin with the packet p.
Inside(got, p) ==
    Len(got) = 48 /\ got[1] = p[1] /\ Word(got, 3) = Word(p, 3) /\ SubSeq(got, 1, 20) = p

\* Of a datagram whose header has options and gives the length 52, with at
\* least sixty octets, the forty-eight from the thirteenth on are taken out.
LEMMA OptionsAreSkipped ==
    ASSUME NEW h, WithOptions(h), NEW p \in Seq(Nat), Len(p) = 20, NEW d, Datagram(d, h, p)
    PROVE  Inside(Decapsulated(d), p)
  <1>0. h[1] = 50 /\ h[3] = 0 /\ h[4] = 52 BY DEF WithOptions
  <1>1. d \in Seq(Nat) /\ Len(d) = 88 /\ Agrees(d, h, 12) BY DEF Datagram
  <1>2. PICK got \in Seq(Nat) :
          /\ got = SubSeq(d, 13, 60) /\ Len(got) = 48
          /\ \A i \in Nat : 0 < i /\ i <= 48 => got[i] = d[12 + i]
    <2>1. d \in Seq(Nat) BY <1>1
    <2>2. 12 \in Nat /\ 48 \in Nat /\ 12 + 48 <= Len(d) /\ 13 = 12 + 1 /\ 60 = 12 + 48 BY <1>1
    <2>3. Window(SubSeq(d, 13, 60), d, 12, 48) BY <2>1, <2>2, SubSeqIsWindow, Zenon
    <2> QED BY <2>3, Zenon DEF Window
  <1>3. Agrees(got, p, 20)
    <2>1. \A i \in Nat : 0 < i /\ i <= 20 => 0 < i /\ i <= 48 OBVIOUS
    <2>2. \A i \in Nat : 0 < i /\ i <= 48 => got[i] = d[12 + i] BY <1>2
    <2>3. \A i \in Nat : 0 < i /\ i <= 20 => d[12 + i] = p[i] BY Zenon DEF Datagram
    <2> QED BY <2>1, <2>2, <2>3, Zenon DEF Agrees
  <1>4. 12 \in Nat /\ 20 \in Nat /\ 4 <= 12 /\ 4 <= 20 OBVIOUS
  <1>5. d[1] = 50 /\ Word(d, 3) = Word(h, 3) BY <1>0, <1>1, <1>4, ThirdWord
  <1>6. Word(h, 3) = 52
    <2>1. 3 + 1 = 4 /\ 256 * 0 + 52 = 52 OBVIOUS
    <2> QED BY <1>0, <2>1 DEF Word
  <1>7. Decapsulated(d) = got
    <2>1. 50 % 8 # 0 /\ 8 + 52 = 60 /\ ~(60 > 88) BY SMT
    <2> QED BY <1>1, <1>2, <1>5, <1>6, <2>1, Zenon DEF Decapsulated
  <1>8. SubSeq(got, 1, 20) = p
    <2>1. 20 <= Len(got) BY <1>2
    <2> QED BY <1>3, <1>4, <2>1, Prefix
  <1>9. got[1] = p[1] /\ Word(got, 3) = Word(p, 3) BY <1>3, <1>4, ThirdWord
  <1>10. Inside(got, p) BY <1>2, <1>8, <1>9 DEF Inside
  <1> QED BY <1>7, <1>10

=============================================================================
