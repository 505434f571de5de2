--------------------------- MODULE ZbStreamProofs ---------------------------
(***************************************************************************)
(* What ZbStream says of a run with small blocks holds for blocks, chunks, *)
(* sectors and images of every size: no byte is ever given the wrong part  *)
(* of the key stream, and none is left out.                                *)
(*                                                                         *)
(* The cipher counts blocks by adding one to an array of bytes; the image  *)
(* was encrypted with the digits of the number of the block.  That both    *)
(* agree is an induction over numbers.  It is done with sets: one that     *)
(* holds 0 and with each number the next one holds them all, because < is  *)
(* well founded.                                                           *)
(***************************************************************************)
EXTENDS ZbStream, TLAPS, WellFoundedInduction

(* Images begin where a block of the cipher does, which usage.md does not   *)
(* ask for: the run stream_offset shows what happens if they do not.        *)
StartsAligned == \A s \in Starts : s % AesBlock = 0

-----------------------------------------------------------------------------
(* Numbers *)

LEMMA LeastNumber ==
  ASSUME NEW S, S \subseteq Nat, S # {}
  PROVE  \E x \in S : \A y \in S : ~(y < x)
<1>1. \E x \in S : \A y \in S : <<y, x>> \notin OpToRel(<, Nat)
  BY WFMin, NatLessThanWellFounded, Zenon
<1>2. ASSUME NEW x \in S, NEW y \in S, y < x
      PROVE  <<y, x>> \in OpToRel(<, Nat)
  <2>1. <<y, x>> \in Nat \X Nat /\ <<y, x>>[1] < <<y, x>>[2]
    BY <1>2
  <2>2. QED
    BY <2>1, Zenon DEF OpToRel
<1>3. QED
  BY <1>1, <1>2, Zenon

LEMMA EveryNumber ==
  ASSUME NEW S, 0 \in S, \A n \in Nat : n \in S => n + 1 \in S
  PROVE  Nat \subseteq S
<1>1. SUFFICES ASSUME Nat \ S # {} PROVE FALSE
  OBVIOUS
<1>2. PICK x \in Nat \ S : \A y \in Nat \ S : ~(y < x)
  BY <1>1, LeastNumber
<1>3. x # 0 /\ x - 1 \in Nat /\ x - 1 < x /\ (x - 1) + 1 = x
  BY <1>2
<1>4. QED
  BY <1>2, <1>3

LEMMA DivMod ==
  ASSUME NEW n \in Nat, NEW w \in Nat \ {0}
  PROVE  /\ n \div w \in Nat /\ n % w \in Nat /\ n % w < w
         /\ n = w * (n \div w) + (n % w)
OBVIOUS

LEMMA ProductMonotone ==
  ASSUME NEW w \in Nat, NEW p \in Nat, NEW q \in Nat, p <= q
  PROVE  w * p <= w * q
OBVIOUS

LEMMA DivModUnique ==
  ASSUME NEW w \in Nat \ {0}, NEW q \in Nat, NEW r \in Nat, r < w
  PROVE  (w * q + r) \div w = q /\ (w * q + r) % w = r
<1> DEFINE n == w * q + r
           p == n \div w
<1>1. n \in Nat /\ p \in Nat /\ n % w \in Nat /\ n % w < w /\ n = w * p + (n % w)
  BY DivMod
<1> HIDE DEF n, p
<1>2. ASSUME p < q PROVE FALSE
  <2>1. w * (p + 1) <= w * q /\ w * (p + 1) = w * p + w
    BY <1>1, <1>2, ProductMonotone
  <2>2. QED
    BY <1>1, <2>1 DEF n, p
<1>3. ASSUME q < p PROVE FALSE
  <2>1. w * (q + 1) <= w * p /\ w * (q + 1) = w * q + w
    BY <1>1, <1>3, ProductMonotone
  <2>2. QED
    BY <1>1, <2>1 DEF n, p
<1>4. p = q
  BY <1>1, <1>2, <1>3
<1>5. QED
  BY <1>1, <1>4 DEF n, p

(* Counting on by one carries into the quotient or does not. *)
LEMMA NextDivMod ==
  ASSUME NEW n \in Nat, NEW w \in Nat \ {0}
  PROVE  /\ (n + 1) % w = 0 <=> (n % w) + 1 = w
         /\ (n + 1) \div w = IF (n + 1) % w = 0 THEN (n \div w) + 1 ELSE n \div w
         /\ (n + 1) % w = ((n % w) + 1) % w
<1> DEFINE q == n \div w
           r == n % w
<1>1. q \in Nat /\ r \in Nat /\ r < w /\ n = w * q + r
  BY DivMod
<1> HIDE DEF q, r
<1>2. CASE r + 1 = w
  <2>1. n + 1 = w * (q + 1) + 0
    BY <1>1, <1>2
  <2>2. (n + 1) \div w = q + 1 /\ (n + 1) % w = 0
    BY <1>1, <2>1, DivModUnique
  <2>3. w = w * 1 + 0
    BY <1>1
  <2>4. w % w = 0
    BY <2>3, DivModUnique
  <2>5. QED
    BY <1>2, <2>2, <2>4 DEF q, r
<1>3. CASE r + 1 # w
  <2>1. n + 1 = w * q + (r + 1) /\ r + 1 < w /\ r + 1 \in Nat /\ r + 1 = w * 0 + (r + 1)
    BY <1>1, <1>3
  <2>2. (n + 1) \div w = q /\ (n + 1) % w = r + 1
    BY <1>1, <2>1, DivModUnique
  <2>3. (r + 1) % w = r + 1
    BY <2>1, DivModUnique
  <2>4. QED
    BY <1>1, <1>3, <2>2, <2>3 DEF q, r
<1>4. QED
  BY <1>2, <1>3

-----------------------------------------------------------------------------
(* The counter *)

LEMMA CounterSizes ==
  /\ ByteRange \in Nat \ {0} /\ CtrBytes \in Nat \ {0} /\ AesBlock \in Nat \ {0}
  /\ MoveBlock \in Nat \ {0} /\ WriteBlock \in Nat \ {0} /\ SectorSize \in Nat \ {0}
BY StreamAssumption

IsWeight(g, n) ==
  g = [k \in 0 .. n |-> IF k = 0 THEN 1 ELSE ByteRange * g[k - 1]]

LEMMA WeightExists == \A n \in Nat : \E g : IsWeight(g, n)
<1> DEFINE S == {n \in Nat : \E g : IsWeight(g, n)}
<1>1. 0 \in S
  <2>1. IsWeight([k \in 0 .. 0 |-> 1], 0)
    BY DEF IsWeight
  <2>2. QED
    BY <2>1, Zenon
<1>2. ASSUME NEW n \in Nat, n \in S PROVE n + 1 \in S
  <2>1. PICK g : IsWeight(g, n)
    BY <1>2
  <2> DEFINE h == [k \in 0 .. n + 1 |-> IF k = n + 1 THEN ByteRange * g[n] ELSE g[k]]
  <2>2. \A k \in 0 .. n : g[k] = IF k = 0 THEN 1 ELSE ByteRange * g[k - 1]
    BY <2>1, Zenon DEF IsWeight
  <2>3. ASSUME NEW k \in 0 .. n + 1
        PROVE h[k] = IF k = 0 THEN 1 ELSE ByteRange * h[k - 1]
    <3>1. CASE k = n + 1
      <4>1. k - 1 = n /\ n \in 0 .. n + 1 /\ n # n + 1 /\ k # 0
        BY <3>1
      <4>2. h[n] = g[n]
        BY <4>1
      <4>3. QED
        BY <3>1, <4>1, <4>2
    <3>2. CASE k = 0
      BY <2>2, <3>2
    <3>3. CASE k # 0 /\ k # n + 1
      <4>1. k - 1 \in 0 .. n + 1 /\ k - 1 # n + 1 /\ k \in 0 .. n
        BY <3>3
      <4>2. h[k - 1] = g[k - 1] /\ h[k] = g[k]
        BY <3>3, <4>1
      <4>3. QED
        BY <2>2, <3>3, <4>1, <4>2
    <3>4. QED
      BY <3>1, <3>2, <3>3
  <2>4. IsWeight(h, n + 1)
    <3> HIDE DEF h
    <3>1. h = [k \in 0 .. n + 1 |-> h[k]]
      BY DEF h
    <3>2. QED
      BY <2>3, <3>1, Zenon DEF IsWeight
  <2>5. n + 1 \in Nat
    OBVIOUS
  <2>6. QED
    BY <2>4, <2>5, Zenon
<1>3. Nat \subseteq S
  BY <1>1, <1>2, EveryNumber
<1>4. QED
  BY <1>3

LEMMA WeightIs ==
  /\ Weight[0] = 1
  /\ \A k \in 0 .. CtrBytes - 1 : k # 0 => Weight[k] = ByteRange * Weight[k - 1]
<1>1. CtrBytes - 1 \in Nat /\ 0 \in 0 .. CtrBytes - 1
  BY CounterSizes
<1>2. \E g : g = [k \in 0 .. CtrBytes - 1 |-> IF k = 0 THEN 1 ELSE ByteRange * g[k - 1]]
  BY <1>1, WeightExists, Zenon DEF IsWeight
<1>3. Weight = [k \in 0 .. CtrBytes - 1 |-> IF k = 0 THEN 1 ELSE ByteRange * Weight[k - 1]]
  BY <1>2, Zenon DEF Weight
<1>4. QED
  BY <1>1, <1>3, Zenon

LEMMA WeightType == \A k \in 0 .. CtrBytes - 1 : Weight[k] \in Nat \ {0}
<1> DEFINE S == {n \in Nat : n \in 0 .. CtrBytes - 1 => Weight[n] \in Nat \ {0}}
<1>1. 0 \in S
  BY WeightIs
<1>2. ASSUME NEW n \in Nat, n \in S PROVE n + 1 \in S
  <2>1. CASE n + 1 \in 0 .. CtrBytes - 1
    <3>1. n \in 0 .. CtrBytes - 1 /\ n + 1 # 0 /\ (n + 1) - 1 = n
      BY <2>1, CounterSizes
    <3>2. Weight[n + 1] = ByteRange * Weight[n] /\ Weight[n] \in Nat \ {0}
      BY <1>2, <2>1, <3>1, WeightIs
    <3>3. QED
      BY <3>2, CounterSizes
  <2>2. CASE n + 1 \notin 0 .. CtrBytes - 1
    BY <2>2
  <2>3. QED
    BY <2>1, <2>2
<1>3. Nat \subseteq S
  BY <1>1, <1>2, EveryNumber
<1>4. QED
  BY <1>3, CounterSizes

(* The byte k places in front of the last one, after n blocks. *)
Digit(n, k) == (n \div Weight[k]) % ByteRange

AllAtEnd(n, k) == \A l \in 0 .. k - 1 : Digit(n, l) = ByteRange - 1

(* A multiple of the next weight comes when this digit and the rest below   *)
(* it are at their end.                                                     *)
LEMMA NextMultiple ==
  ASSUME NEW n \in Nat, NEW w \in Nat \ {0}
  PROVE  (n + 1) % (ByteRange * w) = 0
         <=> /\ (n + 1) % w = 0
             /\ (n \div w) % ByteRange = ByteRange - 1
<1> DEFINE B == ByteRange
           q == n \div w
           r == n % w
           d == q % B
           e == q \div B
<1>1. q \in Nat /\ r \in Nat /\ r < w /\ n = w * q + r
  BY DivMod
<1>2. B \in Nat \ {0} /\ d \in Nat /\ e \in Nat /\ d < B /\ q = B * e + d
  BY <1>1, DivMod, CounterSizes
<1>3. (n + 1) % w = 0 <=> r + 1 = w
  BY NextDivMod
<1> HIDE DEF B, q, r, d, e
<1>4. B * w \in Nat \ {0}
  BY <1>2
<1>5. w * q = (B * w) * e + w * d
  <2>1. w * (B * e + d) = w * (B * e) + w * d
    BY <1>2
  <2>2. w * (B * e) = (B * w) * e
    BY <1>2
  <2>3. QED
    BY <1>2, <2>1, <2>2
<1>6. w * d \in Nat /\ (B * w) * e \in Nat
  BY <1>2, <1>4
<1>7. n + 1 = (B * w) * e + (w * d + r + 1)
  BY <1>1, <1>5, <1>6
<1>8. CASE r + 1 = w /\ d = B - 1
  <2>1. w * d + r + 1 = w * B
    <3>1. w * (B - 1) = w * B - w
      BY <1>2
    <3>2. w * B \in Nat /\ w * d = w * B - w
      BY <1>2, <1>8, <3>1
    <3>3. QED
      BY <1>1, <1>8, <3>2
  <2>2. n + 1 = (B * w) * (e + 1) + 0
    BY <1>2, <1>4, <1>7, <2>1
  <2>3. (n + 1) % (B * w) = 0
    <3>1. \A x \in Nat \ {0} : (x * (e + 1) + 0) % x = 0
      BY <1>2, DivModUnique
    <3>2. QED
      BY <1>4, <2>2, <3>1, Zenon
  <2>4. QED
    BY <1>3, <1>8, <2>3 DEF B, d, q
<1>9. CASE ~(r + 1 = w /\ d = B - 1)
  <2>1. w * d + r + 1 < B * w
    <3>1. CASE d = B - 1
      <4>1. w * d + w = B * w /\ r + 1 < w
        BY <1>1, <1>2, <1>9, <3>1
      <4>2. QED
        BY <1>1, <1>4, <1>6, <4>1
    <3>2. CASE d # B - 1
      <4>1. d + 1 \in Nat /\ B - 1 \in Nat /\ d + 1 <= B - 1
        BY <1>2, <3>2
      <4>2. w * (d + 1) <= w * (B - 1)
        BY <4>1, ProductMonotone
      <4>3. w * (d + 1) = w * d + w /\ w * (B - 1) = B * w - w
        BY <1>2
      <4>4. QED
        BY <1>1, <1>4, <1>6, <4>2, <4>3
    <3>3. QED
      BY <3>1, <3>2
  <2>2. w * d + r + 1 \in Nat
    BY <1>1, <1>6
  <2>3. (n + 1) % (B * w) = w * d + r + 1
    BY <1>2, <1>4, <1>7, <2>1, <2>2, DivModUnique
  <2>4. (n + 1) % (B * w) # 0
    BY <1>1, <1>6, <2>3
  <2>5. QED
    BY <1>3, <1>9, <2>4 DEF B, d, q
<1>10. QED
  BY <1>8, <1>9

LEMMA CarryReaches ==
  ASSUME NEW n \in Nat
  PROVE  \A k \in 0 .. CtrBytes - 1 : (n + 1) % Weight[k] = 0 <=> AllAtEnd(n, k)
<1> DEFINE P(k) == (n + 1) % Weight[k] = 0 <=> AllAtEnd(n, k)
           S == {k \in Nat : k \in 0 .. CtrBytes - 1 => P(k)}
<1>1. 0 \in S
  <2>1. n + 1 = 1 * (n + 1) + 0
    OBVIOUS
  <2>2. (n + 1) % 1 = 0
    BY <2>1, DivModUnique
  <2>3. AllAtEnd(n, 0)
    BY DEF AllAtEnd
  <2>4. QED
    BY <2>2, <2>3, WeightIs
<1>2. ASSUME NEW k \in Nat, k \in S PROVE k + 1 \in S
  <2>1. CASE k + 1 \in 0 .. CtrBytes - 1
    <3>1. k \in 0 .. CtrBytes - 1 /\ k + 1 # 0 /\ (k + 1) - 1 = k
      BY <2>1, CounterSizes
    <3>2. Weight[k + 1] = ByteRange * Weight[k] /\ Weight[k] \in Nat \ {0}
      BY <2>1, <3>1, WeightIs, WeightType
    <3>3. (n + 1) % Weight[k + 1] = 0
          <=> (n + 1) % Weight[k] = 0 /\ Digit(n, k) = ByteRange - 1
      BY <3>2, NextMultiple, Zenon DEF Digit
    <3>4. 0 .. (k + 1) - 1 = (0 .. k - 1) \cup {k}
      BY <3>1
    <3>5. AllAtEnd(n, k + 1) <=> AllAtEnd(n, k) /\ Digit(n, k) = ByteRange - 1
      BY <3>4, Zenon DEF AllAtEnd
    <3>6. P(k)
      BY <1>2, <3>1
    <3>7. P(k + 1)
      BY <3>3, <3>5, <3>6, Zenon
    <3>8. QED
      BY <3>7
  <2>2. CASE k + 1 \notin 0 .. CtrBytes - 1
    BY <2>2
  <2>3. QED
    BY <2>1, <2>2
<1>3. Nat \subseteq S
  BY <1>1, <1>2, EveryNumber
<1>4. QED
  BY <1>3, CounterSizes

LEMMA CounterType ==
  ASSUME NEW n \in Nat
  PROVE  CounterOf(n) \in Counters
<1>1. ASSUME NEW i \in 1 .. CtrBytes
      PROVE  (n \div Weight[CtrBytes - i]) % ByteRange \in 0 .. ByteRange - 1
  <2>1. CtrBytes - i \in 0 .. CtrBytes - 1
    BY CounterSizes
  <2>2. Weight[CtrBytes - i] \in Nat \ {0}
    BY <2>1, WeightType
  <2>3. n \div Weight[CtrBytes - i] \in Nat
    BY <2>2, DivMod
  <2>4. QED
    BY <2>3, DivMod, CounterSizes
<1>2. QED
  BY <1>1, Zenon DEF CounterOf, Counters

LEMMA CounterZero == Zero = CounterOf(0)
<1>1. ASSUME NEW i \in 1 .. CtrBytes
      PROVE  (0 \div Weight[CtrBytes - i]) % ByteRange = 0
  <2>1. CtrBytes - i \in 0 .. CtrBytes - 1
    BY CounterSizes
  <2>2. Weight[CtrBytes - i] \in Nat \ {0}
    BY <2>1, WeightType
  <2>3. 0 = Weight[CtrBytes - i] * 0 + 0 /\ 0 = ByteRange * 0 + 0
    BY <2>2, CounterSizes
  <2>4. 0 \div Weight[CtrBytes - i] = 0 /\ 0 % ByteRange = 0
    BY <2>2, <2>3, CounterSizes, DivModUnique
  <2>5. QED
    BY <2>4
<1>2. QED
  BY <1>1, Zenon DEF CounterOf, Zero

(* The carry of zb_aes_ctr_mode counts: one more block, one more.           *)
LEMMA IncrementCounts ==
  ASSUME NEW n \in Nat
  PROVE  Increment(CounterOf(n)) = CounterOf(n + 1)
<1> DEFINE c == CounterOf(n)
<1>1. \A i \in 1 .. CtrBytes : c[i] = Digit(n, CtrBytes - i)
  BY DEF CounterOf, Digit
<1> HIDE DEF c
<1>2. ASSUME NEW i \in 1 .. CtrBytes
      PROVE  (IF \A k \in i + 1 .. CtrBytes : c[k] = ByteRange - 1
              THEN (c[i] + 1) % ByteRange ELSE c[i])
             = Digit(n + 1, CtrBytes - i)
  <2> DEFINE p == CtrBytes - i
             w == Weight[p]
             q == n \div w
  <2>1. p \in 0 .. CtrBytes - 1 /\ i = CtrBytes - p
    BY CounterSizes
  <2>2. w \in Nat \ {0}
    BY <2>1, WeightType
  <2>3. q \in Nat
    BY <2>2, DivMod
  <2>4. (n + 1) % w = 0 <=> AllAtEnd(n, p)
    BY <2>1, CarryReaches
  <2>5. (n + 1) \div w = IF (n + 1) % w = 0 THEN q + 1 ELSE q
    BY <2>2, NextDivMod
  <2>6. (q + 1) % ByteRange = ((q % ByteRange) + 1) % ByteRange
    BY <2>3, NextDivMod, CounterSizes
  <2>7. c[i] = q % ByteRange
    BY <1>1 DEF Digit
  <2>8. (\A k \in i + 1 .. CtrBytes : c[k] = ByteRange - 1) <=> AllAtEnd(n, p)
    <3>1. ASSUME NEW k \in i + 1 .. CtrBytes
          PROVE  CtrBytes - k \in 0 .. p - 1 /\ c[k] = Digit(n, CtrBytes - k)
      BY <1>1, CounterSizes
    <3>2. ASSUME NEW l \in 0 .. p - 1
          PROVE  /\ CtrBytes - l \in i + 1 .. CtrBytes
                 /\ c[CtrBytes - l] = Digit(n, l)
      <4>1. CtrBytes - l \in i + 1 .. CtrBytes /\ CtrBytes - l \in 1 .. CtrBytes
            /\ CtrBytes - (CtrBytes - l) = l
        BY CounterSizes
      <4>2. QED
        BY <1>1, <4>1
    <3>3. QED
      BY <3>1, <3>2, Zenon DEF AllAtEnd
  <2>9. Digit(n + 1, p) = ((n + 1) \div w) % ByteRange
    BY DEF Digit
  <2> HIDE DEF p, w, q
  <2>10. CASE AllAtEnd(n, p)
    BY <2>4, <2>5, <2>6, <2>7, <2>8, <2>9, <2>10, Zenon DEF p
  <2>11. CASE ~AllAtEnd(n, p)
    BY <2>4, <2>5, <2>7, <2>8, <2>9, <2>11, Zenon DEF p
  <2>12. QED
    BY <2>10, <2>11
<1>3. Increment(c) = [i \in 1 .. CtrBytes |-> Digit(n + 1, CtrBytes - i)]
  BY <1>2, Zenon DEF Increment
<1>4. QED
  BY <1>3, Zenon DEF c, CounterOf, Digit

IsRun(g, c, n) == g = [k \in 0 .. n |-> IF k = 0 THEN c ELSE Increment(g[k - 1])]

LEMMA RunExists ==
  ASSUME NEW c
  PROVE  \A n \in Nat : \E g : IsRun(g, c, n)
<1> DEFINE S == {n \in Nat : \E g : IsRun(g, c, n)}
<1>1. 0 \in S
  <2>1. IsRun([k \in 0 .. 0 |-> c], c, 0)
    BY DEF IsRun
  <2>2. QED
    BY <2>1, Zenon
<1>2. ASSUME NEW n \in Nat, n \in S PROVE n + 1 \in S
  <2>1. PICK g : IsRun(g, c, n)
    BY <1>2
  <2> DEFINE h == [k \in 0 .. n + 1 |-> IF k = n + 1 THEN Increment(g[n]) ELSE g[k]]
  <2>2. \A k \in 0 .. n : g[k] = IF k = 0 THEN c ELSE Increment(g[k - 1])
    BY <2>1, Zenon DEF IsRun
  <2>3. ASSUME NEW k \in 0 .. n + 1
        PROVE h[k] = IF k = 0 THEN c ELSE Increment(h[k - 1])
    <3>1. CASE k = n + 1
      <4>1. k - 1 = n /\ n \in 0 .. n + 1 /\ n # n + 1 /\ k # 0
        BY <3>1
      <4>2. h[n] = g[n]
        BY <4>1
      <4>3. QED
        BY <3>1, <4>1, <4>2
    <3>2. CASE k = 0
      BY <2>2, <3>2
    <3>3. CASE k # 0 /\ k # n + 1
      <4>1. k - 1 \in 0 .. n + 1 /\ k - 1 # n + 1 /\ k \in 0 .. n
        BY <3>3
      <4>2. h[k - 1] = g[k - 1] /\ h[k] = g[k]
        BY <3>3, <4>1
      <4>3. QED
        BY <2>2, <3>3, <4>1, <4>2
    <3>4. QED
      BY <3>1, <3>2, <3>3
  <2>4. IsRun(h, c, n + 1)
    <3> HIDE DEF h
    <3>1. h = [k \in 0 .. n + 1 |-> h[k]]
      BY DEF h
    <3>2. QED
      BY <2>3, <3>1, Zenon DEF IsRun
  <2>5. n + 1 \in Nat
    OBVIOUS
  <2>6. QED
    BY <2>4, <2>5, Zenon
<1>3. Nat \subseteq S
  BY <1>1, <1>2, EveryNumber
<1>4. QED
  BY <1>3

LEMMA AdvancedIsRun ==
  ASSUME NEW c, NEW n \in Nat
  PROVE  \E g : IsRun(g, c, n) /\ Advanced(c, n) = g[n]
<1> DEFINE f[k \in 0 .. n] == IF k = 0 THEN c ELSE Increment(f[k - 1])
<1>1. \E g : g = [k \in 0 .. n |-> IF k = 0 THEN c ELSE Increment(g[k - 1])]
  BY RunExists, Zenon DEF IsRun
<1>2. f = [k \in 0 .. n |-> IF k = 0 THEN c ELSE Increment(f[k - 1])]
  BY <1>1, Zenon
<1>3. Advanced(c, n) = f[n]
  BY Zenon DEF Advanced
<1> HIDE DEF f
<1>4. QED
  BY <1>2, <1>3, Zenon DEF IsRun

(* n times one more is n more. *)
LEMMA AdvancedCounts ==
  ASSUME NEW m \in Nat, NEW n \in Nat
  PROVE  Advanced(CounterOf(m), n) = CounterOf(m + n)
<1> DEFINE c == CounterOf(m)
<1>1. PICK g : IsRun(g, c, n) /\ Advanced(c, n) = g[n]
  BY AdvancedIsRun
<1> HIDE DEF c
<1>2. \A k \in 0 .. n : g[k] = IF k = 0 THEN c ELSE Increment(g[k - 1])
  BY <1>1, Zenon DEF IsRun
<1> DEFINE S == {k \in Nat : k \in 0 .. n => g[k] = CounterOf(m + k)}
<1>3. 0 \in S
  BY <1>2 DEF c
<1>4. ASSUME NEW k \in Nat, k \in S PROVE k + 1 \in S
  <2>1. CASE k + 1 \in 0 .. n
    <3>1. k \in 0 .. n /\ k + 1 # 0 /\ (k + 1) - 1 = k /\ m + k \in Nat
          /\ (m + k) + 1 = m + (k + 1)
      BY <2>1
    <3>2. g[k + 1] = Increment(g[k])
      BY <1>2, <2>1, <3>1
    <3>3. g[k] = CounterOf(m + k)
      BY <1>4, <3>1
    <3>4. g[k + 1] = CounterOf(m + (k + 1))
      BY <3>1, <3>2, <3>3, IncrementCounts
    <3>5. QED
      BY <3>4
  <2>2. CASE k + 1 \notin 0 .. n
    BY <2>2
  <2>3. QED
    BY <2>1, <2>2
<1>5. Nat \subseteq S
  BY <1>3, <1>4, EveryNumber
<1>6. QED
  BY <1>1, <1>5 DEF c

-----------------------------------------------------------------------------
(* The inductive invariant *)

Aligned(n) == n % AesBlock = 0

Copying == pc \in {"count", "copy"}

(* The bytes that one call of zb_img_move is asked to move. *)
CallStart == IF job.way = "ram" THEN job.start ELSE sec * SectorSize
CallEnd ==
  IF job.way = "ram" THEN End(job)
  ELSE IF job.way = "up" THEN (sec + 1) * SectorSize
  ELSE Least(End(job), (sec + 1) * SectorSize)

JobInv == GoodJob(job) /\ Aligned(job.start)

(* The locals of a call agree with each other, and every chunk but the last *)
(* ends where a block of the cipher does.                                   *)
CallInv ==
  /\ job.way = "ram" /\ Copying => sec = 0
  /\ job.way # "ram" /\ Copying => SectorLeft
  /\ Copying =>
       /\ mv.eoff = EncStart(job, sec)
       /\ mv.fr >= CallStart /\ mv.fr + mv.left = CallEnd
       /\ mv.ulen = IF mv.fr < mv.eoff THEN mv.eoff - mv.fr ELSE 0
       /\ mv.left = 0 \/ Aligned(mv.fr)
  /\ pc = "count" => mv.left # 0

(* The counter is the one of the block that is next, once all blocks in     *)
(* front of it were counted; while the header is copied it rests.           *)
CounterInv ==
  /\ pc = "count" =>
       /\ mv.at >= mv.eoff /\ Aligned(mv.at - mv.eoff)
       /\ mv.ctr = CounterOf((mv.at - mv.eoff) \div AesBlock)
       /\ IF mv.ulen = 0 THEN mv.at <= mv.fr ELSE mv.at = mv.eoff
  /\ pc = "copy" /\ mv.left # 0 =>
       mv.ctr = IF mv.ulen = 0 THEN CounterOf((mv.fr - mv.eoff) \div AesBlock) ELSE Zero

(* How far the image has been moved. *)
Front ==
  IF Copying THEN mv.fr
  ELSE IF job.way # "ram" THEN sec * SectorSize
  ELSE IF sec = 0 THEN job.start ELSE End(job)

OutInv ==
  /\ ~lost
  /\ NoWrongByte
  /\ \A p \in (IF job.way = "ram" THEN job.start ELSE 0) .. End(job) - 1 :
       p < Front => out[p] = Wanted(job, p)
  /\ pc = "done" => Front >= End(job)

IInv == TypeOK /\ JobInv /\ CallInv /\ CounterInv /\ OutInv

-----------------------------------------------------------------------------
(* Multiples of a block *)

LEMMA AlignedIs ==
  ASSUME NEW a \in Nat, Aligned(a)
  PROVE  a \div AesBlock \in Nat /\ a = AesBlock * (a \div AesBlock)
<1>1. a \div AesBlock \in Nat /\ a = AesBlock * (a \div AesBlock) + (a % AesBlock)
  BY DivMod, CounterSizes
<1>2. AesBlock * (a \div AesBlock) \in Nat
  BY <1>1, CounterSizes
<1>3. QED
  BY <1>1, <1>2 DEF Aligned

LEMMA IsAligned ==
  ASSUME NEW k \in Nat
  PROVE  Aligned(AesBlock * k) /\ (AesBlock * k) \div AesBlock = k
<1>1. AesBlock * k = AesBlock * k + 0
  BY CounterSizes
<1>2. QED
  BY <1>1, DivModUnique, CounterSizes DEF Aligned

LEMMA AlignedSum ==
  ASSUME NEW a \in Nat, NEW b \in Nat, Aligned(a), Aligned(b)
  PROVE  /\ Aligned(a + b)
         /\ (a + b) \div AesBlock = (a \div AesBlock) + (b \div AesBlock)
<1> DEFINE p == a \div AesBlock
           q == b \div AesBlock
<1>1. p \in Nat /\ q \in Nat /\ a = AesBlock * p /\ b = AesBlock * q
  BY AlignedIs
<1> HIDE DEF p, q
<1>2. p + q \in Nat /\ a + b = AesBlock * (p + q)
  BY <1>1, CounterSizes
<1>3. QED
  BY <1>2, IsAligned DEF p, q

LEMMA AlignedDifference ==
  ASSUME NEW a \in Nat, NEW b \in Nat, Aligned(a), Aligned(b), b <= a
  PROVE  Aligned(a - b)
<1> DEFINE p == a \div AesBlock
           q == b \div AesBlock
<1>1. p \in Nat /\ q \in Nat /\ a = AesBlock * p /\ b = AesBlock * q
  BY AlignedIs
<1> HIDE DEF p, q
<1>2. q <= p
  <2>1. ASSUME p < q PROVE FALSE
    <3>1. AesBlock * (p + 1) <= AesBlock * q /\ AesBlock * (p + 1) = AesBlock * p + AesBlock
      BY <1>1, <2>1, ProductMonotone, CounterSizes
    <3>2. QED
      BY <1>1, <3>1, CounterSizes
  <2>2. QED
    BY <1>1, <2>1
<1>3. p - q \in Nat /\ a - b = AesBlock * (p - q)
  BY <1>1, <1>2, CounterSizes
<1>4. QED
  BY <1>3, IsAligned

LEMMA AlignedProduct ==
  ASSUME NEW a \in Nat, NEW k \in Nat, Aligned(a)
  PROVE  k * a \in Nat /\ Aligned(k * a)
<1> DEFINE p == a \div AesBlock
<1>1. p \in Nat /\ a = AesBlock * p
  BY AlignedIs
<1> HIDE DEF p
<1>2. k * p \in Nat /\ k * a = AesBlock * (k * p)
  BY <1>1, CounterSizes
<1>3. AesBlock * (k * p) \in Nat
  BY <1>2, CounterSizes
<1>4. QED
  BY <1>2, <1>3, IsAligned

(* What lies strictly behind a block lies behind all of it. *)
LEMMA AlignedStep ==
  ASSUME NEW a \in Nat, NEW b \in Nat, Aligned(a), Aligned(b), a < b
  PROVE  a + AesBlock <= b
<1> DEFINE k == (b - a) \div AesBlock
<1>1. b - a \in Nat /\ Aligned(b - a)
  BY AlignedDifference
<1>2. k \in Nat /\ b - a = AesBlock * k
  BY <1>1, AlignedIs
<1> HIDE DEF k
<1>3. k # 0
  BY <1>2, CounterSizes
<1>4. AesBlock * 1 <= AesBlock * k
  BY <1>2, <1>3, ProductMonotone, CounterSizes
<1>5. QED
  BY <1>2, <1>4, CounterSizes

LEMMA AlignedSizes ==
  Aligned(SectorSize) /\ Aligned(MoveBlock) /\ Aligned(AesBlock) /\ Aligned(0)
<1>1. AesBlock = AesBlock * 1 /\ 0 = AesBlock * 0
  BY CounterSizes
<1>2. Aligned(AesBlock) /\ Aligned(0)
  BY <1>1, IsAligned
<1>3. QED
  BY <1>2, StreamAssumption DEF Aligned

(* A chunk of whole blocks takes a counter for each. *)
LEMMA BlocksOfAligned ==
  ASSUME NEW a \in Nat, Aligned(a)
  PROVE  Blocks(a) = a \div AesBlock
<1>1. a \div AesBlock \in Nat /\ a = AesBlock * (a \div AesBlock)
  BY AlignedIs
<1>2. a + AesBlock - 1 = AesBlock * (a \div AesBlock) + (AesBlock - 1)
      /\ AesBlock - 1 \in Nat /\ AesBlock - 1 < AesBlock
  BY <1>1, CounterSizes
<1>3. QED
  BY <1>1, <1>2, DivModUnique, CounterSizes DEF Blocks

LEMMA BlocksType ==
  ASSUME NEW n \in Nat
  PROVE  Blocks(n) \in Nat
<1>1. n + AesBlock - 1 \in Nat
  BY CounterSizes
<1>2. QED
  BY <1>1, DivMod, CounterSizes DEF Blocks

(* The flash driver takes what begins at a block of the cipher. *)
LEMMA AlignedForFlash ==
  ASSUME NEW a \in Nat, Aligned(a)
  PROVE  a % WriteBlock = 0
<1> DEFINE p == a \div AesBlock
           w == AesBlock \div WriteBlock
<1>1. p \in Nat /\ a = AesBlock * p
  BY AlignedIs
<1>2. w \in Nat /\ AesBlock = WriteBlock * w + (AesBlock % WriteBlock)
  BY DivMod, CounterSizes
<1>3. AesBlock % WriteBlock = 0
  BY StreamAssumption
<1> HIDE DEF p, w
<1>4. AesBlock = WriteBlock * w
  BY <1>2, <1>3, CounterSizes
<1>5. w * p \in Nat /\ a = WriteBlock * (w * p) + 0
  BY <1>1, <1>2, <1>4, CounterSizes
<1>6. QED
  BY <1>5, DivModUnique, CounterSizes

(* Where a block that lies in a stream of blocks stands in the whole one. *)
LEMMA WithinStream ==
  ASSUME NEW a \in Nat, NEW i \in Nat, Aligned(a)
  PROVE  /\ i \div AesBlock \in Nat
         /\ (a + i) \div AesBlock = (a \div AesBlock) + (i \div AesBlock)
         /\ (a + i) % AesBlock = i % AesBlock
<1> DEFINE p == a \div AesBlock
           q == i \div AesBlock
           r == i % AesBlock
<1>1. p \in Nat /\ a = AesBlock * p
  BY AlignedIs
<1>2. q \in Nat /\ r \in Nat /\ r < AesBlock /\ i = AesBlock * q + r
  BY DivMod, CounterSizes
<1> HIDE DEF p, q, r
<1>3. p + q \in Nat /\ a + i = AesBlock * (p + q) + r
  BY <1>1, <1>2, CounterSizes
<1>4. (AesBlock * (p + q) + r) \div AesBlock = p + q /\ (AesBlock * (p + q) + r) % AesBlock = r
  BY <1>2, <1>3, DivModUnique, CounterSizes
<1>5. QED
  BY <1>2, <1>3, <1>4 DEF p, q, r

-----------------------------------------------------------------------------
(* Jobs and sectors *)

LEMMA JobTypes ==
  ASSUME job \in Jobs
  PROVE  /\ job.start \in Nat /\ job.size \in Nat \ {0} /\ End(job) \in Nat
         /\ job.start < End(job) /\ End(job) = job.start + job.size
         /\ job.enc \in BOOLEAN /\ job.cipher \in BOOLEAN /\ job.way \in {"swap", "up", "ram"}
<1>1. job.start \in Starts /\ job.size \in Sizes
      /\ job.enc \in BOOLEAN /\ job.cipher \in BOOLEAN /\ job.way \in {"swap", "up", "ram"}
  BY DEF Jobs, Ways
<1>2. job.start \in Nat /\ job.size \in Nat \ {0}
  BY <1>1, StreamAssumption, Zenon
<1>3. End(job) = job.start + job.size
  BY DEF End
<1>4. End(job) \in Nat /\ job.start < End(job)
  BY <1>2, <1>3
<1>5. QED
  BY <1>1, <1>2, <1>3, <1>4, Zenon

LEMMA SectorCount ==
  ASSUME NEW n \in Nat
  PROVE  /\ RoundUp(n, SectorSize) \div SectorSize \in Nat
         /\ \A s \in Nat : s * SectorSize < n =>
              s + 1 <= RoundUp(n, SectorSize) \div SectorSize
<1> DEFINE m == n + SectorSize - 1
           c == m \div SectorSize
           r == m % SectorSize
<1>1. m \in Nat
  BY CounterSizes
<1>2. c \in Nat /\ r \in Nat /\ r < SectorSize /\ m = SectorSize * c + r
  BY <1>1, DivMod, CounterSizes
<1>3. RoundUp(n, SectorSize) = c * SectorSize
  BY DEF RoundUp
<1> HIDE DEF c, r
<1>4. c * SectorSize = SectorSize * c + 0
  BY <1>2, CounterSizes
<1>5. RoundUp(n, SectorSize) \div SectorSize = c
  BY <1>2, <1>3, <1>4, DivModUnique, CounterSizes
<1>6. ASSUME NEW s \in Nat, s * SectorSize < n PROVE s + 1 <= c
  <2>1. ASSUME c <= s PROVE FALSE
    <3>1. SectorSize * c <= SectorSize * s /\ SectorSize * s = s * SectorSize
      BY <1>2, <2>1, ProductMonotone, CounterSizes
    <3>2. SectorSize * c \in Nat /\ s * SectorSize \in Nat
      BY <1>2, CounterSizes
    <3>3. QED
      BY <1>2, <1>6, <3>1, <3>2, CounterSizes
  <2>2. QED
    BY <1>2, <2>1
<1>7. QED
  BY <1>2, <1>5, <1>6

LEMMA EndRounded ==
  ASSUME NEW n \in Nat
  PROVE  0 .. n - 1 \subseteq 0 .. RoundUp(n, SectorSize) - 1
<1> DEFINE m == n + SectorSize - 1
           c == m \div SectorSize
<1>1. m \in Nat
  BY CounterSizes
<1>2. c \in Nat /\ m % SectorSize < SectorSize /\ m % SectorSize \in Nat
      /\ m = SectorSize * c + (m % SectorSize)
  BY <1>1, DivMod, CounterSizes
<1> HIDE DEF c
<1>3. RoundUp(n, SectorSize) = c * SectorSize
  BY DEF RoundUp, c
<1>4. c * SectorSize = SectorSize * c /\ SectorSize * c \in Nat
  BY <1>2, CounterSizes
<1>5. n <= c * SectorSize
  BY <1>2, <1>4, CounterSizes
<1>6. QED
  BY <1>3, <1>4, <1>5

LEMMA SectorTypes ==
  ASSUME TypeOK
  PROVE  /\ sec \in Nat /\ sec * SectorSize \in Nat /\ (sec + 1) * SectorSize \in Nat
         /\ (sec + 1) * SectorSize = sec * SectorSize + SectorSize
         /\ Aligned(sec * SectorSize) /\ Aligned((sec + 1) * SectorSize)
<1>1. sec \in Nat
  BY JobTypes, SectorCount DEF TypeOK
<1>2. SectorSize \in Nat \ {0} /\ sec + 1 \in Nat
  BY <1>1, CounterSizes
<1>3. (sec + 1) * SectorSize = sec * SectorSize + SectorSize
  BY <1>1, <1>2
<1>4. QED
  BY <1>1, <1>2, <1>3, AlignedProduct, AlignedSizes

LEMMA EncStartType ==
  ASSUME TypeOK
  PROVE  EncStart(job, sec) \in Nat
BY JobTypes, SectorTypes DEF EncStart, TypeOK

(* Only in a swap of an encrypted image is there a stream to pick up.       *)
LEMMA StreamStart ==
  ASSUME IInv, Copying, mv.left # 0, mv.ulen = 0
  PROVE  /\ job.enc /\ job.way = "swap" /\ mv.eoff = job.start /\ mv.eoff <= mv.fr
         /\ Aligned(mv.fr) /\ Aligned(mv.eoff) /\ mv.fr + mv.left <= End(job)
<1>1. /\ mv.fr \in Nat /\ mv.left \in Nat \ {0} /\ mv.eoff \in Nat
      /\ mv.eoff = EncStart(job, sec) /\ mv.fr + mv.left = CallEnd
      /\ mv.ulen = IF mv.fr < mv.eoff THEN mv.eoff - mv.fr ELSE 0
      /\ Aligned(mv.fr)
  BY DEF IInv, TypeOK, CallInv
<1>2. mv.eoff <= mv.fr
  BY <1>1
<1>3. /\ job.start \in Nat /\ End(job) \in Nat /\ job.way \in {"swap", "up", "ram"}
      /\ (sec + 1) * SectorSize \in Nat
  BY JobTypes, SectorTypes DEF IInv, TypeOK
<1>4. job.way # "up"
  BY <1>1, <1>2, <1>3 DEF EncStart, CallEnd
<1>5. CallEnd \in Nat /\ CallEnd <= End(job)
  BY <1>3, <1>4 DEF CallEnd, Least
<1>6. job.enc
  BY <1>1, <1>2, <1>3, <1>4, <1>5 DEF EncStart
<1>7. job.way = "swap"
  BY <1>3, <1>4, <1>6 DEF IInv, JobInv, GoodJob
<1>8. mv.eoff = job.start
  BY <1>1, <1>6, <1>7 DEF EncStart
<1>9. QED
  BY <1>1, <1>2, <1>5, <1>6, <1>7, <1>8 DEF IInv, JobInv

-----------------------------------------------------------------------------
(* The steps *)

LEMMA InitInv ==
  ASSUME Init, StartsAligned
  PROVE  IInv
<1>1. job \in Jobs /\ GoodJob(job)
  BY DEF Init
<1>2. Aligned(job.start)
  BY <1>1 DEF Jobs, StartsAligned, Aligned
<1>3. Idle \in [fr : Nat, eoff : Nat, left : Nat, ulen : Nat, ctr : Counters, at : Nat]
  BY CounterZero, CounterType DEF Idle
<1>4. TypeOK
  <2>1. End(job) \in Nat
    BY <1>1, JobTypes
  <2>2. sec \in 0 .. RoundUp(End(job), SectorSize) \div SectorSize
    BY <2>1, SectorCount DEF Init
  <2>3. DOMAIN out = 0 .. RoundUp(End(job), SectorSize) - 1
    BY Zenon DEF Init
  <2>4. mv = Idle /\ pc = "call" /\ lost = FALSE
    BY DEF Init
  <2>5. QED
    BY <1>1, <1>3, <2>2, <2>3, <2>4 DEF TypeOK
<1>5. CallInv /\ CounterInv
  BY DEF Init, CallInv, CounterInv, Copying
<1>6. Front = IF job.way # "ram" THEN 0 ELSE job.start
  BY CounterSizes DEF Init, Front, Copying
<1>7. OutInv
  <2>1. NoWrongByte
    BY DEF Init, NoWrongByte
  <2>2. ASSUME NEW p \in (IF job.way = "ram" THEN job.start ELSE 0) .. End(job) - 1
        PROVE  ~(p < Front)
    BY <1>1, <1>6, JobTypes
  <2>3. ~lost /\ pc # "done"
    BY DEF Init
  <2>4. QED
    BY <2>1, <2>2, <2>3 DEF OutInv
<1>8. QED
  BY <1>1, <1>2, <1>4, <1>5, <1>7 DEF IInv, JobInv

(* A call begins: what Call is given. *)
LEMMA CallBegins ==
  ASSUME IInv, pc = "call", pc' = "count", UNCHANGED <<job, sec, out, lost>>,
         NEW from \in Nat, NEW len \in Nat \ {0}, Call(from, len),
         from = CallStart, from + len = CallEnd, Aligned(from),
         job.way = "ram" => sec = 0, job.way # "ram" => SectorLeft
  PROVE  IInv'
<1> DEFINE e == EncStart(job, sec)
<1>1. e \in Nat
  BY EncStartType DEF IInv
<1> HIDE DEF e
<1>2. mv' = [fr |-> from, eoff |-> e, left |-> len,
             ulen |-> IF from < e THEN e - from ELSE 0, ctr |-> Zero, at |-> e]
  BY DEF Call, e
<1>3. Zero \in Counters /\ Zero = CounterOf(0)
  BY CounterZero, CounterType
<1>4. TypeOK'
  BY <1>1, <1>2, <1>3 DEF IInv, TypeOK
<1>5. JobInv'
  BY DEF IInv, JobInv
<1>6. CallInv'
  BY <1>1, <1>2 DEF CallInv, Copying, CallStart, CallEnd, SectorLeft, e
<1>7. CounterInv'
  <2>1. e - e = 0 /\ 0 \div AesBlock = 0
    <3>1. AesBlock * 0 = 0
      BY CounterSizes
    <3>2. 0 \div AesBlock = 0
      BY <3>1, IsAligned
    <3>3. QED
      BY <1>1, <3>2
  <2>2. mv'.at >= mv'.eoff /\ Aligned(mv'.at - mv'.eoff)
    BY <1>1, <1>2, <2>1, AlignedSizes
  <2>3. mv'.ctr = CounterOf((mv'.at - mv'.eoff) \div AesBlock)
    BY <1>2, <1>3, <2>1
  <2>4. IF mv'.ulen = 0 THEN mv'.at <= mv'.fr ELSE mv'.at = mv'.eoff
    BY <1>1, <1>2
  <2>5. QED
    BY <2>2, <2>3, <2>4 DEF CounterInv
<1>8. Front' = Front
  <2>1. Front' = from
    BY <1>2 DEF Front, Copying
  <2>2. Front = from
    BY JobTypes DEF Front, Copying, CallStart
  <2>3. QED
    BY <2>1, <2>2
<1>9. OutInv'
  <2>1. NoWrongByte'
    BY DEF IInv, OutInv, NoWrongByte
  <2>2. QED
    BY <1>8, <2>1 DEF IInv, OutInv
<1>10. QED
  BY <1>4, <1>5, <1>6, <1>7, <1>9 DEF IInv

LEMMA MoveSectorInv ==
  ASSUME IInv, MoveSector
  PROVE  IInv'
<1> DEFINE from == sec * SectorSize
           len == IF job.way = "up" THEN SectorSize
                  ELSE Least(End(job) - sec * SectorSize, SectorSize)
<1>1. /\ from \in Nat /\ Aligned(from) /\ End(job) \in Nat /\ from < End(job)
      /\ (sec + 1) * SectorSize = from + SectorSize /\ SectorSize \in Nat \ {0}
  BY SectorTypes, JobTypes, CounterSizes DEF IInv, TypeOK, MoveSector, SectorLeft
<1>2. len \in Nat \ {0} /\ from + len = CallEnd
  BY <1>1 DEF CallEnd, Least, MoveSector
<1>3. from = CallStart /\ Call(from, len)
  BY DEF CallStart, MoveSector
<1>4. QED
  BY <1>1, <1>2, <1>3, CallBegins DEF MoveSector

LEMMA MoveToRamInv ==
  ASSUME IInv, MoveToRam
  PROVE  IInv'
<1>1. /\ job.start \in Nat /\ job.size \in Nat \ {0} /\ End(job) = job.start + job.size
      /\ Aligned(job.start)
  BY JobTypes DEF IInv, TypeOK, JobInv
<1>2. job.start = CallStart /\ job.start + job.size = CallEnd /\ Call(job.start, job.size)
  BY <1>1 DEF CallStart, CallEnd, MoveToRam
<1>3. QED
  BY <1>1, <1>2, CallBegins DEF MoveToRam

LEMMA MoveDoneInv ==
  ASSUME IInv, MoveDone
  PROVE  IInv'
<1>1. TypeOK' /\ JobInv' /\ CallInv' /\ CounterInv'
  BY DEF IInv, MoveDone, TypeOK, JobInv, CallInv, CounterInv, Copying
<1>2. Front' = Front
  BY DEF MoveDone, Front, Copying
<1>3. Front >= End(job)
  BY JobTypes, SectorTypes DEF IInv, TypeOK, MoveDone, SectorLeft, Front, Copying
<1>4. NoWrongByte'
  BY DEF IInv, OutInv, NoWrongByte, MoveDone
<1>5. OutInv'
  BY <1>2, <1>3, <1>4 DEF IInv, OutInv, MoveDone
<1>6. QED
  BY <1>1, <1>5 DEF IInv

(* The loop over the blocks in front of a sector stops at the sector, never *)
(* behind it.                                                               *)
LEMMA SkipBlockInv ==
  ASSUME IInv, SkipBlock
  PROVE  IInv'
<1> DEFINE n == mv.at - mv.eoff
<1>1. /\ mv \in [fr : Nat, eoff : Nat, left : Nat, ulen : Nat, ctr : Counters, at : Nat]
      /\ mv.left # 0 /\ mv.ulen = 0 /\ mv.at < mv.fr
      /\ mv.at >= mv.eoff /\ Aligned(n) /\ mv.ctr = CounterOf(n \div AesBlock)
  BY DEF IInv, TypeOK, CallInv, CounterInv, SkipBlock, Counting
<1>2. Copying
  BY DEF Copying, SkipBlock
<1>3. Aligned(mv.fr) /\ Aligned(mv.eoff) /\ mv.eoff <= mv.fr
  BY <1>1, <1>2, StreamStart
<1>4. n \in Nat /\ n \div AesBlock \in Nat
  BY <1>1, AlignedIs
<1>5. mv' = [mv EXCEPT !.ctr = Increment(@), !.at = @ + AesBlock]
  BY DEF SkipBlock
<1>6. /\ mv'.fr = mv.fr /\ mv'.eoff = mv.eoff /\ mv'.left = mv.left /\ mv'.ulen = mv.ulen
      /\ mv'.at = mv.at + AesBlock /\ mv'.ctr = CounterOf((n \div AesBlock) + 1)
  BY <1>1, <1>4, <1>5, IncrementCounts
<1>7. mv'.ctr \in Counters
  BY <1>4, <1>6, CounterType
<1>8. mv' \in [fr : Nat, eoff : Nat, left : Nat, ulen : Nat, ctr : Counters, at : Nat]
  <2>1. mv.at + AesBlock \in Nat /\ Increment(mv.ctr) \in Counters
    BY <1>1, <1>5, <1>7, CounterSizes
  <2>2. QED
    BY <1>1, <1>5, <2>1
<1>9. TypeOK' /\ JobInv'
  BY <1>8 DEF IInv, TypeOK, JobInv, SkipBlock
<1>10. CallInv'
  BY <1>6 DEF IInv, CallInv, Copying, CallStart, CallEnd, SectorLeft, SkipBlock
<1>11. CounterInv'
  <2>1. AesBlock \in Nat /\ Aligned(AesBlock) /\ AesBlock \div AesBlock = 1
    <3>1. AesBlock = AesBlock * 1
      BY CounterSizes
    <3>2. QED
      BY <3>1, IsAligned, AlignedSizes, CounterSizes
  <2>2. mv'.at - mv'.eoff = n + AesBlock
    BY <1>1, <1>6, <2>1
  <2>3. Aligned(n + AesBlock) /\ (n + AesBlock) \div AesBlock = (n \div AesBlock) + 1
    <3>1. /\ Aligned(n + AesBlock)
          /\ (n + AesBlock) \div AesBlock = (n \div AesBlock) + (AesBlock \div AesBlock)
      BY <1>1, <1>4, <2>1, AlignedSum, Zenon
    <3>2. QED
      BY <2>1, <3>1
  <2>4. mv.fr - mv.eoff \in Nat /\ Aligned(mv.fr - mv.eoff) /\ n < mv.fr - mv.eoff
    BY <1>1, <1>3, AlignedDifference
  <2>5. n + AesBlock <= mv.fr - mv.eoff
    BY <1>1, <1>4, <2>4, AlignedStep
  <2>6. mv'.at <= mv'.fr /\ mv'.at >= mv'.eoff
    BY <1>1, <1>6, <2>1, <2>5
  <2>7. mv'.ctr = CounterOf((mv'.at - mv'.eoff) \div AesBlock)
    BY <1>6, <2>2, <2>3
  <2>8. Aligned(mv'.at - mv'.eoff) /\ mv'.ulen = 0 /\ pc' = "count"
    BY <1>1, <1>6, <2>2, <2>3 DEF SkipBlock
  <2>9. QED
    BY <2>6, <2>7, <2>8 DEF CounterInv
<1>12. Front' = Front
  BY <1>6 DEF Front, Copying, SkipBlock
<1>13. OutInv'
  <2>1. NoWrongByte'
    BY DEF IInv, OutInv, NoWrongByte, SkipBlock
  <2>2. QED
    BY <1>12, <2>1 DEF IInv, OutInv, SkipBlock
<1>14. QED
  BY <1>9, <1>10, <1>11, <1>13 DEF IInv

LEMMA CountedInv ==
  ASSUME IInv, Counted
  PROVE  IInv'
<1>1. TypeOK' /\ JobInv'
  BY DEF IInv, TypeOK, JobInv, Counted
<1>2. CallInv'
  BY DEF IInv, CallInv, Copying, CallStart, CallEnd, SectorLeft, Counted
<1>3. CounterInv'
  <2>1. /\ mv.at \in Nat /\ mv.fr \in Nat /\ mv.eoff \in Nat
        /\ mv.ctr = CounterOf((mv.at - mv.eoff) \div AesBlock)
        /\ IF mv.ulen = 0 THEN mv.at <= mv.fr ELSE mv.at = mv.eoff
        /\ mv.at < mv.fr => mv.ulen # 0
    BY DEF IInv, TypeOK, CounterInv, Counted, Counting
  <2>2. CASE mv.ulen = 0
    <3>1. mv.at = mv.fr
      BY <2>1, <2>2
    <3>2. QED
      BY <2>1, <2>2, <3>1 DEF CounterInv, Counted
  <2>3. CASE mv.ulen # 0
    <3>1. mv.at - mv.eoff = 0
      BY <2>1, <2>3
    <3>2. AesBlock * 0 = 0
      BY CounterSizes
    <3>3. 0 \div AesBlock = 0
      BY <3>2, IsAligned
    <3>4. mv.ctr = Zero
      BY <2>1, <3>1, <3>3, CounterZero
    <3>5. QED
      BY <2>3, <3>4 DEF CounterInv, Counted
  <2>4. QED
    BY <2>2, <2>3
<1>4. Front' = Front
  BY DEF Front, Copying, Counted
<1>5. OutInv'
  <2>1. NoWrongByte'
    BY DEF IInv, OutInv, NoWrongByte, Counted
  <2>2. QED
    BY <1>4, <2>1 DEF IInv, OutInv, Counted
<1>6. QED
  BY <1>1, <1>2, <1>3, <1>5 DEF IInv

(* The next sector begins where this one ends. *)
LEMMA ReturnInv ==
  ASSUME IInv, Return
  PROVE  IInv'
<1>1. /\ job' = job /\ mv' = mv /\ out' = out /\ lost' = lost /\ sec' = sec + 1 /\ pc' = "call"
      /\ pc = "copy" /\ mv.left = 0 /\ Copying
  BY DEF Return, Copying
<1>2. /\ sec \in Nat /\ sec * SectorSize \in Nat /\ SectorSize \in Nat \ {0}
      /\ (sec + 1) * SectorSize = sec * SectorSize + SectorSize
      /\ End(job) \in Nat \ {0} /\ job.start \in Nat
      /\ job.way \in {"swap", "up", "ram"}
  BY SectorTypes, JobTypes, CounterSizes DEF IInv, TypeOK
<1>3. sec * SectorSize < End(job)
  <2>1. CASE job.way = "ram"
    BY <1>1, <1>2, <2>1 DEF IInv, CallInv
  <2>2. CASE job.way # "ram"
    BY <1>1, <2>2 DEF IInv, CallInv, SectorLeft
  <2>3. QED
    BY <2>1, <2>2
<1>4. sec' \in 0 .. RoundUp(End(job), SectorSize) \div SectorSize
  BY <1>1, <1>2, <1>3, SectorCount
<1>5. TypeOK' /\ JobInv'
  BY <1>1, <1>4 DEF IInv, TypeOK, JobInv
<1>6. CallInv' /\ CounterInv'
  BY <1>1 DEF CallInv, CounterInv, Copying
<1>7. mv.fr = CallEnd
  BY <1>1 DEF IInv, TypeOK, CallInv
<1>8. Front = CallEnd
  BY <1>1, <1>7 DEF Front
<1>9. ASSUME NEW p \in Nat, p < End(job), p < Front'
      PROVE  p < Front
  <2>1. CASE job.way = "ram"
    BY <1>8, <1>9, <2>1 DEF CallEnd
  <2>2. CASE job.way # "ram"
    <3>1. Front' = (sec + 1) * SectorSize
      BY <1>1, <2>2 DEF Front, Copying
    <3>2. QED
      BY <1>2, <1>8, <1>9, <2>2, <3>1 DEF CallEnd, Least
  <2>3. QED
    BY <2>1, <2>2
<1>10. OutInv'
  <2>1. NoWrongByte' /\ ~lost'
    BY <1>1 DEF IInv, OutInv, NoWrongByte
  <2>2. ASSUME NEW p \in (IF job.way = "ram" THEN job.start ELSE 0) .. End(job) - 1, p < Front'
        PROVE  out[p] = Wanted(job, p)
    <3>1. p \in Nat /\ p < End(job)
      BY <1>2
    <3>2. QED
      BY <1>9, <2>2, <3>1 DEF IInv, OutInv
  <2>3. QED
    BY <1>1, <2>1, <2>2 DEF OutInv
<1>11. QED
  BY <1>5, <1>6, <1>10 DEF IInv

-----------------------------------------------------------------------------
(* A chunk *)

LEMMA ChunkSize ==
  ASSUME IInv, CopyChunk
  PROVE  /\ Chunk \in Nat \ {0} /\ Chunk <= mv.left
         /\ mv.ulen # 0 => Chunk <= mv.ulen
         /\ Chunk \in {mv.left, MoveBlock, mv.ulen}
         /\ mv.ulen = 0 => Chunk # mv.ulen
BY CounterSizes DEF IInv, TypeOK, CopyChunk, Chunk, Least

(* What the cipher makes of a chunk in the encrypted part. *)
LEMMA StreamedByte ==
  ASSUME IInv, pc = "copy", mv.left # 0, mv.ulen = 0,
         NEW i \in Nat, i < mv.left
  PROVE  Buffer(i) = Wanted(job, mv.fr + i)
<1> DEFINE p == mv.fr + i
           m == mv.fr - mv.eoff
           K == KeyAt(p - job.start)
<1>1. /\ job.enc /\ job.way = "swap" /\ mv.eoff = job.start /\ mv.eoff <= mv.fr
      /\ Aligned(mv.fr) /\ Aligned(mv.eoff) /\ mv.fr + mv.left <= End(job)
  BY StreamStart DEF Copying
<1>2. /\ mv.fr \in Nat /\ mv.left \in Nat /\ job.start \in Nat /\ End(job) \in Nat
      /\ job.cipher \in BOOLEAN
  BY JobTypes DEF IInv, TypeOK
<1>3. p >= job.start /\ p \in job.start .. End(job) - 1
  BY <1>1, <1>2
<1>4. m \in Nat /\ Aligned(m) /\ p - job.start = m + i
  BY <1>1, <1>2, AlignedDifference
<1>5. m \div AesBlock \in Nat /\ i \div AesBlock \in Nat
  BY <1>4, AlignedIs, WithinStream
<1>6. mv.ctr = CounterOf(m \div AesBlock)
  BY DEF IInv, CounterInv
<1>7. Advanced(mv.ctr, i \div AesBlock) = CounterOf((m \div AesBlock) + (i \div AesBlock))
  BY <1>5, <1>6, AdvancedCounts
<1>8. K = <<CounterOf((m \div AesBlock) + (i \div AesBlock)), i % AesBlock>>
  BY <1>4, WithinStream DEF KeyAt
<1>9. <<Advanced(mv.ctr, i \div AesBlock), i % AesBlock>> = K
  BY <1>7, <1>8
<1> HIDE DEF K
<1>10. Source(job, p) = [pos |-> p, ks |-> IF job.cipher THEN {K} ELSE {}]
  BY <1>3 DEF Source, Byte, K
<1>11. Buffer(i) = [pos |-> p, ks |-> Xor(IF job.cipher THEN {K} ELSE {}, {K})]
  <2>1. Buffer(i) = Ciphered(Source(job, p), mv.ctr, i)
    BY DEF Buffer
  <2>2. \A ks : Ciphered([pos |-> p, ks |-> ks], mv.ctr, i) = [pos |-> p, ks |-> Xor(ks, {K})]
    <3> DEFINE N == <<Advanced(mv.ctr, i \div AesBlock), i % AesBlock>>
    <3>1. N = K
      BY <1>9
    <3>2. \A ks : Ciphered([pos |-> p, ks |-> ks], mv.ctr, i)
                  = [[pos |-> p, ks |-> ks] EXCEPT !.ks = Xor(@, {N})]
      BY Zenon DEF Ciphered
    <3> HIDE DEF N
    <3>3. \A ks, x : [[pos |-> p, ks |-> ks] EXCEPT !.ks = x] = [pos |-> p, ks |-> x]
      OBVIOUS
    <3>4. QED
      BY <3>1, <3>2, <3>3, Zenon
  <2>3. QED
    BY <1>10, <2>1, <2>2, Zenon
<1>12. Xor(IF job.cipher THEN {K} ELSE {}, {K}) = IF job.cipher THEN {} ELSE {K}
  BY DEF Xor
<1>13. Wanted(job, p) = [pos |-> p, ks |-> IF job.cipher THEN {} ELSE {K}]
  <2> DEFINE j == [job EXCEPT !.cipher = ~@]
  <2>1. job \in Jobs
    BY DEF IInv, TypeOK
  <2>2. j.cipher = ~job.cipher /\ j.start = job.start /\ End(j) = End(job)
    BY <2>1 DEF Jobs, End
  <2>3. Wanted(job, p) = Source(j, p)
    BY <1>1, <1>3 DEF Wanted
  <2> HIDE DEF j
  <2>4. Source(j, p) = [pos |-> p, ks |-> IF j.cipher THEN {K} ELSE {}]
    BY <1>3, <2>2 DEF Source, Byte, K
  <2>5. QED
    BY <1>2, <2>2, <2>3, <2>4
<1>14. QED
  BY <1>11, <1>12, <1>13, Zenon

(* A chunk of what is not encrypted, or has to stay as it is, is copied.    *)
LEMMA CopiedByte ==
  ASSUME IInv, pc = "copy", mv.ulen # 0,
         NEW i \in Nat, i < mv.ulen, i < mv.left
  PROVE  Buffer(i) = Wanted(job, mv.fr + i)
<1>1. Buffer(i) = Source(job, mv.fr + i)
  BY DEF Buffer
<1>2. /\ mv.fr \in Nat /\ mv.eoff \in Nat /\ mv.eoff = EncStart(job, sec)
      /\ mv.ulen = IF mv.fr < mv.eoff THEN mv.eoff - mv.fr ELSE 0
  BY DEF IInv, TypeOK, CallInv, Copying
<1>3. mv.fr + i < mv.eoff
  BY <1>2
<1>4. ~(job.enc /\ job.way = "swap" /\ mv.fr + i >= job.start)
  <2>1. SUFFICES ASSUME job.enc, job.way = "swap", mv.fr + i >= job.start PROVE FALSE
    OBVIOUS
  <2>2. mv.eoff = job.start /\ job.start \in Nat
    BY <1>2, <2>1, JobTypes DEF EncStart, IInv, TypeOK
  <2>3. QED
    BY <1>2, <1>3, <2>1, <2>2
<1>5. QED
  BY <1>1, <1>4, Zenon DEF Wanted

LEMMA ChunkIsRight ==
  ASSUME IInv, CopyChunk, NEW p \in mv.fr .. mv.fr + Chunk - 1
  PROVE  Buffer(p - mv.fr) = Wanted(job, p)
<1>1. mv.fr \in Nat /\ mv.left \in Nat /\ mv.ulen \in Nat /\ pc = "copy" /\ mv.left # 0
  BY DEF IInv, TypeOK, CopyChunk
<1>2. p - mv.fr \in Nat /\ p - mv.fr < Chunk /\ mv.fr + (p - mv.fr) = p
  BY <1>1, ChunkSize
<1>3. CASE mv.ulen = 0
  BY <1>1, <1>2, <1>3, ChunkSize, StreamedByte
<1>4. CASE mv.ulen # 0
  BY <1>1, <1>2, <1>4, ChunkSize, CopiedByte
<1>5. QED
  BY <1>3, <1>4

LEMMA NothingRefused ==
  ASSUME IInv, CopyChunk
  PROVE  ~Refused
<1>1. mv.fr \in Nat /\ Aligned(mv.fr)
  BY DEF IInv, TypeOK, CallInv, Copying, CopyChunk
<1>2. QED
  BY <1>1, AlignedForFlash DEF Refused

(* Where the next chunk begins, if there is one. *)
LEMMA NextChunkAligned ==
  ASSUME IInv, CopyChunk, Chunk # mv.left
  PROVE  Aligned(mv.fr + Chunk)
<1>1. /\ mv.fr \in Nat /\ mv.left \in Nat /\ mv.eoff \in Nat /\ mv.ulen \in Nat
      /\ mv.eoff = EncStart(job, sec) /\ mv.fr + mv.left = CallEnd
      /\ mv.ulen = IF mv.fr < mv.eoff THEN mv.eoff - mv.fr ELSE 0
      /\ Aligned(mv.fr)
  BY DEF IInv, TypeOK, CallInv, Copying, CopyChunk
<1>2. Chunk \in Nat /\ Chunk < mv.left
  BY <1>1, ChunkSize
<1>3. CASE Chunk = MoveBlock
  BY <1>1, <1>2, <1>3, AlignedSum, AlignedSizes
<1>4. CASE Chunk # MoveBlock
  <2>1. Chunk = mv.ulen /\ mv.ulen # 0
    BY <1>4, ChunkSize
  <2>2. mv.fr + Chunk = mv.eoff /\ mv.eoff < CallEnd
    BY <1>1, <1>2, <2>1
  <2>3. /\ job.start \in Nat /\ End(job) \in Nat /\ job.way \in {"swap", "up", "ram"}
        /\ (sec + 1) * SectorSize \in Nat
    BY JobTypes, SectorTypes DEF IInv, TypeOK
  <2>4. job.way # "up"
    BY <1>1, <2>2, <2>3 DEF EncStart, CallEnd
  <2>5. CallEnd <= End(job)
    BY <2>3, <2>4 DEF CallEnd, Least
  <2>6. CallEnd \in Nat
    BY <2>3, <2>4 DEF CallEnd, Least
  <2>7. mv.eoff = job.start
    BY <1>1, <2>2, <2>3, <2>4, <2>5, <2>6 DEF EncStart
  <2>8. QED
    BY <2>2, <2>7 DEF IInv, JobInv
<1>5. QED
  BY <1>3, <1>4

LEMMA CopyChunkInv ==
  ASSUME IInv, CopyChunk
  PROVE  IInv'
<1> DEFINE n == Chunk
           ctr == IF mv.ulen = 0 THEN Advanced(mv.ctr, Blocks(n)) ELSE mv.ctr
           ulen == IF mv.ulen # 0 THEN mv.ulen - n ELSE mv.ulen
           m == (mv.fr - mv.eoff) \div AesBlock
<1>1. /\ mv \in [fr : Nat, eoff : Nat, left : Nat, ulen : Nat, ctr : Counters, at : Nat]
      /\ mv.left # 0 /\ pc = "copy" /\ Copying
  BY DEF IInv, TypeOK, CopyChunk, Copying
<1>2. /\ n \in Nat \ {0} /\ n <= mv.left
      /\ mv.ulen # 0 => n <= mv.ulen
      /\ n \in {mv.left, MoveBlock, mv.ulen}
      /\ mv.ulen = 0 => n # mv.ulen
  BY ChunkSize
<1>3. UNCHANGED <<job, pc, sec>>
  BY DEF CopyChunk
<1>4. mv' = [mv EXCEPT !.fr = @ + n, !.left = @ - n, !.ulen = ulen, !.ctr = ctr]
  BY DEF CopyChunk
<1>5. n # mv.left => Aligned(mv.fr + n)
  BY NextChunkAligned
<1>6. ASSUME mv.ulen = 0
      PROVE  m \in Nat /\ Blocks(n) \in Nat /\ ctr = CounterOf(m + Blocks(n))
  <2>1. mv.fr - mv.eoff \in Nat
    BY <1>1, <1>6, StreamStart
  <2>2. m \in Nat /\ Blocks(n) \in Nat
    BY <1>2, <2>1, DivMod, CounterSizes, BlocksType
  <2>3. mv.ctr = CounterOf(m)
    BY <1>1, <1>6 DEF IInv, CounterInv
  <2> HIDE DEF n, m
  <2>4. QED
    BY <1>6, <2>2, <2>3, AdvancedCounts
<1> HIDE DEF n
<1>7. ctr \in Counters
  BY <1>1, <1>6, CounterType
<1>8. ulen \in Nat /\ mv.fr + n \in Nat /\ mv.left - n \in Nat
  BY <1>1, <1>2
<1> HIDE DEF ctr, ulen
<1>9. /\ mv' \in [fr : Nat, eoff : Nat, left : Nat, ulen : Nat, ctr : Counters, at : Nat]
      /\ mv'.fr = mv.fr + n /\ mv'.left = mv.left - n /\ mv'.eoff = mv.eoff
      /\ mv'.ulen = ulen /\ mv'.ctr = ctr
  BY <1>1, <1>4, <1>7, <1>8
<1>10. /\ out' = [p \in DOMAIN out |->
                    IF p \in mv.fr .. mv.fr + n - 1 THEN Buffer(p - mv.fr) ELSE out[p]]
       /\ ~lost'
  BY NothingRefused DEF CopyChunk, IInv, OutInv, n
<1>11. TypeOK'
  <2>1. DOMAIN out' = DOMAIN out
    BY <1>10
  <2>2. lost' \in BOOLEAN
    <3>1. lost' = (lost \/ Refused)
      BY Zenon DEF CopyChunk
    <3>2. QED
      BY <3>1
  <2>3. TypeOK
    BY DEF IInv
  <2>4. QED
    BY <1>3, <1>9, <2>1, <2>2, <2>3, Zenon DEF TypeOK
<1>12. JobInv'
  BY <1>3 DEF IInv, JobInv
<1>13. CallInv'
  <2>1. /\ mv.eoff = EncStart(job, sec)
        /\ mv.fr >= CallStart /\ mv.fr + mv.left = CallEnd
        /\ mv.ulen = IF mv.fr < mv.eoff THEN mv.eoff - mv.fr ELSE 0
        /\ job.way = "ram" => sec = 0
        /\ job.way # "ram" => SectorLeft
    BY <1>1 DEF IInv, CallInv
  <2>2. CallStart \in Nat
    BY JobTypes, SectorTypes DEF IInv, TypeOK, CallStart
  <2>3. mv'.fr >= CallStart /\ mv'.fr + mv'.left = CallEnd
    BY <1>1, <1>2, <1>9, <2>1, <2>2
  <2>4. mv'.ulen = IF mv'.fr < mv'.eoff THEN mv'.eoff - mv'.fr ELSE 0
    BY <1>1, <1>2, <1>9, <2>1 DEF ulen
  <2>5. mv'.left = 0 \/ Aligned(mv'.fr)
    BY <1>1, <1>2, <1>5, <1>9
  <2>6. /\ CallStart' = CallStart /\ CallEnd' = CallEnd /\ EncStart(job, sec)' = EncStart(job, sec)
        /\ SectorLeft' = SectorLeft /\ Copying' = Copying /\ pc' # "count"
    BY <1>1, <1>3 DEF CallStart, CallEnd, EncStart, SectorLeft, Copying
  <2>7. QED
    BY <1>3, <1>9, <2>1, <2>3, <2>4, <2>5, <2>6 DEF CallInv
<1>14. CounterInv'
  <2>1. ASSUME mv'.left # 0
        PROVE  mv'.ctr = IF mv'.ulen = 0 THEN CounterOf((mv'.fr - mv'.eoff) \div AesBlock) ELSE Zero
    <3>1. n # mv.left
      BY <1>1, <1>2, <1>9, <2>1
    <3>2. CASE mv.ulen = 0
      <4>1. n = MoveBlock
        BY <1>2, <3>1, <3>2
      <4>2. Blocks(n) = n \div AesBlock /\ Aligned(n)
        BY <1>2, <4>1, BlocksOfAligned, AlignedSizes
      <4>3. mv.eoff <= mv.fr /\ Aligned(mv.fr) /\ Aligned(mv.eoff)
        BY <1>1, <3>2, StreamStart
      <4>4. mv.fr - mv.eoff \in Nat /\ Aligned(mv.fr - mv.eoff)
        BY <1>1, <4>3, AlignedDifference
      <4>5. ((mv.fr - mv.eoff) + n) \div AesBlock = m + Blocks(n)
        BY <1>2, <4>2, <4>4, AlignedSum
      <4>6. mv'.fr - mv'.eoff = (mv.fr - mv.eoff) + n
        BY <1>1, <1>2, <1>9
      <4>7. mv'.ulen = 0
        BY <1>9, <3>2 DEF ulen
      <4> HIDE DEF m
      <4>8. QED
        BY <1>6, <1>9, <3>2, <4>5, <4>6, <4>7
    <3>3. CASE mv.ulen # 0
      <4>1. mv'.ctr = Zero
        BY <1>1, <1>9, <3>3 DEF ctr, IInv, CounterInv
      <4>2. CASE mv'.ulen = 0
        <5>1. mv'.fr >= mv'.eoff
          BY <1>1, <1>9, <1>13, <4>2, <1>3 DEF CallInv, Copying
        <5>2. mv'.fr <= mv'.eoff
          BY <1>1, <1>2, <1>9, <3>3 DEF IInv, CallInv
        <5>3. mv'.fr - mv'.eoff = 0
          BY <1>9, <5>1, <5>2
        <5>4. AesBlock * 0 = 0
          BY CounterSizes
        <5>5. 0 \div AesBlock = 0
          BY <5>4, IsAligned
        <5>6. QED
          BY <4>1, <4>2, <5>3, <5>5, CounterZero
      <4>3. CASE mv'.ulen # 0
        BY <4>1, <4>3
      <4>4. QED
        BY <4>2, <4>3
    <3>4. QED
      BY <3>2, <3>3
  <2>2. pc' = "copy"
    BY <1>1, <1>3
  <2>3. QED
    BY <2>1, <2>2 DEF CounterInv
<1>15. OutInv'
  <2>1. ASSUME NEW p \in DOMAIN out, p \in mv.fr .. mv.fr + n - 1
        PROVE  out'[p] = Wanted(job, p)
    <3>1. Buffer(p - mv.fr) = Wanted(job, p)
      BY <2>1, ChunkIsRight DEF n
    <3>2. QED
      BY <1>10, <2>1, <3>1
  <2>2. ASSUME NEW p \in DOMAIN out, p \notin mv.fr .. mv.fr + n - 1
        PROVE  out'[p] = out[p]
    BY <1>10, <2>2
  <2>3. DOMAIN out' = DOMAIN out
    BY <1>10
  <2>4. NoWrongByte'
    BY <1>3, <2>1, <2>2, <2>3, Zenon DEF IInv, OutInv, NoWrongByte
  <2>5. Front' = mv.fr + n /\ Front = mv.fr
    BY <1>1, <1>3, <1>9 DEF Front, Copying
  <2>6. ASSUME NEW p \in (IF job.way = "ram" THEN job.start ELSE 0) .. End(job) - 1, p < Front'
        PROVE  out'[p] = Wanted(job, p)
    <3>1. p \in Nat /\ p < End(job) /\ p \in 0 .. End(job) - 1
      BY JobTypes DEF IInv, TypeOK
    <3>2. p \in DOMAIN out
      <4>1. End(job) \in Nat /\ DOMAIN out = 0 .. RoundUp(End(job), SectorSize) - 1
        BY JobTypes DEF IInv, TypeOK
      <4>2. QED
        BY <3>1, <4>1, EndRounded, Zenon
    <3>3. CASE p < mv.fr
      <4>1. p \notin mv.fr .. mv.fr + n - 1
        BY <1>1, <3>1, <3>3
      <4>2. QED
        BY <2>2, <2>5, <3>2, <3>3, <4>1 DEF IInv, OutInv
    <3>4. CASE ~(p < mv.fr)
      <4>1. p \in mv.fr .. mv.fr + n - 1
        BY <1>1, <1>2, <2>5, <2>6, <3>1, <3>4
      <4>2. QED
        BY <2>1, <3>2, <4>1
    <3>5. QED
      BY <3>3, <3>4
  <2>7. pc' # "done"
    BY <1>1, <1>3
  <2>8. QED
    BY <1>3, <1>10, <2>4, <2>6, <2>7 DEF OutInv
<1>16. QED
  BY <1>11, <1>12, <1>13, <1>14, <1>15 DEF IInv

LEMMA StutterInv ==
  ASSUME IInv, UNCHANGED vars
  PROVE  IInv'
<1>1. TypeOK' /\ JobInv' /\ CallInv' /\ CounterInv'
  BY DEF vars, IInv, TypeOK, JobInv, CallInv, CounterInv, Copying, CallStart, CallEnd, SectorLeft
<1>2. OutInv'
  BY DEF vars, IInv, OutInv, NoWrongByte, Front, Copying
<1>3. QED
  BY <1>1, <1>2 DEF IInv

(* For blocks, chunks, sectors and images of any size, the locals of        *)
(* zb_img_move say which byte of the image and which of the key stream      *)
(* comes next.                                                              *)
THEOREM StreamInvariant ==
  ASSUME StartsAligned
  PROVE  Spec => []IInv
<1>1. Init => IInv
  BY InitInv
<1>2. IInv /\ [Next]_vars => IInv'
  BY MoveSectorInv, MoveToRamInv, MoveDoneInv, SkipBlockInv, CountedInv, CopyChunkInv,
     ReturnInv, StutterInv DEF Next
<1>3. QED
  BY <1>1, <1>2, PTL DEF Spec

(* The locals of zb_img_move stay in range, and zb_img_cmd_proc never moves *)
(* a sector behind the last one of the image.                               *)
THEOREM StreamTypeCorrect ==
  ASSUME StartsAligned
  PROVE  Spec => []TypeOK
<1>1. IInv => TypeOK
  BY DEF IInv
<1>2. QED
  BY <1>1, StreamInvariant, PTL

(* No byte in the destination is wrong, at any time: every sector picks up  *)
(* the key stream of imgtool where the sector before has left it.           *)
THEOREM BytesAreRight ==
  ASSUME StartsAligned
  PROVE  Spec => []NoWrongByte
<1>1. IInv => NoWrongByte
  BY DEF IInv, OutInv
<1>2. QED
  BY <1>1, StreamInvariant, PTL

(* In the end every byte of the image has been moved, and flash has refused *)
(* none.                                                                    *)
THEOREM ImageIsMoved ==
  ASSUME StartsAligned
  PROVE  Spec => []NothingMissing
<1>1. ASSUME IInv PROVE NothingMissing
  <2>1. SUFFICES ASSUME pc = "done",
                        NEW p \in (IF job.way = "ram" THEN job.start ELSE 0) .. End(job) - 1
                 PROVE  ~lost /\ out[p] = Wanted(job, p)
    BY <1>1 DEF NothingMissing, IInv, OutInv
  <2>2. p \in Nat /\ p < End(job) /\ End(job) \in Nat
    BY <1>1, JobTypes DEF IInv, TypeOK
  <2>3. Front \in Nat
    BY <1>1, <2>1, <2>2, JobTypes, SectorTypes DEF IInv, TypeOK, Front, Copying
  <2>4. p < Front
    BY <1>1, <2>1, <2>2, <2>3 DEF IInv, OutInv
  <2>5. QED
    BY <1>1, <2>4 DEF IInv, OutInv
<1>2. QED
  BY <1>1, StreamInvariant, PTL

-----------------------------------------------------------------------------
(* How much is left to do *)

Sectors == RoundUp(End(job), SectorSize) \div SectorSize

(* More than one call takes: each step of it counts a block, or moves a     *)
(* byte at least.                                                           *)
CallSteps == End(job) + SectorSize + 3

StepsOfCall ==
  IF pc = "count" THEN mv.left + 2 + (IF mv.at < mv.fr THEN mv.fr - mv.at ELSE 0)
  ELSE mv.left + 1

StepsLeft ==
  IF pc = "done" THEN 0
  ELSE IF pc = "call" THEN (Sectors - sec) * CallSteps + 1
  ELSE (Sectors - (sec + 1)) * CallSteps + 1 + StepsOfCall

LEMMA CallIsBounded ==
  ASSUME IInv, Copying
  PROVE  /\ sec + 1 <= Sectors
         /\ StepsOfCall \in Nat \ {0} /\ StepsOfCall < CallSteps
<1>1. /\ mv.fr \in Nat /\ mv.left \in Nat /\ mv.at \in Nat
      /\ mv.fr + mv.left = CallEnd
      /\ pc \in {"count", "copy"}
  BY DEF IInv, TypeOK, CallInv, Copying
<1>2. /\ sec \in Nat /\ sec * SectorSize \in Nat /\ SectorSize \in Nat \ {0}
      /\ (sec + 1) * SectorSize = sec * SectorSize + SectorSize
      /\ End(job) \in Nat \ {0} /\ job.start \in Nat
      /\ job.way \in {"swap", "up", "ram"}
  BY SectorTypes, JobTypes, CounterSizes DEF IInv, TypeOK
<1>3. sec * SectorSize < End(job)
  <2>1. CASE job.way = "ram"
    BY <1>2, <2>1 DEF IInv, CallInv
  <2>2. CASE job.way # "ram"
    BY <2>2 DEF IInv, CallInv, SectorLeft
  <2>3. QED
    BY <2>1, <2>2
<1>4. CallEnd \in Nat /\ CallEnd <= End(job) + SectorSize
  BY <1>2, <1>3 DEF CallEnd, Least
<1>5. StepsOfCall \in Nat \ {0} /\ StepsOfCall <= mv.fr + mv.left + 2
  BY <1>1 DEF StepsOfCall
<1>6. StepsOfCall < CallSteps
  BY <1>1, <1>2, <1>4, <1>5 DEF CallSteps
<1>7. sec + 1 <= Sectors
  BY <1>2, <1>3, SectorCount DEF Sectors
<1>8. QED
  BY <1>5, <1>6, <1>7

LEMMA StepsLeftType ==
  ASSUME IInv
  PROVE  /\ StepsLeft \in Nat /\ Sectors \in Nat /\ sec \in Nat /\ sec <= Sectors
         /\ CallSteps \in Nat
         /\ pc # "done" => StepsLeft # 0
<1>1. Sectors \in Nat /\ End(job) \in Nat
  BY JobTypes, SectorCount DEF IInv, TypeOK, Sectors
<1>2. sec \in Nat /\ sec <= Sectors
  BY <1>1 DEF IInv, TypeOK, Sectors
<1>3. CallSteps \in Nat
  BY <1>1, CounterSizes DEF CallSteps
<1>4. (Sectors - sec) * CallSteps \in Nat
  BY <1>1, <1>2, <1>3
<1>5. CASE Copying
  <2>1. StepsOfCall \in Nat \ {0} /\ Sectors - (sec + 1) \in Nat
    BY <1>1, <1>2, <1>5, CallIsBounded
  <2>2. (Sectors - (sec + 1)) * CallSteps \in Nat
    BY <1>3, <2>1
  <2>3. StepsLeft = (Sectors - (sec + 1)) * CallSteps + 1 + StepsOfCall
    BY <1>5 DEF StepsLeft, Copying
  <2>4. QED
    BY <1>1, <1>2, <1>3, <2>1, <2>2, <2>3
<1>6. CASE ~Copying
  <2>1. pc \in {"call", "done"}
    BY <1>6 DEF IInv, TypeOK, Copying
  <2>2. QED
    BY <1>1, <1>2, <1>3, <1>4, <2>1 DEF StepsLeft
<1>7. QED
  BY <1>5, <1>6

LEMMA StepsLess ==
  ASSUME IInv, IInv', Next
  PROVE  StepsLeft' < StepsLeft
<1> DEFINE c == CallSteps
           d == Sectors - (sec + 1)
<1>1. job' = job /\ Sectors' = Sectors /\ CallSteps' = c
  BY DEF Next, MoveSector, MoveToRam, MoveDone, SkipBlock, Counted, CopyChunk, Return,
         Sectors, CallSteps
<1>2. /\ c \in Nat /\ Sectors \in Nat /\ sec \in Nat /\ StepsLeft \in Nat
      /\ pc # "done" => StepsLeft # 0
  BY StepsLeftType
<1>3. ASSUME Copying
      PROVE  /\ d \in Nat /\ d * c \in Nat /\ StepsLeft = d * c + 1 + StepsOfCall
             /\ StepsOfCall \in Nat \ {0}
  <2>1. d \in Nat /\ StepsOfCall \in Nat \ {0}
    BY <1>2, <1>3, CallIsBounded
  <2>2. d * c \in Nat
    BY <1>2, <2>1
  <2>3. QED
    BY <1>3, <2>1, <2>2 DEF StepsLeft, Copying
<1>4. ASSUME Copying', sec' = sec
      PROVE  /\ d \in Nat /\ d * c \in Nat /\ StepsLeft' = d * c + 1 + StepsOfCall'
             /\ StepsOfCall' \in Nat \ {0} /\ StepsOfCall' < c
  <2>1. d \in Nat /\ StepsOfCall' \in Nat \ {0} /\ StepsOfCall' < c
    <3>1. (sec + 1 <= Sectors /\ StepsOfCall \in Nat \ {0} /\ StepsOfCall < CallSteps)'
      BY <1>4, CallIsBounded, PTL
    <3>2. QED
      BY <1>1, <1>2, <1>4, <3>1
  <2>2. d * c \in Nat
    BY <1>2, <2>1
  <2>3. StepsLeft' = (Sectors' - (sec' + 1)) * CallSteps' + 1 + StepsOfCall'
    BY <1>4 DEF StepsLeft, Copying
  <2>4. QED
    BY <1>1, <1>4, <2>1, <2>2, <2>3
<1> HIDE DEF c
<1>5. CASE MoveSector \/ MoveToRam
  <2>1. pc = "call" /\ Copying' /\ sec' = sec
    BY <1>5 DEF MoveSector, MoveToRam, Copying
  <2>2. StepsLeft = (Sectors - sec) * c + 1
    BY <2>1 DEF StepsLeft, c
  <2>3. (Sectors - sec) * c = d * c + c
    BY <1>2, <1>4, <2>1
  <2>4. QED
    BY <1>2, <1>4, <2>1, <2>2, <2>3
<1>6. CASE MoveDone
  <2>1. StepsLeft' = 0 /\ pc # "done"
    BY <1>6 DEF MoveDone, StepsLeft
  <2>2. QED
    BY <1>2, <2>1
<1>7. ASSUME SkipBlock \/ Counted \/ CopyChunk
      PROVE  StepsOfCall' < StepsOfCall
  <2>1. mv \in [fr : Nat, eoff : Nat, left : Nat, ulen : Nat, ctr : Counters, at : Nat]
    BY DEF IInv, TypeOK
  <2>2. CASE SkipBlock
    <3>1. mv'.at = mv.at + AesBlock /\ mv'.fr = mv.fr /\ mv'.left = mv.left
      BY <2>1, <2>2 DEF SkipBlock
    <3>2. mv.at < mv.fr /\ AesBlock \in Nat \ {0} /\ mv.at \in Nat /\ mv.fr \in Nat
          /\ mv.left \in Nat /\ pc = "count" /\ pc' = "count"
      BY <2>1, <2>2, CounterSizes DEF SkipBlock, Counting
    <3>3. QED
      BY <3>1, <3>2 DEF StepsOfCall
  <2>3. CASE Counted
    BY <2>1, <2>3 DEF Counted, StepsOfCall
  <2>4. CASE CopyChunk
    <3>1. mv'.left = mv.left - Chunk
      BY <2>1, <2>4 DEF CopyChunk
    <3>2. Chunk \in Nat \ {0} /\ Chunk <= mv.left
      BY <2>4, ChunkSize
    <3>3. pc = "copy" /\ pc' = "copy"
      BY <2>4 DEF CopyChunk
    <3>4. QED
      BY <2>1, <3>1, <3>2, <3>3 DEF StepsOfCall
  <2>5. QED
    BY <1>7, <2>2, <2>3, <2>4
<1>8. CASE SkipBlock \/ Counted \/ CopyChunk
  <2>1. Copying /\ Copying' /\ sec' = sec
    BY <1>8 DEF SkipBlock, Counted, CopyChunk, Copying
  <2>2. QED
    BY <1>3, <1>4, <1>7, <1>8, <2>1
<1>9. CASE Return
  <2>1. Copying /\ sec' = sec + 1 /\ pc' = "call"
    BY <1>9 DEF Return, Copying
  <2>2. StepsLeft' = (Sectors' - sec') * CallSteps' + 1
    BY <2>1 DEF StepsLeft
  <2>3. StepsLeft' = d * c + 1
    BY <1>1, <2>1, <2>2
  <2>4. QED
    BY <1>3, <2>1, <2>3
<1>10. QED
  BY <1>5, <1>6, <1>8, <1>9 DEF Next

(* The loops over sectors, blocks and chunks cannot go on for ever: what is *)
(* left to do is a number, and each step makes it smaller.                  *)
THEOREM MoveIsBounded ==
  ASSUME StartsAligned
  PROVE  Spec => [](StepsLeft \in Nat) /\ [][StepsLeft' < StepsLeft]_vars
<1>1. IInv => StepsLeft \in Nat
  BY StepsLeftType
<1>2. IInv /\ IInv' /\ [Next]_vars => [StepsLeft' < StepsLeft]_vars
  BY StepsLess
<1>3. QED
  BY <1>1, <1>2, StreamInvariant, PTL DEF Spec
=============================================================================
