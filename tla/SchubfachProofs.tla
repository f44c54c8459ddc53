--------------------------- MODULE SchubfachProofs ---------------------------
(***************************************************************************)
(* What schubfach::dtoa computes is right for every width and every table  *)
(* that satisfies the named assumptions of module Schubfach.  First, the   *)
(* decimal handed to write() is read back as the argument, no shorter one  *)
(* is, and the comment at the last comparison ("Both ... are in the        *)
(* interval") is true.  Then Schubfach implements DtoaContract: the proof  *)
(* goes from the candidates of the code, which all have one exponent, to   *)
(* the contract, which speaks of decimals of every exponent, by way of     *)
(* what a best decimal is (Best), of the digits of the text, and of the    *)
(* steps.  At last, the text fits the caller's buffer, and no word         *)
(* overflows on the way.                                                   *)
(***************************************************************************)
EXTENDS Schubfach, BinaryFloatProofs, NaturalFacts, SequenceTheorems

(* An ordinary value has a positive significand.                           *)
LEMMA OrdinaryType ==
  ASSUME NEW v \in Ordinary
  PROVE  /\ v \in Double /\ IsOrdinary(v)
         /\ BinSig(v) \in Nat \ {0}
         /\ BinExp(v) \in Int
         /\ IsRegular(v) \in BOOLEAN
<1>1. v \in Double /\ IsOrdinary(v)
  BY FormatAssumption DEF Ordinary
<1>2. v.sig \in 0..implicit_bit - 1 /\ v.exp \in 0..exp_mask
  BY <1>1 DEF Double
<1>3. BinSig(v) \in Nat \ {0}
  BY <1>1, <1>2, FormatAssumption DEF BinSig, IsOrdinary, IsZero
<1>4. exp_offset \in Int
  BY FormatAssumption DEF exp_offset
<1>5. BinExp(v) \in Int
  BY <1>2, <1>4, FormatAssumption DEF BinExp
<1> QED BY <1>1, <1>3, <1>5 DEF IsRegular

(* The powers that the scaling of v uses are what ^ says.                  *)
LEMMA WidthTens == TensKnown(max_digits10)
<1> DEFINE f == floor_log10_pow2(word_bits)
<1>1. max_digits10 \in 1..f /\ word_bits \in 1..word_bits
  BY WidthAssumption
<1>2. f \in Nat
  BY <1>1, DigitsAssumption
<1>3. \A n \in 0..f : PowerAt(10, n)
  BY PowersAssumption
<1> HIDE DEF f
<1> QED BY <1>1, <1>2, <1>3 DEF TensKnown

LEMMA OrdinaryScalable ==
  ASSUME NEW v \in Ordinary, NEW k \in DecExps(v)
  PROVE  Scalable(v, k, max_digits10)
<1>1. k \in Int /\ BinSig(v) \in Nat \ {0} /\ BinExp(v) \in Int
  BY OrdinaryType, LogAssumption DEF DecExps
<1>2. \A j \in k - 1 .. k + max_digits10 : PowersNear(BinExp(v), j)
  BY PowersAssumption DEF PowersNear
<1> QED BY <1>1, <1>2, WidthTens DEF Scalable

(* The scaling factors at an exponent and at the next one.                 *)
LEMMA ScaleStep ==
  ASSUME NEW v \in Ordinary, NEW k \in DecExps(v), NEW j \in k - 1 .. k + max_digits10
  PROVE  LET q == BinExp(v)
         IN /\ Twos(q, j) \in Nat \ {0} /\ Tens(q, j) \in Nat \ {0}
            /\ Twos(q, j + 1) \in Nat \ {0} /\ Tens(q, j + 1) \in Nat \ {0}
            /\ Tens(q, j + 1) * Twos(q, j) = 10 * (Tens(q, j) * Twos(q, j + 1))
BY OrdinaryScalable, ScaleFactors

(* The scaling factors of an ordinary value.                               *)
LEMMA Factors ==
  ASSUME NEW v \in Ordinary
  PROVE  /\ Twos(BinExp(v), DecExpOf(v)) \in Nat \ {0}
         /\ Tens(BinExp(v), DecExpOf(v)) \in Nat \ {0}
         /\ DecExpOf(v) \in Int
<1>1. DecExpOf(v) \in Int /\ DecExpOf(v) \in DecExps(v)
  BY LogAssumption DEF DecExps
<1> DEFINE k == DecExpOf(v)
<1> HIDE DEF k
<1>2. k \in k - 1 .. k + max_digits10
  BY <1>1, WidthAssumption DEF k
<1> QED BY <1>1, <1>2, ScaleStep DEF k

(* Every estimate dtoa computes is the exact number rounded to odd.        *)
LEMMA EstimateExact ==
  ASSUME NEW v \in Ordinary, NEW n \in Quarters(v)
  PROVE  LET q == BinExp(v)
             k == DecExpOf(v)
         IN /\ n \in Nat
            /\ Estimate(n, q, k) \in Nat
            /\ RoundedToOdd(Estimate(n, q, k), n * Twos(q, k), Tens(q, k))
<1> DEFINE q == BinExp(v)
           k == DecExpOf(v)
           e == Estimate(n, q, k)
           N == Twos(q, k)
           T == Tens(q, k)
<1>1. n \in Nat
  BY OrdinaryType DEF Quarters, Lower, Upper
<1>2. N \in Nat /\ T \in Nat
  BY Factors
<1>3. e \in Nat /\ IsRoundToOdd(e, n, q, k)
  BY TableAssumption
<1> SUFFICES RoundedToOdd(e, n * N, T)
  BY <1>1, <1>3
<1> HIDE DEF q, k, e
<1>4. CASE e % 2 = 0
  <2>1. LeqProd(e, T, n, N) /\ LeqProd(n, N, e, T)
    BY <1>3, <1>4 DEF IsRoundToOdd
  <2> HIDE DEF N, T
  <2>2. e * T <= n * N /\ n * N <= e * T
    BY <2>1, <1>1, <1>2, <1>3, LeqProdExact
  <2>3. e * T \in Nat /\ n * N \in Nat
    BY <1>1, <1>2, <1>3
  <2>4. n * N = e * T
    BY <2>2, <2>3
  <2> QED BY <2>4, <1>4 DEF RoundedToOdd
<1>5. CASE e % 2 # 0
  <2>1. ~LeqProd(n, N, e - 1, T) /\ ~LeqProd(e + 1, T, n, N)
    BY <1>3, <1>5 DEF IsRoundToOdd
  <2> HIDE DEF N, T
  <2>2. e - 1 \in Nat /\ e + 1 \in Nat
    BY <1>3, <1>5
  <2>3. ~(n * N <= (e - 1) * T) /\ ~((e + 1) * T <= n * N)
    BY <2>1, <2>2, <1>1, <1>2, LeqProdExact
  <2>4. (e - 1) * T \in Nat /\ (e + 1) * T \in Nat /\ n * N \in Nat
    BY <2>2, <1>1, <1>2
  <2>5. (e - 1) * T < n * N /\ n * N < (e + 1) * T
    BY <2>3, <2>4
  <2> QED BY <2>5, <1>5 DEF RoundedToOdd
<1> QED BY <1>4, <1>5

(* The comparisons of the code, over the estimates, are the comparisons of *)
(* the exact numbers.                                                      *)
LEMMA EstimateCompares ==
  ASSUME NEW v \in Ordinary, NEW n \in Quarters(v), NEW d \in Nat
  PROVE  LET q == BinExp(v)
             k == DecExpOf(v)
             e == Estimate(n, q, k)
             N == Twos(q, k)
             T == Tens(q, k)
         IN /\ e <= 4 * d <=> n * N <= (4 * d) * T
            /\ e < 4 * d  <=> n * N < (4 * d) * T
            /\ 4 * d <= e <=> (4 * d) * T <= n * N
            /\ 4 * d < e  <=> (4 * d) * T < n * N
<1> DEFINE q == BinExp(v)
           k == DecExpOf(v)
           e == Estimate(n, q, k)
           N == Twos(q, k)
           T == Tens(q, k)
           x == n * N
           m == 4 * d
<1>1. n \in Nat /\ e \in Nat /\ RoundedToOdd(e, x, T)
  BY EstimateExact
<1>2. N \in Nat /\ T \in Nat \ {0}
  BY Factors
<1>3. x \in Nat
  BY <1>1, <1>2
<1>4. m \in Nat /\ m % 2 = 0
  OBVIOUS
<1> HIDE DEF e, N, T, x, m
<1>5. /\ e <= m <=> x <= m * T
      /\ e < m <=> x < m * T
      /\ m <= e <=> m * T <= x
      /\ m < e <=> m * T < x
  BY <1>1, <1>2, <1>3, <1>4, RoundToOddCompares
<1> QED BY <1>5 DEF e, N, T, x, m

-----------------------------------------------------------------------------
(* The interval the code works with lies within the rounding interval: the *)
(* code takes the smallest normal number, whose boundaries are regular,    *)
(* for irregular, which only makes the interval smaller.                   *)
CodeInterval(v, d) ==
  LET c == BinSig(v)
      q == BinExp(v)
      k == DecExpOf(v)
      N == Twos(q, k)
      T == Tens(q, k)
      x == Lower(c, IsRegular(v)) * N
      z == Upper(c) * N
      y == (4 * d) * T
  IN IF c % 2 = 0 THEN x <= y /\ y <= z
                  ELSE x < y /\ y < z

(* The comparisons at the exponents of v, in integers.                     *)
LEMMA DecimalCompares ==
  ASSUME NEW v \in Ordinary, NEW d \in Nat, NEW n \in Nat
  PROVE  LET q == BinExp(v)
             k == DecExpOf(v)
             N == Twos(q, k)
             T == Tens(q, k)
         IN /\ DecimalLeq(d, k, n, q) <=> (4 * d) * T <= n * N
            /\ DecimalGeq(d, k, n, q) <=> n * N <= (4 * d) * T
BY Factors, ComparesInIntegers

LEMMA CodeIntervalRoundTrips ==
  ASSUME NEW v \in Ordinary, NEW d \in Nat, CodeInterval(v, d)
  PROVE  RoundTrips(v, d, DecExpOf(v))
<1> DEFINE c == BinSig(v)
           q == BinExp(v)
           k == DecExpOf(v)
           N == Twos(q, k)
           T == Tens(q, k)
           l == LowerQuarters(v)
           u == UpperQuarters(v)
           a == Lower(c, IsRegular(v))
           m == 4 * d
<1>1. c \in Nat \ {0} /\ N \in Nat \ {0} /\ T \in Nat \ {0}
  BY OrdinaryType, Factors
<1>2. /\ l \in Nat /\ u \in Nat /\ a \in Nat /\ m \in Nat
      /\ l <= a /\ u = Upper(c)
  <2>1. HalfGapBelow(v) => ~IsRegular(v)
    BY OrdinaryType DEF HalfGapBelow, IsRegular, Double
  <2>2. IsRegular(v) \in BOOLEAN /\ HalfGapBelow(v) \in BOOLEAN
    BY OrdinaryType DEF HalfGapBelow
  <2>3. /\ l = (4 * c) - (IF HalfGapBelow(v) THEN 1 ELSE 2)
        /\ a = (4 * c) - (IF IsRegular(v) THEN 2 ELSE 1)
        /\ u = (4 * c) + 2
        /\ u = Upper(c)
    BY DEF LowerQuarters, UpperQuarters, Lower, Upper
  <2>4. m \in Nat
    OBVIOUS
  <2> HIDE DEF c, l, a, u, m
  <2> QED BY <1>1, <2>1, <2>2, <2>3, <2>4
<1>3. /\ DecimalLeq(d, k, u, q) <=> m * T <= u * N
      /\ DecimalGeq(d, k, l, q) <=> l * N <= m * T
      /\ DecimalLeq(d, k, l, q) <=> m * T <= l * N
      /\ DecimalGeq(d, k, u, q) <=> u * N <= m * T
  BY <1>2, DecimalCompares
<1>4. /\ l * N <= a * N
      /\ l * N \in Nat /\ a * N \in Nat /\ u * N \in Nat /\ m * T \in Nat
  <2> HIDE DEF m, T, u, l, N, a
  <2> QED BY <1>1, <1>2, MonotoneProduct
<1>5. IF c % 2 = 0 THEN a * N <= m * T /\ m * T <= u * N
                   ELSE a * N < m * T /\ m * T < u * N
  BY <1>2 DEF CodeInterval
<1>6. IF c % 2 = 0
        THEN DecimalGeq(d, k, l, q) /\ DecimalLeq(d, k, u, q)
        ELSE ~DecimalLeq(d, k, l, q) /\ ~DecimalGeq(d, k, u, q)
  <2> HIDE DEF c, m, T, u, l, N, a, q, k
  <2> QED BY <1>3, <1>4, <1>5
<1> QED BY <1>6 DEF RoundTrips

(* The two tests of the code for a candidate d.                            *)
UnderIn(v, d) ==
  Estimate(Lower(BinSig(v), IsRegular(v)), BinExp(v), DecExpOf(v))
    + (BinSig(v) % 2) <= 4 * d
OverIn(v, d) ==
  4 * d + (BinSig(v) % 2) <= Estimate(Upper(BinSig(v)), BinExp(v), DecExpOf(v))

LEMMA TestsExact ==
  ASSUME NEW v \in Ordinary, NEW d \in Nat
  PROVE  LET c == BinSig(v)
             N == Twos(BinExp(v), DecExpOf(v))
             T == Tens(BinExp(v), DecExpOf(v))
             x == Lower(c, IsRegular(v)) * N
             z == Upper(c) * N
             y == (4 * d) * T
         IN /\ UnderIn(v, d) <=> IF c % 2 = 0 THEN x <= y ELSE x < y
            /\ OverIn(v, d)  <=> IF c % 2 = 0 THEN y <= z ELSE y < z
<1> DEFINE c  == BinSig(v)
           N  == Twos(BinExp(v), DecExpOf(v))
           T  == Tens(BinExp(v), DecExpOf(v))
           x  == Lower(c, IsRegular(v)) * N
           z  == Upper(c) * N
           y  == (4 * d) * T
           el == Estimate(Lower(c, IsRegular(v)), BinExp(v), DecExpOf(v))
           eu == Estimate(Upper(c), BinExp(v), DecExpOf(v))
<1>1. Lower(c, IsRegular(v)) \in Quarters(v) /\ Upper(c) \in Quarters(v)
  BY DEF Quarters
<1>2. /\ el <= 4 * d <=> x <= y
      /\ el < 4 * d <=> x < y
      /\ 4 * d <= eu <=> y <= z
      /\ 4 * d < eu <=> y < z
  BY <1>1, EstimateCompares
<1>3. el \in Nat /\ eu \in Nat
  BY <1>1, EstimateExact
<1>4. c % 2 \in {0, 1}
  BY OrdinaryType
<1>5. /\ UnderIn(v, d) <=> el + (c % 2) <= 4 * d
      /\ OverIn(v, d) <=> 4 * d + (c % 2) <= eu
  BY DEF UnderIn, OverIn
<1> HIDE DEF c, N, T, x, y, z, el, eu
<1>6. /\ UnderIn(v, d) <=> IF c % 2 = 0 THEN x <= y ELSE x < y
      /\ OverIn(v, d)  <=> IF c % 2 = 0 THEN y <= z ELSE y < z
  BY <1>2, <1>3, <1>4, <1>5
<1> QED BY <1>6 DEF c, N, T, x, y, z

(* The scaled value lies between the candidates under and under + 1.       *)
LEMMA ValueBetween ==
  ASSUME NEW v \in Ordinary
  PROVE  LET c == BinSig(v)
             N == Twos(BinExp(v), DecExpOf(v))
             T == Tens(BinExp(v), DecExpOf(v))
             s == Estimate(4 * c, BinExp(v), DecExpOf(v))
             d == s \div 4
         IN /\ s \in Nat
            /\ d \in Nat
            /\ (4 * d) * T <= (4 * c) * N
            /\ (4 * c) * N < (4 * (d + 1)) * T
<1> DEFINE c == BinSig(v)
           N == Twos(BinExp(v), DecExpOf(v))
           T == Tens(BinExp(v), DecExpOf(v))
           s == Estimate(4 * c, BinExp(v), DecExpOf(v))
           d == s \div 4
<1>1. 4 * c \in Quarters(v)
  BY DEF Quarters
<1>2. s \in Nat
  BY <1>1, EstimateExact
<1> HIDE DEF s
<1>3. d \in Nat /\ 4 * d <= s /\ s < 4 * (d + 1)
  BY <1>2
<1> HIDE DEF d
<1>4. d + 1 \in Nat
  BY <1>3
<1>5. /\ 4 * d <= s <=> (4 * d) * T <= (4 * c) * N
      /\ s < 4 * (d + 1) <=> (4 * c) * N < (4 * (d + 1)) * T
  BY <1>1, <1>3, <1>4, EstimateCompares DEF s
<1> QED BY <1>2, <1>3, <1>5 DEF d, s

(* The boundaries lie on both sides of the value.                          *)
LEMMA BoundariesAround ==
  ASSUME NEW v \in Ordinary
  PROVE  LET c == BinSig(v)
             N == Twos(BinExp(v), DecExpOf(v))
             x == Lower(c, IsRegular(v)) * N
             z == Upper(c) * N
             y == (4 * c) * N
         IN /\ x \in Nat /\ y \in Nat /\ z \in Nat
            /\ x < y /\ y < z
            /\ z = y + 2 * N
            /\ x = y - (IF IsRegular(v) THEN 2 * N ELSE N)
<1> DEFINE c == BinSig(v)
           N == Twos(BinExp(v), DecExpOf(v))
           y == (4 * c) * N
<1>1. c \in Nat \ {0} /\ N \in Nat \ {0} /\ IsRegular(v) \in BOOLEAN
  BY OrdinaryType, Factors
<1>2. Lower(c, IsRegular(v)) = (4 * c) - (IF IsRegular(v) THEN 2 ELSE 1)
  BY DEF Lower
<1>3. Upper(c) = (4 * c) + 2
  BY DEF Upper
<1> HIDE DEF c, N
<1>4. y \in Nat /\ ((4 * c) + 2) * N = y + 2 * N
  BY <1>1
<1>5. ((4 * c) - 2) * N = y - 2 * N /\ ((4 * c) - 1) * N = y - N
  BY <1>1
<1>6. ((4 * c) - 2) * N \in Nat /\ ((4 * c) - 1) * N \in Nat
  <2>1. (4 * c) - 2 \in Nat /\ (4 * c) - 1 \in Nat
    BY <1>1
  <2> QED BY <2>1, <1>1
<1> HIDE DEF y
<1> QED BY <1>1, <1>2, <1>3, <1>4, <1>5, <1>6 DEF c, N, y

(* A candidate at or below the value is in the interval if it passes the   *)
(* test against the lower boundary; one at or above it, the other test.    *)
LEMMA TestsSuffice ==
  ASSUME NEW v \in Ordinary, NEW d \in Nat
  PROVE  LET N == Twos(BinExp(v), DecExpOf(v))
             T == Tens(BinExp(v), DecExpOf(v))
             y == (4 * BinSig(v)) * N
         IN /\ (4 * d) * T <= y /\ UnderIn(v, d) => CodeInterval(v, d)
            /\ y <= (4 * d) * T /\ OverIn(v, d) => CodeInterval(v, d)
<1> DEFINE c == BinSig(v)
           N == Twos(BinExp(v), DecExpOf(v))
           T == Tens(BinExp(v), DecExpOf(v))
           x == Lower(c, IsRegular(v)) * N
           z == Upper(c) * N
           y == (4 * c) * N
           w == (4 * d) * T
<1>1. /\ UnderIn(v, d) <=> IF c % 2 = 0 THEN x <= w ELSE x < w
      /\ OverIn(v, d) <=> IF c % 2 = 0 THEN w <= z ELSE w < z
  BY TestsExact
<1>2. x \in Nat /\ y \in Nat /\ z \in Nat /\ x < y /\ y < z
  BY BoundariesAround
<1>3. w \in Nat
  BY Factors
<1>4. CodeInterval(v, d) <=> IF c % 2 = 0 THEN x <= w /\ w <= z
                                          ELSE x < w /\ w < z
  BY DEF CodeInterval
<1> HIDE DEF c, N, T, x, y, z, w
<1>5. /\ w <= y /\ UnderIn(v, d) => CodeInterval(v, d)
      /\ y <= w /\ OverIn(v, d) => CodeInterval(v, d)
  BY <1>1, <1>2, <1>3, <1>4
<1> QED BY <1>5 DEF c, N, T, y, w

(* One of the two candidates next to the value is always in the interval:  *)
(* with both outside, the interval would be shorter than 10^k, or exactly  *)
(* as long with a quarter as its end.                                      *)
LEMMA OneIsInside ==
  ASSUME NEW v \in Ordinary
  PROVE  LET d == Estimate(4 * BinSig(v), BinExp(v), DecExpOf(v)) \div 4
         IN UnderIn(v, d) \/ OverIn(v, d + 1)
<1> DEFINE c == BinSig(v)
           N == Twos(BinExp(v), DecExpOf(v))
           T == Tens(BinExp(v), DecExpOf(v))
           d == Estimate(4 * c, BinExp(v), DecExpOf(v)) \div 4
           l == Lower(c, IsRegular(v))
           x == l * N
           z == Upper(c) * N
           y == (4 * c) * N
<1> SUFFICES ASSUME ~UnderIn(v, d), ~OverIn(v, d + 1)
             PROVE  FALSE
  OBVIOUS
<1>1. c \in Nat \ {0} /\ N \in Nat \ {0} /\ T \in Nat \ {0} /\ d \in Nat
  BY OrdinaryType, Factors, ValueBetween
<1>2. (4 * d) * T <= x
  <2>1. UnderIn(v, d) <=> IF c % 2 = 0 THEN x <= (4 * d) * T ELSE x < (4 * d) * T
    BY <1>1, TestsExact
  <2>2. x \in Nat /\ (4 * d) * T \in Nat
    BY <1>1, BoundariesAround
  <2> HIDE DEF c, N, T, d, x
  <2> QED BY <2>1, <2>2
<1>3. z <= (4 * (d + 1)) * T
  <2>1. d + 1 \in Nat
    BY <1>1
  <2>2. OverIn(v, d + 1) <=>
          IF c % 2 = 0 THEN (4 * (d + 1)) * T <= z ELSE (4 * (d + 1)) * T < z
    BY <2>1, TestsExact
  <2>3. z \in Nat
    BY BoundariesAround
  <2> HIDE DEF c, N, T, d, z
  <2>4. (4 * (d + 1)) * T \in Nat
    BY <2>1, <1>1
  <2> QED BY <2>2, <2>3, <2>4
<1>4. (4 * (d + 1)) * T = (4 * d) * T + 4 * T
  <2> HIDE DEF c, N, T, d
  <2> QED BY <1>1
<1>5. z = y + 2 * N /\ x = y - (IF IsRegular(v) THEN 2 * N ELSE N)
      /\ y \in Nat /\ x \in Nat /\ z \in Nat
  BY BoundariesAround
<1>6. CASE IsRegular(v)
  <2>1. N >= T
    BY <1>6, LogAssumption
  <2>2. x = (4 * d) * T /\ N = T
    <3> HIDE DEF c, N, T, d, x, y, z
    <3>1. (4 * d) * T \in Nat
      BY <1>1
    <3> QED BY <1>1, <1>2, <1>3, <1>4, <1>5, <1>6, <2>1, <3>1
  <2>3. l = 4 * c - 2
    BY <1>6 DEF Lower
  <2> HIDE DEF c, N, T, d, l
  <2>4. (4 * c - 2) * N = (4 * d) * N
    BY <2>2, <2>3
  <2>5. 4 * c - 2 = 4 * d
    <3>1. 4 * c - 2 \in Int /\ 4 * d \in Int
      BY <1>1
    <3>2. /\ 4 * c - 2 < 4 * d => (4 * c - 2) * N < (4 * d) * N
          /\ 4 * d < 4 * c - 2 => (4 * d) * N < (4 * c - 2) * N
      BY <3>1, <1>1, MonotoneProduct
    <3>3. (4 * d) * N \in Int
      BY <1>1
    <3> QED BY <2>4, <3>1, <3>2, <3>3
  <2> QED BY <1>1, <2>5
<1>7. CASE ~IsRegular(v)
  <2>1. 3 * N > 4 * T
    BY <1>7, LogAssumption
  <2> HIDE DEF c, N, T, d, x, y, z
  <2>2. (4 * d) * T \in Nat
    BY <1>1
  <2> QED BY <1>1, <1>2, <1>3, <1>4, <1>5, <1>7, <2>1, <2>2
<1> QED BY <1>6, <1>7

-----------------------------------------------------------------------------
(* The locals hold what was computed from the argument.                    *)
Decoded ==
  /\ value \in Ordinary
  /\ bin_sig = BinSig(value)
  /\ bin_exp = BinExp(value)
  /\ regular = IsRegular(value)

EstimatesSet ==
  /\ dec_exp = DecExpOf(value)
  /\ scaled_sig = Estimate(4 * BinSig(value), BinExp(value), DecExpOf(value))
  /\ lower = Estimate(Lower(BinSig(value), IsRegular(value)),
                      BinExp(value), DecExpOf(value))
  /\ upper = Estimate(Upper(BinSig(value)), BinExp(value), DecExpOf(value))

NoneShorter ==
  ~(dec_sig_under >= 10 /\ OnlyOne(dec_sig_under2, dec_sig_over2))

IInv ==
  /\ TypeOK
  /\ pc # "idle" => value \in Arguments
  /\ pc \in {"unpacked", "shorter", "longer", "write"} => Decoded
  /\ pc \in {"shorter", "longer"} => EstimatesSet
  /\ pc = "longer" => NoneShorter
  /\ ReadsBack

(* What the tests and candidates of a state are, in terms of the argument. *)
LEMMA StateTests ==
  ASSUME Decoded, EstimatesSet
  PROVE  /\ \A d : under_in(d) <=> UnderIn(value, d)
         /\ \A d : over_in(d) <=> OverIn(value, d)
         /\ dec_sig_under =
              Estimate(4 * BinSig(value), BinExp(value), DecExpOf(value)) \div 4
         /\ dec_sig_under \in Nat
         /\ dec_exp = DecExpOf(value)
         /\ LET N == Twos(BinExp(value), DecExpOf(value))
                T == Tens(BinExp(value), DecExpOf(value))
                y == (4 * BinSig(value)) * N
            IN /\ T \in Nat \ {0}
               /\ y \in Nat
               /\ (4 * dec_sig_under) * T <= y
               /\ y < (4 * (dec_sig_under + 1)) * T
<1>1. value \in Ordinary
  BY DEF Decoded
<1>2. dec_sig_under =
        Estimate(4 * BinSig(value), BinExp(value), DecExpOf(value)) \div 4
  BY DEF EstimatesSet, dec_sig_under
<1>3. \A d : under_in(d) <=> UnderIn(value, d)
  BY DEF Decoded, EstimatesSet, under_in, bin_sig_lsb, UnderIn
<1>4. \A d : over_in(d) <=> OverIn(value, d)
  BY DEF Decoded, EstimatesSet, over_in, bin_sig_lsb, OverIn
<1>5. dec_exp = DecExpOf(value)
  BY DEF EstimatesSet
<1>6. (4 * BinSig(value)) * Twos(BinExp(value), DecExpOf(value)) \in Nat
  BY <1>1, BoundariesAround
<1>7. Tens(BinExp(value), DecExpOf(value)) \in Nat \ {0}
  BY <1>1, Factors
<1> QED BY <1>1, <1>2, <1>3, <1>4, <1>5, <1>6, <1>7, ValueBetween

(* A candidate at or below the value that passes the lower test, or at or  *)
(* above it that passes the upper test, is read back as the value.         *)
LEMMA CandidateReadsBack ==
  ASSUME Decoded, EstimatesSet, NEW d \in Nat,
         \/ d <= dec_sig_under /\ under_in(d)
         \/ d > dec_sig_under /\ over_in(d)
  PROVE  RoundTrips(value, d, dec_exp)
<1> DEFINE N == Twos(BinExp(value), DecExpOf(value))
           T == Tens(BinExp(value), DecExpOf(value))
           y == (4 * BinSig(value)) * N
           u == dec_sig_under
<1>1. /\ u \in Nat /\ T \in Nat \ {0} /\ y \in Nat
      /\ (4 * u) * T <= y
      /\ y < (4 * (u + 1)) * T
      /\ dec_exp = DecExpOf(value)
      /\ under_in(d) <=> UnderIn(value, d)
      /\ over_in(d) <=> OverIn(value, d)
  BY StateTests
<1>2. value \in Ordinary
  BY DEF Decoded
<1>3. d <= u => (4 * d) * T <= y
  <2> SUFFICES ASSUME d <= u PROVE (4 * d) * T <= y
    OBVIOUS
  <2>1. 4 * d <= 4 * u /\ 4 * d \in Int /\ 4 * u \in Int
    BY <1>1
  <2> HIDE DEF T, y, u
  <2>2. (4 * d) * T <= (4 * u) * T
    BY <1>1, <2>1, MonotoneProduct
  <2>3. (4 * d) * T \in Nat /\ (4 * u) * T \in Nat
    BY <1>1
  <2> QED BY <1>1, <2>2, <2>3
<1>4. d > u => y <= (4 * d) * T
  <2> SUFFICES ASSUME d > u PROVE y <= (4 * d) * T
    OBVIOUS
  <2>1. /\ 4 * (u + 1) <= 4 * d
        /\ 4 * d \in Int /\ 4 * (u + 1) \in Int
    BY <1>1
  <2> HIDE DEF T, y, u
  <2>2. (4 * (u + 1)) * T <= (4 * d) * T
    BY <1>1, <2>1, MonotoneProduct
  <2>3. (4 * d) * T \in Nat /\ (4 * (u + 1)) * T \in Nat
    BY <1>1
  <2> QED BY <1>1, <2>2, <2>3
<1>5. CodeInterval(value, d)
  BY <1>1, <1>2, <1>3, <1>4, TestsSuffice
<1> QED BY <1>1, <1>2, <1>5, CodeIntervalRoundTrips

(* BothInside, from the tests being exact.                                 *)
LEMMA EqualTestsBothInside ==
  ASSUME Decoded, EstimatesSet, ~OnlyOne(dec_sig_under, dec_sig_over)
  PROVE  under_in(dec_sig_under) /\ over_in(dec_sig_over)
<1>1. value \in Ordinary
  BY DEF Decoded
<1>2. UnderIn(value, dec_sig_under) \/ OverIn(value, dec_sig_under + 1)
  BY <1>1, StateTests, OneIsInside
<1>3. under_in(dec_sig_under) \/ over_in(dec_sig_over)
  BY <1>2, StateTests DEF dec_sig_over
<1>4. /\ under_in(dec_sig_under) \in BOOLEAN
      /\ over_in(dec_sig_over) \in BOOLEAN
  BY DEF under_in, over_in
<1> QED BY <1>3, <1>4 DEF OnlyOne

(* The factors of a small integer.                                         *)
LEMMA SmallIntegerFactors ==
  ASSUME NEW v \in Ordinary, BinExp(v) \in -num_sig_bits .. -1
  PROVE  /\ 0 \in DecExps(v)
         /\ Twos(BinExp(v), 0) = 1
         /\ Tens(BinExp(v), 0) = 2^(-BinExp(v))
         /\ 2^(-BinExp(v)) \in Nat \ {0}
<1> DEFINE q == BinExp(v)
           p == 2^(-q)
<1>1. q \in Int /\ q < 0
  BY OrdinaryType, FormatAssumption
<1>2. 0 \in DecExps(v)
  BY DEF DecExps
<1>3. /\ Positive(-0) = 0 /\ Positive(0) = 0
      /\ Positive(q - 0) = 0 /\ Positive(0 - q) = -q
  <2>1. Positive(-0) = 0
    BY DEF Positive
  <2>2. Positive(0) = 0
    BY DEF Positive
  <2> HIDE DEF q
  <2>3. q - 0 = q /\ ~(q > 0) /\ 0 - q = -q /\ -q > 0
    BY <1>1
  <2>4. Positive(q - 0) = 0 /\ Positive(0 - q) = -q
    BY <2>3 DEF Positive
  <2> QED BY <2>1, <2>2, <2>4
<1>4. p \in Nat \ {0}
  <2>1. 0 \in 0 - 1 .. 0 + max_digits10
    BY WidthAssumption
  <2>2. PowerAt(2, Positive(0 - q))
    BY <1>2, <2>1, PowersAssumption DEF PowersNear
  <2> QED BY <1>3, <2>2 DEF PowerAt
<1>5. 5^0 = 1 /\ 2^0 = 1
  OBVIOUS
<1>6. Twos(q, 0) = 5^0 * 2^0
  BY <1>3 DEF Twos
<1>7. Tens(q, 0) = 5^0 * p
  BY <1>3 DEF Tens
<1> HIDE DEF p
<1>8. 1 * p = p /\ 1 * 1 = 1
  BY <1>4
<1> QED BY <1>2, <1>4, <1>5, <1>6, <1>7, <1>8 DEF p

(* A significand too small to be written by its first path: an integer     *)
(* is written as itself.                                                   *)
LEMMA SmallIntegerReadsBack ==
  ASSUME NEW v \in Ordinary,
         BinExp(v) \in -num_sig_bits .. -1,
         BinSig(v) % 2^(-BinExp(v)) = 0
  PROVE  /\ BinSig(v) \div 2^(-BinExp(v)) \in Nat
         /\ RoundTrips(v, BinSig(v) \div 2^(-BinExp(v)), 0)
<1> DEFINE c == BinSig(v)
           q == BinExp(v)
           p == 2^(-q)
           f == c \div p
           l == LowerQuarters(v)
           u == UpperQuarters(v)
<1>1. c \in Nat \ {0} /\ q \in Int /\ q < 0 /\ num_sig_bits \in Nat
  BY OrdinaryType, FormatAssumption
<1>2. p \in Nat \ {0}
  BY SmallIntegerFactors
<1>3. Twos(q, 0) = 1 /\ Tens(q, 0) = p
  BY SmallIntegerFactors
<1>4. f \in Nat /\ f * p = c
  <2> HIDE DEF c, p
  <2> QED BY <1>1, <1>2 DEF c, p
<1>5. /\ l \in Nat /\ u \in Nat /\ l < 4 * c /\ 4 * c < u
  <2>1. HalfGapBelow(v) \in BOOLEAN
    BY DEF HalfGapBelow
  <2>2. l = (4 * c) - (IF HalfGapBelow(v) THEN 1 ELSE 2) /\ u = (4 * c) + 2
    BY DEF LowerQuarters, UpperQuarters
  <2> HIDE DEF l, u, c
  <2> QED BY <1>1, <2>1, <2>2
<1>6. (4 * f) * p = 4 * c
  <2> HIDE DEF f, p, c
  <2> QED BY <1>1, <1>2, <1>4
<1>7. /\ DecimalLeq(f, 0, u, q) /\ DecimalGeq(f, 0, l, q)
      /\ ~DecimalLeq(f, 0, l, q) /\ ~DecimalGeq(f, 0, u, q)
  <2> SUFFICES /\ LeqProd(4 * f, p, u, 1) /\ LeqProd(l, 1, 4 * f, p)
               /\ ~LeqProd(4 * f, p, l, 1) /\ ~LeqProd(u, 1, 4 * f, p)
    BY <1>3 DEF DecimalLeq, DecimalGeq
  <2> HIDE DEF f, p, l, u, c
  <2>1. 4 * f \in Nat /\ l * 1 = l /\ u * 1 = u
    BY <1>4, <1>5
  <2>2. /\ LeqProd(4 * f, p, u, 1) <=> (4 * f) * p <= u * 1
        /\ LeqProd(l, 1, 4 * f, p) <=> l * 1 <= (4 * f) * p
        /\ LeqProd(4 * f, p, l, 1) <=> (4 * f) * p <= l * 1
        /\ LeqProd(u, 1, 4 * f, p) <=> u * 1 <= (4 * f) * p
    BY <1>2, <1>5, <2>1, LeqProdExact
  <2> QED BY <1>1, <1>5, <1>6, <2>1, <2>2
<1> QED BY <1>4, <1>7 DEF RoundTrips

-----------------------------------------------------------------------------
LEMMA InitIInv == Init => IInv
BY DEF Init, IInv, TypeOK, ReadsBack

LEMMA NextIInv == IInv /\ [Next]_vars => IInv'
<1> SUFFICES ASSUME IInv, [Next]_vars PROVE IInv'
  OBVIOUS
<1> USE DEF binary, scaled, decimal, output
<1>1. CASE Call
  BY <1>1, FormatAssumption DEF Call, IInv, TypeOK, ReadsBack
<1>2. CASE Special
  BY <1>2 DEF Special, IInv, TypeOK, ReadsBack
<1>3. CASE Unpack
  <2>1. value \in Ordinary
    BY <1>3 DEF Unpack, IInv, Ordinary
  <2>2. /\ bin_sig' = BinSig(value) /\ bin_exp' = BinExp(value)
        /\ regular' = IsRegular(value)
        /\ value' = value /\ pc' = "unpacked" /\ pc = "unpack"
    BY <1>3 DEF Unpack, BinSig, BinExp
  <2>3. bin_sig' \in Nat /\ bin_exp' \in Int /\ regular' \in BOOLEAN
    BY <2>1, <2>2, OrdinaryType
  <2>4. TypeOK'
    BY <1>3, <2>3 DEF Unpack, IInv, TypeOK
  <2>5. Decoded'
    BY <2>1, <2>2 DEF Decoded
  <2> QED BY <2>1, <2>2, <2>4, <2>5 DEF IInv, ReadsBack, Ordinary
<1>4. CASE SmallInteger
  <2>1. Decoded
    BY <1>4 DEF SmallInteger, IInv
  <2>2. value \in Ordinary
    BY <2>1 DEF Decoded
  <2>3. /\ BinExp(value) \in -num_sig_bits .. -1
        /\ BinSig(value) % 2^(-BinExp(value)) = 0
    <3>1. BinExp(value) \in Int /\ num_sig_bits \in Nat
      BY <2>2, OrdinaryType, FormatAssumption
    <3> QED BY <1>4, <2>1, <3>1 DEF SmallInteger, IsSmallInteger, Decoded
  <2>4. /\ dec_sig' = BinSig(value) \div 2^(-BinExp(value))
        /\ dec_exp' = 0
        /\ value' = value /\ pc' = "write"
    BY <1>4, <2>1 DEF SmallInteger, Decoded
  <2>5. dec_sig' \in Nat /\ RoundTrips(value', dec_sig', dec_exp')
    BY <2>2, <2>3, <2>4, SmallIntegerReadsBack
  <2>6. TypeOK'
    BY <1>4, <2>4, <2>5 DEF SmallInteger, IInv, TypeOK
  <2>7. Decoded'
    BY <1>4, <2>1 DEF SmallInteger, Decoded
  <2> QED BY <1>4, <2>5, <2>6, <2>7 DEF SmallInteger, IInv, ReadsBack
<1>5. CASE Scale
  <2>1. Decoded
    BY <1>5 DEF Scale, IInv
  <2>2. value \in Ordinary
    BY <2>1 DEF Decoded
  <2>3. Decoded'
    BY <1>5, <2>1 DEF Scale, Decoded
  <2>4. EstimatesSet'
    BY <1>5, <2>1 DEF Scale, Decoded, EstimatesSet, DecExpOf
  <2>5. lower' \in Nat /\ scaled_sig' \in Nat /\ upper' \in Nat /\ dec_exp' \in Int
    <3>1. value' = value
      BY <1>5 DEF Scale
    <3>2. /\ Lower(BinSig(value), IsRegular(value)) \in Quarters(value)
          /\ 4 * BinSig(value) \in Quarters(value)
          /\ Upper(BinSig(value)) \in Quarters(value)
      BY DEF Quarters
    <3> QED BY <2>2, <2>4, <3>1, <3>2, EstimateExact, Factors DEF EstimatesSet
  <2>6. TypeOK'
    BY <1>5, <2>5 DEF Scale, IInv, TypeOK
  <2> QED BY <1>5, <2>3, <2>4, <2>6 DEF Scale, IInv, ReadsBack
<1>6. CASE Shorter
  <2>1. Decoded /\ EstimatesSet
    BY <1>6 DEF Shorter, IInv
  <2>2. Decoded'
    BY <1>6, <2>1 DEF Shorter, Decoded
  <2>3. dec_sig_under \in Nat
    BY <2>1, StateTests
  <2>4. /\ dec_sig_under2 \in Nat /\ dec_sig_over2 \in Nat
        /\ dec_sig_under2 <= dec_sig_under
        /\ dec_sig_over2 > dec_sig_under
    <3> HIDE DEF dec_sig_under
    <3> QED BY <2>3 DEF dec_sig_under2, dec_sig_over2
  <2>5. RoundTrips(value, dec_sig', dec_exp) /\ dec_sig' \in Nat
    <3>1. CASE under_in(dec_sig_under2)
      <4>1. dec_sig' = dec_sig_under2
        BY <1>6, <3>1 DEF Shorter, TheOne
      <4> QED BY <2>1, <2>4, <3>1, <4>1, CandidateReadsBack
    <3>2. CASE ~under_in(dec_sig_under2)
      <4>1. dec_sig' = dec_sig_over2 /\ over_in(dec_sig_over2)
        <5>1. under_in(dec_sig_under2) # over_in(dec_sig_over2)
          BY <1>6 DEF Shorter, OnlyOne
        <5>2. over_in(dec_sig_over2) \in BOOLEAN
          BY DEF over_in
        <5>3. under_in(dec_sig_under2) \in BOOLEAN
          BY DEF under_in
        <5>4. over_in(dec_sig_over2)
          BY <3>2, <5>1, <5>2, <5>3
        <5>5. dec_sig' = dec_sig_over2
          BY <1>6, <3>2 DEF Shorter, TheOne
        <5> QED BY <5>4, <5>5
      <4> QED BY <2>1, <2>4, <4>1, CandidateReadsBack
    <3> QED BY <3>1, <3>2
  <2>6. TypeOK'
    BY <1>6, <2>5 DEF Shorter, IInv, TypeOK
  <2>7. ReadsBack'
    BY <1>6, <2>5 DEF Shorter, ReadsBack
  <2> QED BY <1>6, <2>2, <2>6, <2>7 DEF Shorter, IInv
<1>7. CASE NotShorter
  <2>1. Decoded' /\ EstimatesSet'
    BY <1>7 DEF NotShorter, IInv, Decoded, EstimatesSet
  <2>2. NoneShorter /\ UNCHANGED scaled
    BY <1>7 DEF NotShorter, NoneShorter
  <2>3. NoneShorter'
    BY <1>7, <2>2 DEF NotShorter, NoneShorter, OnlyOne, under_in, over_in,
         bin_sig_lsb, dec_sig_under2, dec_sig_over2, dec_sig_under
  <2> QED BY <1>7, <2>1, <2>3 DEF NotShorter, IInv, TypeOK, ReadsBack
<1>8. CASE Longer
  <2>1. Decoded /\ EstimatesSet
    BY <1>8 DEF Longer, IInv
  <2>2. Decoded'
    BY <1>8, <2>1 DEF Longer, Decoded
  <2>3. /\ dec_sig_under \in Nat /\ dec_sig_over \in Nat
        /\ dec_sig_under <= dec_sig_under
        /\ dec_sig_over > dec_sig_under
    <3>1. dec_sig_under \in Nat
      BY <2>1, StateTests
    <3> HIDE DEF dec_sig_under
    <3> QED BY <3>1 DEF dec_sig_over
  <2>4. RoundTrips(value, dec_sig', dec_exp) /\ dec_sig' \in Nat
    <3>1. CASE under_in(dec_sig_under)
      <4>1. dec_sig' = dec_sig_under
        BY <1>8, <3>1 DEF Longer, TheOne
      <4> QED BY <2>1, <2>3, <3>1, <4>1, CandidateReadsBack
    <3>2. CASE ~under_in(dec_sig_under)
      <4>1. dec_sig' = dec_sig_over /\ over_in(dec_sig_over)
        <5>1. under_in(dec_sig_under) # over_in(dec_sig_over)
          BY <1>8 DEF Longer, OnlyOne
        <5>2. over_in(dec_sig_over) \in BOOLEAN
          BY DEF over_in
        <5>3. under_in(dec_sig_under) \in BOOLEAN
          BY DEF under_in
        <5>4. over_in(dec_sig_over)
          BY <3>2, <5>1, <5>2, <5>3
        <5>5. dec_sig' = dec_sig_over
          BY <1>8, <3>2 DEF Longer, TheOne
        <5> QED BY <5>4, <5>5
      <4> QED BY <2>1, <2>3, <4>1, CandidateReadsBack
    <3> QED BY <3>1, <3>2
  <2>5. TypeOK'
    BY <1>8, <2>4 DEF Longer, IInv, TypeOK
  <2>6. ReadsBack'
    BY <1>8, <2>4 DEF Longer, ReadsBack
  <2> QED BY <1>8, <2>2, <2>5, <2>6 DEF Longer, IInv
<1>9. CASE Closest
  <2>1. Decoded /\ EstimatesSet
    BY <1>9 DEF Closest, IInv
  <2>2. Decoded'
    BY <1>9, <2>1 DEF Closest, Decoded
  <2>3. /\ dec_sig_under \in Nat /\ dec_sig_over \in Nat
        /\ dec_sig_under <= dec_sig_under
        /\ dec_sig_over > dec_sig_under
    <3>1. dec_sig_under \in Nat
      BY <2>1, StateTests
    <3> HIDE DEF dec_sig_under
    <3> QED BY <3>1 DEF dec_sig_over
  <2>4. under_in(dec_sig_under) /\ over_in(dec_sig_over)
    BY <1>9, <2>1, EqualTestsBothInside DEF Closest
  <2>5. /\ RoundTrips(value, dec_sig_under, dec_exp)
        /\ RoundTrips(value, dec_sig_over, dec_exp)
    BY <2>1, <2>3, <2>4, CandidateReadsBack
  <2>6. dec_sig' \in {dec_sig_under, dec_sig_over}
    BY <1>9 DEF Closest
  <2>7. TypeOK'
    BY <1>9, <2>3, <2>6 DEF Closest, IInv, TypeOK
  <2>8. ReadsBack'
    BY <1>9, <2>5, <2>6 DEF Closest, ReadsBack
  <2> QED BY <1>9, <2>2, <2>7, <2>8 DEF Closest, IInv
<1>10. CASE Write
  <2>1. TypeOK'
    BY <1>10 DEF Write, IInv, TypeOK
  <2> QED BY <1>10, <2>1 DEF Write, IInv, ReadsBack
<1>11. CASE Return
  BY <1>11 DEF Return, IInv, TypeOK, ReadsBack
<1>12. CASE UNCHANGED vars
  <2>1. NoneShorter => NoneShorter'
    BY <1>12 DEF vars, NoneShorter, OnlyOne, under_in, over_in,
         bin_sig_lsb, dec_sig_under2, dec_sig_over2, dec_sig_under
  <2> QED BY <1>12, <2>1 DEF vars, IInv, TypeOK, ReadsBack, Decoded,
               EstimatesSet, Ordinary
<1> QED BY <1>1, <1>2, <1>3, <1>4, <1>5, <1>6, <1>7, <1>8, <1>9, <1>10,
           <1>11, <1>12 DEF Next

(* The inductive invariant holds in every reachable state.                 *)
THEOREM InductiveInvariant == Spec => []IInv
BY InitIInv, NextIInv, PTL DEF Spec

(* The type invariant.                                                     *)
THEOREM TypeCorrect == Spec => []TypeOK
BY InductiveInvariant, PTL DEF IInv

(* For every format and every table with enough bits, the decimal handed   *)
(* to write() is read back as the argument (README.md:18-21).              *)
THEOREM AlwaysReadsBack == Spec => []ReadsBack
BY InductiveInvariant, PTL DEF IInv

(* The comment before the last comparison of dtoa is true: there are two   *)
(* candidates to choose from, never none.                                  *)
THEOREM AlwaysBothInside == Spec => []BothInside
<1>1. IInv => BothInside
  BY EqualTestsBothInside DEF IInv, BothInside
<1> QED BY <1>1, InductiveInvariant, PTL

-----------------------------------------------------------------------------
(* But for the smallest normal number, the interval of the code is the     *)
(* rounding interval.                                                      *)
LEMMA RoundTripsCodeInterval ==
  ASSUME NEW v \in Ordinary, ~TakenForIrregular(v), NEW d \in Nat,
         RoundTrips(v, d, DecExpOf(v))
  PROVE  CodeInterval(v, d)
<1> DEFINE c == BinSig(v)
           q == BinExp(v)
           k == DecExpOf(v)
           N == Twos(q, k)
           T == Tens(q, k)
           l == LowerQuarters(v)
           u == UpperQuarters(v)
           x == l * N
           y == (4 * d) * T
           z == u * N
<1>1. HalfGapBelow(v) <=> ~IsRegular(v)
  <2>1. v.exp \in Nat /\ v.sig \in Nat
    BY OrdinaryType, FormatAssumption DEF Double
  <2> QED BY <2>1 DEF HalfGapBelow, IsRegular, TakenForIrregular
<1>2. l = Lower(c, IsRegular(v)) /\ u = Upper(c)
  BY <1>1 DEF LowerQuarters, UpperQuarters, Lower, Upper
<1>3. l \in Quarters(v) /\ u \in Quarters(v)
  BY <1>2 DEF Quarters
<1>4. l \in Nat /\ u \in Nat
  BY <1>3, EstimateExact
<1>5. x \in Nat /\ y \in Nat /\ z \in Nat
  BY <1>4, Factors
<1>6. /\ DecimalLeq(d, k, u, q) <=> y <= z
      /\ DecimalGeq(d, k, u, q) <=> z <= y
      /\ DecimalLeq(d, k, l, q) <=> y <= x
      /\ DecimalGeq(d, k, l, q) <=> x <= y
  BY <1>4, DecimalCompares
<1>7. IF c % 2 = 0
        THEN DecimalGeq(d, k, l, q) /\ DecimalLeq(d, k, u, q)
        ELSE ~DecimalLeq(d, k, l, q) /\ ~DecimalGeq(d, k, u, q)
  BY DEF RoundTrips
<1>8. IF c % 2 = 0 THEN x <= y /\ y <= z ELSE x < y /\ y < z
  <2> HIDE DEF c, q, k, l, u, x, y, z
  <2> QED BY <1>5, <1>6, <1>7
<1>9. CodeInterval(v, d) <=>
        IF c % 2 = 0 THEN x <= y /\ y <= z ELSE x < y /\ y < z
  BY <1>2 DEF CodeInterval
<1> QED BY <1>8, <1>9

(* A decimal in the interval passes both tests, and so does every decimal  *)
(* between it and the value.                                               *)
LEMMA IntervalPassesTests ==
  ASSUME NEW v \in Ordinary, NEW d \in Nat, NEW e \in Nat, CodeInterval(v, d)
  PROVE  /\ d <= e => UnderIn(v, e)
         /\ e <= d => OverIn(v, e)
<1> DEFINE c == BinSig(v)
           N == Twos(BinExp(v), DecExpOf(v))
           T == Tens(BinExp(v), DecExpOf(v))
           x == Lower(c, IsRegular(v)) * N
           z == Upper(c) * N
           y == (4 * d) * T
           w == (4 * e) * T
<1>1. x \in Nat /\ z \in Nat /\ T \in Nat \ {0} /\ y \in Nat /\ w \in Nat
  BY BoundariesAround, Factors
<1>2. /\ UnderIn(v, e) <=> IF c % 2 = 0 THEN x <= w ELSE x < w
      /\ OverIn(v, e) <=> IF c % 2 = 0 THEN w <= z ELSE w < z
  BY TestsExact
<1>3. IF c % 2 = 0 THEN x <= y /\ y <= z ELSE x < y /\ y < z
  BY DEF CodeInterval
<1>4. (d <= e => y <= w) /\ (e <= d => w <= y)
  <2>1. 4 * d \in Int /\ 4 * e \in Int
    OBVIOUS
  <2>2. (d <= e => 4 * d <= 4 * e) /\ (e <= d => 4 * e <= 4 * d)
    OBVIOUS
  <2> HIDE DEF T
  <2> QED BY <1>1, <2>1, <2>2, MonotoneProduct
<1> HIDE DEF c, N, T, x, y, z, w
<1> QED BY <1>1, <1>2, <1>3, <1>4

(* The interval is shorter than 10^(k + 1): two multiples of ten are not   *)
(* both inside.                                                            *)
LEMMA NotTwoTens ==
  ASSUME NEW v \in Ordinary, NEW d \in Nat
  PROVE  ~(UnderIn(v, d) /\ OverIn(v, d + 10))
<1> DEFINE c == BinSig(v)
           N == Twos(BinExp(v), DecExpOf(v))
           T == Tens(BinExp(v), DecExpOf(v))
           x == Lower(c, IsRegular(v)) * N
           z == Upper(c) * N
           y == (4 * c) * N
           w == (4 * d) * T
           t == (4 * (d + 10)) * T
<1> SUFFICES ASSUME UnderIn(v, d), OverIn(v, d + 10) PROVE FALSE
  OBVIOUS
<1>1. d + 10 \in Nat
  OBVIOUS
<1>2. N \in Nat \ {0} /\ T \in Nat \ {0}
  BY Factors
<1>3. /\ UnderIn(v, d) <=> IF c % 2 = 0 THEN x <= w ELSE x < w
      /\ OverIn(v, d + 10) <=> IF c % 2 = 0 THEN t <= z ELSE t < z
  BY <1>1, TestsExact
<1>4. /\ x \in Nat /\ y \in Nat /\ z \in Nat
      /\ z = y + 2 * N /\ x = y - (IF IsRegular(v) THEN 2 * N ELSE N)
  BY BoundariesAround
<1>5. w \in Nat /\ t \in Nat /\ t = w + 40 * T
  <2> HIDE DEF T
  <2> QED BY <1>2
<1>6. IF IsRegular(v) THEN N < 10 * T ELSE 3 * N < 40 * T
  BY LogAssumption
<1>7. x <= w /\ t <= z
  <2> HIDE DEF c, N, T, x, y, z, w, t
  <2> QED BY <1>3, <1>4, <1>5
<1> HIDE DEF c, N, T, x, y, z, w, t
<1> QED BY <1>2, <1>4, <1>5, <1>6, <1>7

(* d * 10^j is in the rounding interval of v, in integers, at any exponent *)
(* whose factors are positive.                                             *)
LEMMA RoundTripsExact ==
  ASSUME NEW v \in Ordinary, NEW d \in Nat, NEW j,
         Twos(BinExp(v), j) \in Nat \ {0}, Tens(BinExp(v), j) \in Nat \ {0}
  PROVE  LET c == BinSig(v)
             N == Twos(BinExp(v), j)
             T == Tens(BinExp(v), j)
             l == LowerQuarters(v)
             u == 4 * c + 2
         IN /\ l \in Nat \ {0} /\ 4 * c - 2 <= l /\ l < 4 * c /\ u \in Nat
            /\ RoundTrips(v, d, j) <=>
                 IF c % 2 = 0 THEN l * N <= (4 * d) * T /\ (4 * d) * T <= u * N
                              ELSE l * N < (4 * d) * T /\ (4 * d) * T < u * N
BY OrdinaryType, RoundTripsInIntegers

(* At the exponent of v the interval reaches at most two quarters of the   *)
(* binary unit to either side.                                             *)
LEMMA InsideIsNear ==
  ASSUME NEW v \in Ordinary, NEW d \in Nat, RoundTrips(v, d, DecExpOf(v))
  PROVE  LET N == Twos(BinExp(v), DecExpOf(v))
             T == Tens(BinExp(v), DecExpOf(v))
             y == (4 * BinSig(v)) * N
         IN /\ y - 2 * N <= (4 * d) * T
            /\ (4 * d) * T <= y + 2 * N
            /\ d # 0
<1> DEFINE c == BinSig(v)
           k == DecExpOf(v)
           N == Twos(BinExp(v), k)
           T == Tens(BinExp(v), k)
           l == LowerQuarters(v)
           w == (4 * d) * T
           x == l * N
           y == (4 * c) * N
           z == (4 * c + 2) * N
<1>1. N \in Nat \ {0} /\ T \in Nat \ {0} /\ c \in Nat \ {0}
  BY Factors, OrdinaryType
<1>2. /\ l \in Nat \ {0} /\ 4 * c - 2 <= l
      /\ RoundTrips(v, d, k) <=>
           IF c % 2 = 0 THEN x <= w /\ w <= z ELSE x < w /\ w < z
  BY <1>1, RoundTripsExact
<1>3. x \in Nat \ {0} /\ w \in Nat /\ y \in Nat /\ z = y + 2 * N
  <2> HIDE DEF c, N, T, l
  <2> QED BY <1>1, <1>2
<1>4. y - 2 * N <= x
  <2> HIDE DEF c, N, T, l
  <2>1. 4 * c - 2 \in Int
    BY <1>1
  <2>2. (4 * c - 2) * N <= x
    BY <1>1, <1>2, <2>1, MonotoneProduct
  <2>3. (4 * c - 2) * N = y - 2 * N
    BY <1>1
  <2> QED BY <2>2, <2>3
<1>5. x <= w /\ w <= z
  <2> HIDE DEF c, N, T, l, x, w, y, z
  <2> QED BY <1>2, <1>3
<1>6. d # 0
  <2> SUFFICES ASSUME d = 0 PROVE FALSE
    OBVIOUS
  <2>1. w = 0
    <3> HIDE DEF T
    <3> QED BY <1>1
  <2> HIDE DEF x, w
  <2> QED BY <1>3, <1>5, <2>1
<1> HIDE DEF c, k, N, T, l, w, x, y, z
<1>7. y - 2 * N <= w /\ w <= y + 2 * N
  BY <1>1, <1>3, <1>4, <1>5
<1> QED BY <1>6, <1>7 DEF c, k, N, T, w, y

(* Whatever is read back as v from above passes the test of the code       *)
(* against the upper boundary, and so does everything below it.            *)
LEMMA UpperTestPassed ==
  ASSUME NEW v \in Ordinary, NEW d \in Nat, NEW e \in Nat,
         RoundTrips(v, d, DecExpOf(v)), e <= d
  PROVE  OverIn(v, e)
<1> DEFINE c == BinSig(v)
           k == DecExpOf(v)
           N == Twos(BinExp(v), k)
           T == Tens(BinExp(v), k)
           l == LowerQuarters(v)
           x == l * N
           w == (4 * d) * T
           y == (4 * e) * T
           z == (4 * c + 2) * N
<1>1. N \in Nat \ {0} /\ T \in Nat \ {0} /\ c \in Nat
  BY Factors, OrdinaryType
<1>2. RoundTrips(v, d, k) <=>
        IF c % 2 = 0 THEN x <= w /\ w <= z ELSE x < w /\ w < z
  BY <1>1, RoundTripsExact
<1>3. OverIn(v, e) <=> IF c % 2 = 0 THEN y <= z ELSE y < z
  BY TestsExact DEF Upper
<1>4. y <= w
  <2>1. 4 * e <= 4 * d /\ 4 * e \in Int /\ 4 * d \in Int
    OBVIOUS
  <2> HIDE DEF T
  <2> QED BY <1>1, <2>1, MonotoneProduct
<1>5. w \in Nat /\ y \in Nat /\ z \in Nat
  <2> HIDE DEF c, N, T
  <2> QED BY <1>1
<1> HIDE DEF c, N, T, l, x, w, y, z
<1> QED BY <1>2, <1>3, <1>4, <1>5 DEF k

(* From below, a candidate of the code between it and v passes the test    *)
(* against the lower boundary, even against the one the code gets wrong.   *)
LEMMA LowerTestPassed ==
  ASSUME NEW v \in Ordinary, NEW d \in Nat, NEW e \in Nat,
         RoundTrips(v, d, DecExpOf(v)), d <= e,
         LET u == Estimate(4 * BinSig(v), BinExp(v), DecExpOf(v)) \div 4
         IN e \in {u, 10 * (u \div 10)}
  PROVE  UnderIn(v, e)
<1>1. CASE ~TakenForIrregular(v)
  BY <1>1, RoundTripsCodeInterval, IntervalPassesTests
<1>2. CASE TakenForIrregular(v)
  <2> DEFINE c == BinSig(v)
             k == DecExpOf(v)
             N == Twos(BinExp(v), k)
             T == Tens(BinExp(v), k)
             u == Estimate(4 * c, BinExp(v), k) \div 4
             l == LowerQuarters(v)
             x == l * N
             w == (4 * d) * T
             t == (4 * e) * T
             y == (4 * c) * N
             z == (4 * c + 2) * N
  <2>1. N \in Nat \ {0} /\ T \in Nat \ {0} /\ c \in Nat
    BY Factors, OrdinaryType
  <2>2. /\ RoundTrips(v, d, k) <=>
             IF c % 2 = 0 THEN x <= w /\ w <= z ELSE x < w /\ w < z
        /\ RoundTrips(v, e, k) <=>
             IF c % 2 = 0 THEN x <= t /\ t <= z ELSE x < t /\ t < z
        /\ l \in Nat
    BY <2>1, RoundTripsExact
  <2>3. u \in Nat /\ (4 * u) * T <= y
    BY ValueBetween
  <2>4. w <= t /\ t <= (4 * u) * T
    <3>1. /\ 4 * d <= 4 * e /\ 4 * d \in Int /\ 4 * e \in Int
          /\ 4 * e <= 4 * u /\ 4 * u \in Int
      <4> HIDE DEF u
      <4> QED BY <2>3 DEF u
    <3> HIDE DEF T, u
    <3> QED BY <2>1, <3>1, MonotoneProduct
  <2>5. /\ x \in Nat /\ w \in Nat /\ t \in Nat /\ y \in Nat /\ (4 * u) * T \in Nat
        /\ z = y + 2 * N
    <3> HIDE DEF c, N, T, l, u
    <3> QED BY <2>1, <2>2, <2>3
  <2>6. RoundTrips(v, e, k)
    <3>1. RoundTrips(v, d, k)
      OBVIOUS
    <3> HIDE DEF c, k, N, T, l, u, x, w, t, y, z
    <3> QED BY <3>1, <2>1, <2>2, <2>3, <2>4, <2>5
  <2>7. e \in {u, 10 * (u \div 10)}
    OBVIOUS
  <2>8. Estimate(Lower(c, IsRegular(v)), BinExp(v), k) + (c % 2) <= 4 * e
    BY <1>2, <2>6, <2>7, CandidatesAssumption
  <2> QED BY <2>8 DEF UnderIn
<1> QED BY <1>1, <1>2

(* The only multiples of ten that may be read back are the two the code    *)
(* looks at.                                                               *)
LEMMA MultipleOfTen ==
  ASSUME NEW v \in Ordinary, NEW m \in Nat, RoundTrips(v, 10 * m, DecExpOf(v))
  PROVE  LET u == Estimate(4 * BinSig(v), BinExp(v), DecExpOf(v)) \div 4
         IN 10 * m \in {10 * (u \div 10), 10 * (u \div 10) + 10}
<1> DEFINE N == Twos(BinExp(v), DecExpOf(v))
           T == Tens(BinExp(v), DecExpOf(v))
           y == (4 * BinSig(v)) * N
           u == Estimate(4 * BinSig(v), BinExp(v), DecExpOf(v)) \div 4
           s == 10 * (u \div 10)
           d == 10 * m
<1>1. d \in Nat /\ m \in Nat
  OBVIOUS
<1>2. y - 2 * N <= (4 * d) * T /\ (4 * d) * T <= y + 2 * N
  BY <1>1, InsideIsNear
<1>3. u \in Nat /\ (4 * u) * T <= y /\ y < (4 * (u + 1)) * T /\ y \in Nat
  BY ValueBetween, BoundariesAround
<1>4. N \in Nat \ {0} /\ T \in Nat \ {0} /\ 3 * N < 40 * T
  BY Factors, LogAssumption
<1> HIDE DEF N, T, y, u
<1>5. ~(d <= s - 10)
  <2> SUFFICES ASSUME d <= s - 10 PROVE FALSE
    OBVIOUS
  <2>1. 4 * d + 40 <= 4 * u /\ 4 * d + 40 \in Int /\ 4 * u \in Int
    BY <1>3
  <2>2. (4 * d + 40) * T <= (4 * u) * T
    BY <1>4, <2>1, MonotoneProduct
  <2> HIDE DEF d
  <2>3. (4 * d + 40) * T = (4 * d) * T + 40 * T /\ (4 * d) * T \in Nat
    BY <1>1, <1>4
  <2>4. (4 * u) * T \in Nat
    BY <1>3, <1>4
  <2> QED BY <1>2, <1>3, <1>4, <2>2, <2>3, <2>4
<1>6. ~(d >= s + 20)
  <2> SUFFICES ASSUME d >= s + 20 PROVE FALSE
    OBVIOUS
  <2>1. 4 * (u + 1) + 40 <= 4 * d /\ 4 * (u + 1) + 40 \in Int /\ 4 * d \in Int
    BY <1>3
  <2>2. (4 * (u + 1) + 40) * T <= (4 * d) * T
    BY <1>4, <2>1, MonotoneProduct
  <2> HIDE DEF d
  <2>3. (4 * (u + 1) + 40) * T = (4 * (u + 1)) * T + 40 * T
        /\ (4 * (u + 1)) * T \in Nat
    BY <1>3, <1>4
  <2>4. (4 * d) * T \in Nat
    BY <1>1, <1>4
  <2> QED BY <1>2, <1>3, <1>4, <2>2, <2>3, <2>4
<1>7. d \in {s, s + 10}
  BY <1>3, <1>5, <1>6
<1> QED BY <1>7 DEF u
(* NothingShorter in the states of the invariant.                          *)
LEMMA ShorterGivenUp ==
  ASSUME Decoded, EstimatesSet,
         ~OnlyOne(dec_sig_under2, dec_sig_over2), NEW m \in Nat
  PROVE  ~RoundTrips(value, 10 * m, dec_exp)
<1> SUFFICES ASSUME RoundTrips(value, 10 * m, dec_exp) PROVE FALSE
  OBVIOUS
<1> DEFINE u == Estimate(4 * BinSig(value), BinExp(value), DecExpOf(value)) \div 4
<1>1. value \in Ordinary /\ dec_exp = DecExpOf(value) /\ dec_sig_under \in Nat
      /\ dec_sig_under = u
  BY StateTests DEF Decoded
<1>2. 10 * m \in {10 * (u \div 10), 10 * (u \div 10) + 10}
  BY <1>1, MultipleOfTen
<1>3. /\ dec_sig_under2 = 10 * (u \div 10) /\ dec_sig_under2 \in Nat
      /\ dec_sig_over2 = dec_sig_under2 + 10 /\ dec_sig_over2 \in Nat
  <2> HIDE DEF u, dec_sig_under
  <2> QED BY <1>1 DEF dec_sig_under2, dec_sig_over2
<1>4. UnderIn(value, dec_sig_under2) \/ OverIn(value, dec_sig_over2)
  <2>1. CASE 10 * m = dec_sig_under2
    <3>1. dec_sig_under2 \in {u, 10 * (u \div 10)} /\ dec_sig_under2 <= dec_sig_under2
      BY <1>3
    <3> HIDE DEF u, dec_sig_under2
    <3> QED BY <1>1, <1>3, <2>1, <3>1, LowerTestPassed DEF u
  <2>2. CASE 10 * m = dec_sig_over2
    <3>1. dec_sig_over2 <= dec_sig_over2
      BY <1>3
    <3> HIDE DEF dec_sig_over2
    <3> QED BY <1>1, <1>3, <2>2, <3>1, UpperTestPassed
  <2> QED BY <1>2, <1>3, <2>1, <2>2
<1>5. under_in(dec_sig_under2) /\ over_in(dec_sig_over2)
  <2>1. under_in(dec_sig_under2) \/ over_in(dec_sig_over2)
    BY <1>4, StateTests
  <2>2. /\ under_in(dec_sig_under2) \in BOOLEAN
        /\ over_in(dec_sig_over2) \in BOOLEAN
    BY DEF under_in, over_in
  <2> QED BY <2>1, <2>2 DEF OnlyOne
<1>6. UnderIn(value, dec_sig_under2) /\ OverIn(value, dec_sig_under2 + 10)
  BY <1>3, <1>5, StateTests
<1> QED BY <1>1, <1>3, <1>6, NotTwoTens

(* No decimal with fewer digits identifies the argument when dtoa writes   *)
(* all its digits.                                                         *)
THEOREM AlwaysNothingShorter == Spec => []NothingShorter
<1>1. IInv => NothingShorter
  <2> SUFFICES ASSUME IInv, pc = "longer", dec_sig_under >= 10,
                      NEW m \in 0..dec_sig_over2
               PROVE  ~RoundTrips(value, 10 * m, dec_exp)
    BY DEF NothingShorter
  <2>1. Decoded /\ EstimatesSet /\ ~OnlyOne(dec_sig_under2, dec_sig_over2)
    BY DEF IInv, NoneShorter
  <2>2. m \in Nat
    OBVIOUS
  <2> QED BY <2>1, <2>2, ShorterGivenUp
<1> QED BY <1>1, InductiveInvariant, PTL

-----------------------------------------------------------------------------
(* The distance tests in integers, at the exponent of v.                   *)
LEMMA CloserExact ==
  ASSUME NEW v \in Ordinary, NEW d \in Nat, NEW e \in Nat
  PROVE  LET N == Twos(BinExp(v), DecExpOf(v))
             T == Tens(BinExp(v), DecExpOf(v))
         IN Closer(v, d, e, DecExpOf(v)) <=>
              \/ e > d /\ (4 * (d + e)) * T < (8 * BinSig(v)) * N
              \/ e < d /\ (8 * BinSig(v)) * N < (4 * (d + e)) * T
BY OrdinaryType, Factors, CloserInIntegers

(* What the sign of cmp says about the value.                              *)
LEMMA CmpExact ==
  ASSUME NEW v \in Ordinary
  PROVE  LET N == Twos(BinExp(v), DecExpOf(v))
             T == Tens(BinExp(v), DecExpOf(v))
             s == Estimate(4 * BinSig(v), BinExp(v), DecExpOf(v))
             d == s \div 4
         IN /\ s <= 4 * d + 2 => (8 * BinSig(v)) * N <= (4 * (d + (d + 1))) * T
            /\ s >= 4 * d + 2 => (8 * BinSig(v)) * N >= (4 * (d + (d + 1))) * T
<1> DEFINE c == BinSig(v)
           N == Twos(BinExp(v), DecExpOf(v))
           T == Tens(BinExp(v), DecExpOf(v))
           s == Estimate(4 * c, BinExp(v), DecExpOf(v))
           d == s \div 4
           m == 4 * d + 2
           x == (4 * c) * N
<1>1. 4 * c \in Quarters(v)
  BY DEF Quarters
<1>2. /\ s \in Nat /\ RoundedToOdd(s, x, T)
  BY <1>1, EstimateExact
<1>3. c \in Nat /\ N \in Nat /\ T \in Nat \ {0} /\ x \in Nat /\ d \in Nat
  BY OrdinaryType, Factors, ValueBetween
<1> HIDE DEF c, N, T, s, d
<1>4. m \in Nat /\ m % 2 = 0
  BY <1>3
<1> HIDE DEF m, x
<1>5. /\ s <= m <=> x <= m * T
      /\ m <= s <=> m * T <= x
  BY <1>2, <1>3, <1>4, RoundToOddCompares
<1>6. (8 * c) * N = 2 * x
  BY <1>3 DEF x
<1>7. (4 * (d + (d + 1))) * T = 2 * (m * T)
  BY <1>3 DEF m
<1>8. m * T \in Nat
  BY <1>3, <1>4
<1>9. /\ s <= m => (8 * c) * N <= (4 * (d + (d + 1))) * T
      /\ s >= m => (8 * c) * N >= (4 * (d + (d + 1))) * T
  BY <1>2, <1>3, <1>4, <1>5, <1>6, <1>7, <1>8
<1> QED BY <1>9 DEF c, N, T, s, d, m

(* Going away from the value on either side brings nothing closer, and     *)
(* neither does crossing over to the side cmp rules out.                   *)
LEMMA NoneCloser ==
  ASSUME NEW v \in Ordinary, NEW e \in Nat
  PROVE  LET k == DecExpOf(v)
             s == Estimate(4 * BinSig(v), BinExp(v), k)
             u == s \div 4
         IN /\ e <= u => ~Closer(v, u, e, k)
            /\ e > u => ~Closer(v, u + 1, e, k)
            /\ s <= 4 * u + 2 /\ e > u => ~Closer(v, u, e, k)
            /\ s >= 4 * u + 2 /\ e <= u => ~Closer(v, u + 1, e, k)
<1> DEFINE c == BinSig(v)
           k == DecExpOf(v)
           N == Twos(BinExp(v), k)
           T == Tens(BinExp(v), k)
           s == Estimate(4 * c, BinExp(v), k)
           u == s \div 4
           x == (8 * c) * N
           a == 4 * (u + e)
           b == 4 * (u + 1 + e)
           m == 4 * (u + (u + 1))
<1>1. c \in Nat /\ N \in Nat /\ T \in Nat \ {0} /\ u \in Nat /\ s \in Nat
  BY OrdinaryType, Factors, ValueBetween
<1>2. /\ Closer(v, u, e, k) <=>
           ((e > u /\ a * T < x) \/ (e < u /\ x < a * T))
      /\ Closer(v, u + 1, e, k) <=>
           ((e > u + 1 /\ b * T < x) \/ (e < u + 1 /\ x < b * T))
  <2>1. u + 1 \in Nat
    BY <1>1
  <2> QED BY <1>1, <2>1, CloserExact
<1>3. /\ s <= 4 * u + 2 => x <= m * T
      /\ s >= 4 * u + 2 => x >= m * T
  BY CmpExact
<1>4. (4 * u) * T <= (4 * c) * N /\ (4 * c) * N < (4 * (u + 1)) * T
  BY ValueBetween
<1> HIDE DEF c, N, T, s, u, k
<1>5. x \in Nat /\ x = 2 * ((4 * c) * N) /\ (4 * c) * N \in Nat
  BY <1>1
<1>6. /\ (8 * u) * T <= x
      /\ x < (8 * (u + 1)) * T
      /\ (8 * u) * T \in Nat /\ (8 * (u + 1)) * T \in Nat
  <2>1. (8 * u) * T = 2 * ((4 * u) * T) /\ (4 * u) * T \in Nat
    BY <1>1
  <2>2. /\ (8 * (u + 1)) * T = 2 * ((4 * (u + 1)) * T)
        /\ (4 * (u + 1)) * T \in Nat
    BY <1>1
  <2> HIDE DEF x
  <2> QED BY <1>4, <1>5, <2>1, <2>2
<1>7. /\ e <= u => a <= 8 * u
      /\ e > u => a >= m
      /\ e <= u => b <= m
      /\ e > u => b >= 8 * (u + 1)
      /\ a \in Nat /\ b \in Nat /\ m \in Nat /\ 8 * u \in Nat
      /\ 8 * (u + 1) \in Nat
  BY <1>1
<1> HIDE DEF x, a, b, m
<1>8. /\ e <= u => a * T <= (8 * u) * T
      /\ e > u => m * T <= a * T
      /\ e <= u => b * T <= m * T
      /\ e > u => (8 * (u + 1)) * T <= b * T
  BY <1>1, <1>7, MonotoneProduct
<1>9. a * T \in Nat /\ b * T \in Nat /\ m * T \in Nat
  BY <1>1, <1>7
<1>10. /\ e <= u => ~Closer(v, u, e, k)
       /\ e > u => ~Closer(v, u + 1, e, k)
       /\ s <= 4 * u + 2 /\ e > u => ~Closer(v, u, e, k)
       /\ s >= 4 * u + 2 /\ e <= u => ~Closer(v, u + 1, e, k)
  BY <1>1, <1>2, <1>3, <1>5, <1>6, <1>8, <1>9
<1> QED BY <1>10 DEF c, s, u, k

(* With one candidate outside the interval, nothing beyond it is inside.   *)
LEMMA NothingBeyond ==
  ASSUME NEW v \in Ordinary, NEW e \in Nat, RoundTrips(v, e, DecExpOf(v))
  PROVE  LET u == Estimate(4 * BinSig(v), BinExp(v), DecExpOf(v)) \div 4
         IN /\ ~OverIn(v, u + 1) => e <= u
            /\ ~UnderIn(v, u) => e > u
<1> DEFINE u == Estimate(4 * BinSig(v), BinExp(v), DecExpOf(v)) \div 4
<1>1. u \in Nat /\ u + 1 \in Nat
  BY ValueBetween
<1>2. e <= u => UnderIn(v, u)
  BY <1>1, LowerTestPassed
<1>3. u + 1 <= e => OverIn(v, u + 1)
  BY <1>1, UpperTestPassed
<1> HIDE DEF u
<1> QED BY <1>1, <1>2, <1>3 DEF u

LEMMA NearestStep ==
  ASSUME IInv, Longer \/ Closest,
         NEW e \in Nat, RoundTrips(value, e, dec_exp)
  PROVE  ~Closer(value, dec_sig', e, dec_exp)
<1> DEFINE s == Estimate(4 * BinSig(value), BinExp(value), DecExpOf(value))
           u == dec_sig_under
<1>1. Decoded /\ EstimatesSet
  BY DEF IInv, Longer, Closest
<1>2. /\ value \in Ordinary /\ dec_exp = DecExpOf(value)
      /\ u = s \div 4 /\ u \in Nat
      /\ scaled_sig = s /\ s \in Nat
      /\ dec_sig_over = u + 1
  <2>1. value \in Ordinary
    BY <1>1 DEF Decoded
  <2>2. s \in Nat
    BY <2>1, ValueBetween
  <2> QED BY <1>1, <2>1, <2>2, StateTests DEF EstimatesSet, dec_sig_over
<1>3. /\ under_in(u) <=> UnderIn(value, u)
      /\ over_in(u + 1) <=> OverIn(value, u + 1)
      /\ under_in(u) \in BOOLEAN /\ over_in(u + 1) \in BOOLEAN
  BY <1>1, StateTests DEF under_in, over_in
<1>4. /\ e <= u => ~Closer(value, u, e, dec_exp)
      /\ e > u => ~Closer(value, u + 1, e, dec_exp)
      /\ s <= 4 * u + 2 /\ e > u => ~Closer(value, u, e, dec_exp)
      /\ s >= 4 * u + 2 /\ e <= u => ~Closer(value, u + 1, e, dec_exp)
  BY <1>2, NoneCloser
<1>5. CASE Longer
  <2>1. under_in(u) # over_in(u + 1)
    BY <1>2, <1>5 DEF Longer, OnlyOne
  <2>2. dec_sig' = IF under_in(u) THEN u ELSE u + 1
    BY <1>2, <1>5 DEF Longer, TheOne
  <2>3. /\ ~OverIn(value, u + 1) => e <= u
        /\ ~UnderIn(value, u) => e > u
    BY <1>2, NothingBeyond
  <2>4. CASE under_in(u)
    <3>1. dec_sig' = u
      BY <2>2, <2>4
    <3>2. e <= u
      BY <1>3, <2>1, <2>3, <2>4
    <3> QED BY <1>4, <3>1, <3>2
  <2>5. CASE ~under_in(u)
    <3>1. dec_sig' = u + 1
      BY <2>2, <2>5
    <3>2. e > u
      BY <1>3, <2>3, <2>5
    <3> QED BY <1>4, <3>1, <3>2
  <2> QED BY <2>4, <2>5
<1>6. CASE Closest
  <2>1. dec_sig' = IF under_closer THEN u ELSE u + 1
    BY <1>2, <1>6 DEF Closest
  <2>2. cmp = s - 2 * (u + (u + 1))
    BY <1>2 DEF cmp
  <2>3. /\ under_closer => s <= 4 * u + 2
        /\ ~under_closer => s >= 4 * u + 2
    <3> HIDE DEF s, u
    <3> QED BY <1>2, <2>2 DEF under_closer
  <2>4. e <= u \/ e > u
    BY <1>2
  <2>5. CASE under_closer
    <3>1. dec_sig' = u
      BY <2>1, <2>5
    <3> QED BY <1>4, <2>3, <2>4, <2>5, <3>1
  <2>6. CASE ~under_closer
    <3>1. dec_sig' = u + 1
      BY <2>1, <2>6
    <3> QED BY <1>4, <2>3, <2>4, <2>6, <3>1
  <2> QED BY <2>5, <2>6
<1> QED BY <1>5, <1>6

(* No decimal with the exponent of the result that is read back as the     *)
(* argument is closer to it than the result.                               *)
THEOREM AlwaysNearestTaken == Spec => NearestTaken
<1> DEFINE TakesNearest ==
      pc = "longer" /\ pc' = "write"
        => \A e \in 0..dec_sig_over2 :
             RoundTrips(value, e, dec_exp) => ~Closer(value, dec_sig', e, dec_exp)
<1>1. IInv /\ [Next]_vars => [TakesNearest]_vars
  <2> SUFFICES ASSUME IInv, Next, pc = "longer", pc' = "write",
                      NEW e \in 0..dec_sig_over2,
                      RoundTrips(value, e, dec_exp)
               PROVE  ~Closer(value, dec_sig', e, dec_exp)
    OBVIOUS
  <2>1. Longer \/ Closest
    BY DEF Next, Call, Special, Unpack, SmallInteger, Scale, Shorter,
           NotShorter, Write, Return
  <2>2. e \in Nat
    OBVIOUS
  <2> QED BY <2>1, <2>2, NearestStep
<1> QED BY <1>1, InductiveInvariant, PTL DEF Spec, NearestTaken

-----------------------------------------------------------------------------
(* Powers of ten up to the number of digits.                               *)
LEMMA TensPowers ==
  /\ max_digits10 \in Nat \ {0}
  /\ floor_log10_pow2(word_bits) \in Nat
  /\ max_digits10 <= floor_log10_pow2(word_bits)
  /\ PowersUpTo(10, floor_log10_pow2(word_bits) + 1)
  /\ \A i \in 0 .. floor_log10_pow2(word_bits) + 1 : 10^i \in Nat \ {0}
<1> DEFINE f == floor_log10_pow2(word_bits)
<1>1. max_digits10 \in 1..f /\ word_bits \in 1..word_bits
  BY WidthAssumption
<1>2. f \in Nat
  BY <1>1, DigitsAssumption
<1>3. 10^0 = 1
  OBVIOUS
<1>4. \A n \in 0..f : 10^(n + 1) = 10 * 10^n
  BY PowersAssumption DEF PowerAt
<1> HIDE DEF f
<1>5. PowersUpTo(10, f + 1)
  BY <1>2, <1>3, <1>4 DEF PowersUpTo
<1>6. \A i \in 0 .. f + 1 : 10^i \in Nat \ {0}
  <2>1. f + 1 \in Nat /\ 10 \in Nat \ {0}
    BY <1>2
  <2> QED BY <1>5, <2>1, PowerPositive
<1> QED BY <1>1, <1>2, <1>5, <1>6 DEF f

LEMMA TensStep ==
  ASSUME NEW i \in 0 .. max_digits10
  PROVE  /\ 10^i \in Nat \ {0}
         /\ 10^(i + 1) \in Nat \ {0}
         /\ 10^(i + 1) = 10 * 10^i
BY TensPowers DEF PowersUpTo

-----------------------------------------------------------------------------
(* What a decimal handed to write() is.                                    *)
Best(v, d, k) ==
  /\ k \in DecExps(v)
  /\ d \in 1 .. 10^max_digits10 - 1
  /\ RoundTrips(v, d, k)
  /\ Coarser(v, d, k, max_digits10)
  /\ d % 10 # 0 => ClosestAt(v, d, k)
  /\ d = 1 => NotAbove(v, 1, k)
  /\ d = 10 => NotAbove(v, 10, k) \/ ClosestAt(v, 10, k)

(* The significand of a value, and the bits it may have.                   *)
LEMMA SignificandBound ==
  ASSUME NEW v \in Ordinary
  PROVE  /\ BinSig(v) \in 1 .. 2 * implicit_bit - 1
         /\ ~IsRegular(v) => BinSig(v) = implicit_bit
<1>1. v \in Double /\ BinSig(v) \in Nat \ {0}
  BY OrdinaryType
<1>2. v.sig \in 0 .. implicit_bit - 1
  BY <1>1 DEF Double
<1> DEFINE I == implicit_bit
<1>3. I \in Nat \ {0}
  BY FormatAssumption
<1>4. BinSig(v) = IF v.exp = 0 THEN v.sig ELSE v.sig + I
  BY DEF BinSig
<1>5. ~IsRegular(v) => v.sig = 0 /\ v.exp # 0
  BY DEF IsRegular
<1> HIDE DEF I
<1>6. BinSig(v) \in 1 .. 2 * I - 1
  BY <1>1, <1>2, <1>3, <1>4 DEF I
<1>7. ~IsRegular(v) => BinSig(v) = I
  BY <1>3, <1>4, <1>5
<1> QED BY <1>6, <1>7 DEF I

(* A decimal at the exponent of v that is read back as v has at most       *)
(* max_digits10 digits.                                                    *)
LEMMA DigitsBound ==
  ASSUME NEW v \in Ordinary, NEW d \in Nat, RoundTrips(v, d, DecExpOf(v))
  PROVE  d \in 1 .. 10^max_digits10 - 1
<1> DEFINE c == BinSig(v)
           N == Twos(BinExp(v), DecExpOf(v))
           T == Tens(BinExp(v), DecExpOf(v))
           I == implicit_bit
           y == (4 * c) * N
           w == (4 * d) * T
<1>1. w <= y + 2 * N /\ d # 0
  BY InsideIsNear
<1>2. /\ N \in Nat \ {0} /\ T \in Nat \ {0}
      /\ IF IsRegular(v) THEN N < 10 * T ELSE 3 * N < 40 * T
      /\ I \in Nat \ {0}
  BY Factors, LogAssumption, FormatAssumption
<1>3. c \in 1 .. 2 * I - 1 /\ (~IsRegular(v) => c = I)
  BY SignificandBound
<1>4. 20 * I <= 10^max_digits10 /\ 10^max_digits10 \in Nat
  <2>1. max_digits10 \in 0 .. max_digits10
    BY TensPowers
  <2> QED BY <2>1, WidthAssumption, TensStep
<1> HIDE DEF c, N, T, I
<1>5. 3 * w <= (12 * c + 6) * N
  <2>1. y \in Nat /\ w \in Nat
    BY <1>2, <1>3
  <2>2. (12 * c + 6) * N = 3 * (y + 2 * N)
    BY <1>2, <1>3
  <2> HIDE DEF y, w
  <2> QED BY <1>1, <1>2, <2>1, <2>2
<1>6. (12 * c + 6) * N < (240 * I) * T
  <2>1. CASE IsRegular(v)
    <3>1. (12 * c + 6) * N <= (24 * I - 6) * N
      <4>1. 12 * c + 6 \in Int /\ 24 * I - 6 \in Int /\ 12 * c + 6 <= 24 * I - 6
        BY <1>2, <1>3
      <4> QED BY <1>2, <4>1, MonotoneProduct
    <3>2. (24 * I - 6) * N < (24 * I - 6) * (10 * T)
      <4>1. N < 10 * T /\ N \in Int /\ 10 * T \in Int /\ 24 * I - 6 \in Nat \ {0}
        BY <1>2, <2>1
      <4> DEFINE a == 24 * I - 6
                 b == 10 * T
      <4> HIDE DEF a, b
      <4>2. N * a < b * a
        BY <4>1, MonotoneProduct DEF a, b
      <4>3. N * a = a * N /\ b * a = a * b
        BY <1>2, <4>1 DEF a, b
      <4> QED BY <4>2, <4>3 DEF a, b
    <3>3. (24 * I - 6) * (10 * T) = (240 * I) * T - 60 * T
      BY <1>2
    <3>4. (12 * c + 6) * N \in Int /\ (24 * I - 6) * N \in Int /\ (240 * I) * T \in Int
      BY <1>2, <1>3
    <3> QED BY <1>2, <3>1, <3>2, <3>3, <3>4
  <2>2. CASE ~IsRegular(v)
    <3>1. c = I /\ 3 * N < 40 * T
      BY <1>2, <1>3, <2>2
    <3>2. (12 * c + 6) * N = (4 * I + 2) * (3 * N)
      BY <1>2, <3>1
    <3>3. (4 * I + 2) * (3 * N) < (4 * I + 2) * (40 * T)
      <4> DEFINE a == 4 * I + 2
                 b == 40 * T
                 n == 3 * N
      <4>1. n < b /\ n \in Int /\ b \in Int /\ a \in Nat \ {0}
        BY <1>2, <3>1
      <4> HIDE DEF a, b, n
      <4>2. n * a < b * a
        BY <4>1, MonotoneProduct
      <4>3. n * a = a * n /\ b * a = a * b
        BY <4>1
      <4> QED BY <4>2, <4>3 DEF a, b, n
    <3>4. (4 * I + 2) * (40 * T) <= (240 * I) * T
      <4>1. (4 * I + 2) * (40 * T) = (160 * I + 80) * T
        BY <1>2
      <4>2. (160 * I + 80) * T <= (240 * I) * T
        <5>1. 160 * I + 80 \in Int /\ 240 * I \in Int /\ 160 * I + 80 <= 240 * I
          BY <1>2
        <5> QED BY <1>2, <5>1, MonotoneProduct
      <4> QED BY <4>1, <4>2
    <3>5. (4 * I + 2) * (3 * N) \in Int /\ (4 * I + 2) * (40 * T) \in Int
          /\ (240 * I) * T \in Int
      BY <1>2
    <3> QED BY <3>2, <3>3, <3>4, <3>5
  <2> QED BY <2>1, <2>2
<1>7. (12 * d) * T < (240 * I) * T
  <2>1. 3 * w = (12 * d) * T
    BY <1>2
  <2>2. (12 * d) * T \in Int /\ (12 * c + 6) * N \in Int /\ (240 * I) * T \in Int
    BY <1>2, <1>3
  <2> QED BY <1>5, <1>6, <2>1, <2>2
<1>8. 12 * d < 240 * I
  <2>1. 12 * d \in Nat /\ 240 * I \in Nat
    BY <1>2
  <2> QED BY <1>2, <1>7, <2>1, ProductOrder
<1> QED BY <1>1, <1>2, <1>4, <1>8

(* The candidates are positive.                                            *)
LEMMA UnderPositive ==
  ASSUME NEW v \in Ordinary
  PROVE  Estimate(4 * BinSig(v), BinExp(v), DecExpOf(v)) \div 4 \in Nat \ {0}
<1> DEFINE c == BinSig(v)
           N == Twos(BinExp(v), DecExpOf(v))
           T == Tens(BinExp(v), DecExpOf(v))
           u == Estimate(4 * c, BinExp(v), DecExpOf(v)) \div 4
<1>1. u \in Nat /\ (4 * c) * N < (4 * (u + 1)) * T
  BY ValueBetween
<1>2. N \in Nat \ {0} /\ T \in Nat \ {0} /\ T <= N /\ c \in Nat \ {0}
  BY Factors, LogAssumption, OrdinaryType
<1> HIDE DEF c, N, T, u
<1>3. 4 * N <= (4 * c) * N
  <2>1. 4 \in Int /\ 4 * c \in Int /\ 4 <= 4 * c
    BY <1>2
  <2> QED BY <1>2, <2>1, MonotoneProduct
<1>4. u # 0
  <2> SUFFICES ASSUME u = 0 PROVE FALSE
    OBVIOUS
  <2>1. (4 * (u + 1)) * T = 4 * T
    BY <1>2
  <2>2. (4 * c) * N \in Int
    BY <1>2
  <2> DEFINE y == (4 * c) * N
  <2>3. y < 4 * T /\ 4 * N <= y /\ y \in Int
    BY <1>1, <1>3, <2>1, <2>2
  <2> HIDE DEF y
  <2> QED BY <1>2, <2>3
<1> QED BY <1>1, <1>4 DEF u, c

-----------------------------------------------------------------------------
(* The small integers are exact: nothing else is read back as one of them. *)
LEMMA SmallIntegerBest ==
  ASSUME NEW v \in Ordinary,
         BinExp(v) \in -num_sig_bits .. -1,
         BinSig(v) % 2^(-BinExp(v)) = 0
  PROVE  Best(v, BinSig(v) \div 2^(-BinExp(v)), 0)
<1> DEFINE c == BinSig(v)
           q == BinExp(v)
           p == 2^(-q)
           f == c \div p
           l == LowerQuarters(v)
<1>1. c \in 1 .. 2 * implicit_bit - 1 /\ implicit_bit \in Nat \ {0}
  BY SignificandBound, FormatAssumption
<1>2. /\ p \in Nat \ {0} /\ 0 \in DecExps(v)
      /\ Twos(q, 0) = 1 /\ Tens(q, 0) = p
  BY SmallIntegerFactors
<1>3. f \in Nat /\ RoundTrips(v, f, 0)
  BY SmallIntegerReadsBack
<1>4. f * p = c /\ f \in 1..c
  <2>1. c % p = 0
    OBVIOUS
  <2> HIDE DEF c, p
  <2>2. f * p = c
    BY <1>1, <1>2, <2>1
  <2> HIDE DEF f
  <2> QED BY <1>1, <1>2, <1>3, <2>2
<1>5. ASSUME NEW e \in Nat, RoundTrips(v, e, 0)
      PROVE  e = f
  <2>1. /\ l \in Nat /\ 4 * c - 2 <= l
        /\ RoundTrips(v, e, 0) <=>
             IF c % 2 = 0 THEN l * 1 <= (4 * e) * p /\ (4 * e) * p <= (4 * c + 2) * 1
                          ELSE l * 1 < (4 * e) * p /\ (4 * e) * p < (4 * c + 2) * 1
    BY <1>2, RoundTripsExact
  <2> HIDE DEF c, p, f, l
  <2>2. (4 * e) * p \in Nat
    BY <1>2
  <2>3. 4 * c - 2 <= (4 * e) * p /\ (4 * e) * p <= 4 * c + 2
    BY <1>1, <1>5, <2>1, <2>2
  <2>4. 4 * c = (4 * f) * p
    BY <1>2, <1>3, <1>4
  <2>5. ~(e < f)
    <3> SUFFICES ASSUME e < f PROVE FALSE
      OBVIOUS
    <3>1. 4 * e + 4 <= 4 * f /\ 4 * e + 4 \in Int /\ 4 * f \in Int
      BY <1>3
    <3>2. (4 * e + 4) * p <= (4 * f) * p
      BY <1>2, <3>1, MonotoneProduct
    <3>3. (4 * e + 4) * p = (4 * e) * p + 4 * p
      BY <1>2
    <3> QED BY <1>1, <1>2, <2>2, <2>3, <2>4, <3>2, <3>3
  <2>6. ~(f < e)
    <3> SUFFICES ASSUME f < e PROVE FALSE
      OBVIOUS
    <3>1. 4 * f + 4 <= 4 * e /\ 4 * f + 4 \in Int /\ 4 * e \in Int
      BY <1>3
    <3>2. (4 * f + 4) * p <= (4 * e) * p
      BY <1>2, <3>1, MonotoneProduct
    <3>3. (4 * f + 4) * p = (4 * f) * p + 4 * p
      BY <1>2, <1>3
    <3> QED BY <1>1, <1>2, <2>2, <2>3, <2>4, <3>2, <3>3
  <2> QED BY <1>3, <2>5, <2>6
<1>6. f \in 1 .. 10^max_digits10 - 1
  <2>1. max_digits10 \in 0 .. max_digits10
    BY TensPowers
  <2>2. 20 * implicit_bit <= 10^max_digits10 /\ 10^max_digits10 \in Nat
    BY <2>1, WidthAssumption, TensStep
  <2> HIDE DEF c, f
  <2> QED BY <1>1, <1>4, <2>2
<1>7. OnlyTens(v, f, 0)
  <2> HIDE DEF f
  <2>1. \A m \in Nat : 10 * m \in Nat
    OBVIOUS
  <2> QED BY <1>5, <2>1 DEF OnlyTens
<1>8. ClosestAt(v, f, 0)
  <2>1. ~Closer(v, f, f, 0)
    <3> HIDE DEF f
    <3> QED BY <1>3 DEF Closer
  <2> HIDE DEF f
  <2> QED BY <1>5, <2>1 DEF ClosestAt
<1>9. NotAbove(v, f, 0)
  <2> SUFFICES LeqProd(4 * f, p, 4 * c, 1)
    BY <1>2 DEF NotAbove, DecimalLeq
  <2> HIDE DEF c, p, f
  <2>1. 4 * f \in Nat /\ 4 * c \in Nat /\ (4 * f) * p <= (4 * c) * 1
    BY <1>1, <1>2, <1>3, <1>4
  <2> QED BY <1>2, <2>1, LeqProdExact
<1>10. Coarser(v, f, 0, max_digits10)
  <2> HIDE DEF f
  <2> QED BY <1>2, <1>7, OrdinaryScalable, CoarserFromTens
<1> HIDE DEF f
<1> QED BY <1>2, <1>3, <1>6, <1>8, <1>9, <1>10 DEF Best, f

(* d is at most the candidate below the value.                             *)
LEMMA CandidateNotAbove ==
  ASSUME NEW v \in Ordinary, NEW d \in Nat,
         d <= Estimate(4 * BinSig(v), BinExp(v), DecExpOf(v)) \div 4
  PROVE  NotAbove(v, d, DecExpOf(v))
<1> DEFINE c == BinSig(v)
           N == Twos(BinExp(v), DecExpOf(v))
           T == Tens(BinExp(v), DecExpOf(v))
           u == Estimate(4 * c, BinExp(v), DecExpOf(v)) \div 4
           n == 4 * c
<1>1. u \in Nat /\ (4 * u) * T <= n * N
  BY ValueBetween
<1>2. c \in Nat /\ N \in Nat /\ T \in Nat \ {0} /\ n \in Nat
  BY OrdinaryType, Factors
<1>3. (4 * d) * T <= (4 * u) * T
  <2> HIDE DEF u, T
  <2>1. 4 * d \in Int /\ 4 * u \in Int /\ 4 * d <= 4 * u
    BY <1>1 DEF u
  <2> QED BY <1>2, <2>1, MonotoneProduct
<1>4. (4 * d) * T <= n * N
  <2> HIDE DEF u, T, N, n
  <2>1. (4 * d) * T \in Int /\ (4 * u) * T \in Int /\ n * N \in Int
    BY <1>1, <1>2
  <2> QED BY <1>1, <1>3, <2>1
<1> QED BY <1>2, <1>4, DecimalCompares DEF NotAbove

LEMMA ShorterStep ==
  ASSUME IInv, Shorter
  PROVE  Best(value, dec_sig', dec_exp)
<1> DEFINE u == Estimate(4 * BinSig(value), BinExp(value), DecExpOf(value)) \div 4
           a == dec_sig_under2
           b == dec_sig_over2
           d == dec_sig'
<1>1. Decoded /\ EstimatesSet /\ OnlyOne(a, b) /\ dec_sig_under >= 10
      /\ d = TheOne(a, b)
  BY DEF IInv, Shorter
<1>2. /\ value \in Ordinary /\ dec_exp = DecExpOf(value) /\ dec_sig_under = u
      /\ u \in Nat /\ dec_exp \in DecExps(value)
  <2>1. value \in Ordinary
    BY <1>1 DEF Decoded
  <2> QED BY <1>1, <2>1, StateTests DEF DecExps
<1>3. /\ a = 10 * (u \div 10) /\ b = a + 10 /\ a \in Nat /\ b \in Nat
      /\ a <= u /\ u < b
  <2> HIDE DEF u, dec_sig_under
  <2> QED BY <1>2 DEF dec_sig_under2, dec_sig_over2
<1>4. /\ under_in(a) <=> UnderIn(value, a)
      /\ over_in(b) <=> OverIn(value, b)
      /\ under_in(a) \in BOOLEAN /\ over_in(b) \in BOOLEAN
  <2>1. under_in(a) \in BOOLEAN /\ over_in(b) \in BOOLEAN
    BY DEF under_in, over_in
  <2> QED BY <1>1, <2>1, StateTests
<1>5. \/ d = a /\ under_in(a) /\ ~over_in(b)
      \/ d = b /\ ~under_in(a) /\ over_in(b)
  <2> HIDE DEF a, b, d
  <2> QED BY <1>1, <1>4 DEF OnlyOne, TheOne
<1>6. RoundTrips(value, d, dec_exp) /\ d \in Nat
  <2>1. d \in Nat
    BY <1>3, <1>5
  <2>2. \/ d <= dec_sig_under /\ under_in(d)
        \/ d > dec_sig_under /\ over_in(d)
    <3> HIDE DEF a, b, d, u, dec_sig_under
    <3> QED BY <1>2, <1>3, <1>5
  <2> HIDE DEF d
  <2> QED BY <1>1, <2>1, <2>2, CandidateReadsBack
<1>7. ASSUME NEW m \in Nat, RoundTrips(value, 10 * m, dec_exp)
      PROVE  10 * m = d
  <2>1. 10 * m \in {a, b} /\ 10 * m \in Nat
    BY <1>2, <1>3, <1>7, MultipleOfTen
  <2>2. 10 * m = a => under_in(a)
    <3>1. a \in {u, 10 * (u \div 10)} /\ a <= a
      BY <1>3
    <3> HIDE DEF a, u
    <3> QED BY <1>2, <1>3, <1>4, <1>7, <3>1, LowerTestPassed DEF u
  <2>3. 10 * m = b => over_in(b)
    <3>1. b <= b
      BY <1>3
    <3> HIDE DEF b
    <3> QED BY <1>2, <1>3, <1>4, <1>7, <3>1, UpperTestPassed
  <2> HIDE DEF a, b, d
  <2> QED BY <1>5, <2>1, <2>2, <2>3
<1>8. Coarser(value, d, dec_exp, max_digits10)
  <2> HIDE DEF d
  <2>1. OnlyTens(value, d, dec_exp)
    BY <1>7 DEF OnlyTens
  <2> QED BY <1>2, <2>1, OrdinaryScalable, CoarserFromTens
<1>9. d \in 1 .. 10^max_digits10 - 1
  BY <1>2, <1>6, DigitsBound
<1>10. d % 10 = 0
  <2> HIDE DEF u, d, a, b
  <2> QED BY <1>2, <1>3, <1>5
<1>11. NotAbove(value, 10, dec_exp)
  <2>1. 10 <= u /\ 10 \in Nat
    BY <1>1, <1>2
  <2> QED BY <1>2, <2>1, CandidateNotAbove
<1>12. d # 1
  <2> HIDE DEF d
  <2> QED BY <1>10
<1> QED BY <1>2, <1>6, <1>8, <1>9, <1>10, <1>11, <1>12 DEF Best

LEMMA LongerStep ==
  ASSUME IInv, Longer \/ Closest
  PROVE  Best(value, dec_sig', dec_exp)
<1> DEFINE u == dec_sig_under
           d == dec_sig'
<1>1. Decoded /\ EstimatesSet /\ NoneShorter /\ IInv'
  <2>1. Decoded /\ EstimatesSet /\ NoneShorter
    BY DEF IInv, Longer, Closest
  <2>2. Next
    BY DEF Next
  <2> QED BY <2>1, <2>2, NextIInv
<1>2. /\ value \in Ordinary /\ dec_exp = DecExpOf(value)
      /\ u = Estimate(4 * BinSig(value), BinExp(value), DecExpOf(value)) \div 4
      /\ u \in Nat \ {0} /\ dec_exp \in DecExps(value)
  <2>1. value \in Ordinary
    BY <1>1 DEF Decoded
  <2> QED BY <1>1, <2>1, StateTests, UnderPositive DEF DecExps
<1>3. d \in {u, u + 1} /\ d \in Nat
  <2>1. d \in {u, dec_sig_over}
    BY DEF Longer, Closest, TheOne
  <2> HIDE DEF d, dec_sig_under
  <2> QED BY <1>2, <2>1 DEF dec_sig_over
<1>4. RoundTrips(value, d, dec_exp)
  <2>1. value' = value /\ dec_exp' = dec_exp /\ pc' = "write"
    BY DEF Longer, Closest
  <2> QED BY <1>1, <2>1 DEF IInv, ReadsBack
<1>5. ClosestAt(value, d, dec_exp)
  BY NearestStep DEF ClosestAt
<1>6. OnlyTens(value, d, dec_exp)
  <2> SUFFICES ASSUME NEW m \in Nat, RoundTrips(value, 10 * m, dec_exp)
               PROVE  10 * m = d \/ (d < 10 /\ 10 * m = 10)
    BY DEF OnlyTens
  <2>1. CASE u >= 10
    <3>1. ~OnlyOne(dec_sig_under2, dec_sig_over2)
      BY <1>1, <2>1 DEF NoneShorter
    <3> QED BY <1>1, <3>1, ShorterGivenUp
  <2>2. CASE u < 10
    <3>1. 10 * m \in {10 * (u \div 10), 10 * (u \div 10) + 10}
      BY <1>2, MultipleOfTen
    <3>2. 10 * m # 0
      <4>1. 10 * m \in Nat
        OBVIOUS
      <4> QED BY <1>2, <4>1, InsideIsNear
    <3> HIDE DEF u, d
    <3> QED BY <1>2, <1>3, <2>2, <3>1, <3>2
  <2> HIDE DEF u, d
  <2> QED BY <1>2, <2>1, <2>2
<1>7. Coarser(value, d, dec_exp, max_digits10)
  <2> HIDE DEF d
  <2> QED BY <1>2, <1>6, OrdinaryScalable, CoarserFromTens
<1>8. d \in 1 .. 10^max_digits10 - 1
  BY <1>2, <1>3, <1>4, DigitsBound
<1>9. NotAbove(value, 1, dec_exp)
  <2>1. 1 <= u /\ 1 \in Nat
    <3> HIDE DEF u
    <3> QED BY <1>2
  <2> QED BY <1>2, <2>1, CandidateNotAbove
<1> QED BY <1>2, <1>4, <1>5, <1>7, <1>8, <1>9 DEF Best

-----------------------------------------------------------------------------
-----------------------------------------------------------------------------
(* So its digits are the shortest and closest text.                        *)
LEMMA BestIsBestDecimal ==
  ASSUME NEW v \in Ordinary, NEW k, NEW d, Best(v, d, k)
  PROVE  BestDecimal(v, d, k, max_digits10) /\ Scalable(v, k, max_digits10)
<1>1. k \in DecExps(v) /\ Scalable(v, k, max_digits10) /\ BinSig(v) \in Nat \ {0}
  BY OrdinaryScalable, OrdinaryType DEF Best
<1>2. d = 1 => ~NineBetter(v, k - 1)
  <2> SUFFICES ASSUME d = 1 PROVE ~NineBetter(v, k - 1)
    OBVIOUS
  <2>1. NotAbove(v, 1, k)
    BY DEF Best
  <2> QED BY <1>1, <2>1, NotAboveScale, TenNotFarther DEF NineBetter
<1>3. d = 10 => ~NineBetter(v, k)
  <2> SUFFICES ASSUME d = 10 PROVE ~NineBetter(v, k)
    OBVIOUS
  <2>1. k \in k - 1 .. k + max_digits10
    BY <1>1, WidthAssumption DEF Scalable
  <2>2. Twos(BinExp(v), k) \in Nat \ {0} /\ Tens(BinExp(v), k) \in Nat \ {0}
    BY <1>1, <2>1, ScaleStep
  <2>3. CASE NotAbove(v, 10, k)
    BY <1>1, <2>2, <2>3, TenNotFarther DEF NineBetter
  <2>4. CASE ClosestAt(v, 10, k)
    <3>1. 9 \in Nat
      OBVIOUS
    <3> QED BY <2>4, <3>1 DEF ClosestAt, NineBetter
  <2> QED BY <2>3, <2>4 DEF Best
<1> QED BY <1>1, <1>2, <1>3 DEF Best, BestDecimal

(* DecLen counts the digits.                                               *)
LEMMA DecLenExact ==
  ASSUME NEW sig \in 1 .. 10^max_digits10 - 1
  PROVE  /\ DecLen(sig) \in 1..max_digits10
         /\ 10^(DecLen(sig) - 1) <= sig
         /\ sig < 10^DecLen(sig)
<1> DEFINE F == floor_log10_pow2(word_bits)
           B == {n \in 0..word_bits : sig < 2^n}
           b == BitLength(sig)
           f == floor_log10_pow2(b)
           L == DecLen(sig)
<1>1. /\ max_digits10 \in 1..F /\ F \in Nat
      /\ \A i \in 0 .. F + 1 : 10^i \in Nat \ {0}
      /\ PowersUpTo(10, F + 1)
  BY TensPowers
<1>2. word_bits \in Nat \ {0}
  BY WidthAssumption
<1>3. /\ \A n \in 0 .. word_bits - 1 : 2^n \in Nat \ {0} /\ 2^(n + 1) = 2 * 2^n
      /\ \A n \in 0 .. word_bits : 2^n \in Nat \ {0}
  <2>1. \A n \in 0 .. word_bits - 1 : 2^n \in Nat \ {0} /\ 2^(n + 1) = 2 * 2^n
    BY PowersAssumption DEF PowerAt
  <2>2. PowersUpTo(2, word_bits)
    <3>1. 2^0 = 1
      OBVIOUS
    <3> QED BY <2>1, <3>1 DEF PowersUpTo
  <2>3. 2 \in Nat \ {0}
    OBVIOUS
  <2>4. \A n \in 0 .. word_bits : 2^n \in Nat \ {0}
    BY <1>2, <2>2, <2>3, PowerPositive
  <2> QED BY <2>1, <2>4
<1>4. sig \in Nat \ {0}
  BY <1>1
<1>5. sig < 10^F
  <2>1. max_digits10 < F => 10^max_digits10 < 10^F
    <3>1. max_digits10 \in 0 .. F + 1 /\ F \in 0 .. F + 1 /\ F + 1 \in Nat
          /\ 10 \in Nat /\ 10 >= 2
      BY <1>1
    <3> HIDE DEF F
    <3> QED BY <1>1, <3>1, PowerOrder
  <2>2. 10^max_digits10 \in Nat /\ 10^F \in Nat
    BY <1>1
  <2> QED BY <1>1, <2>1, <2>2
<1>6. word_bits \in B
  <2>1. word_bits \in 1..word_bits /\ 10^F <= 2^word_bits
    BY <1>2, DigitsAssumption
  <2>2. 2^word_bits \in Nat /\ 10^F \in Nat /\ word_bits \in 0..word_bits
    BY <1>1, <1>2, <1>3
  <2> QED BY <1>4, <1>5, <2>1, <2>2
<1>7. \E n \in 0..word_bits : sig < 2^n /\ (n = 0 \/ sig >= 2^(n - 1))
  <2>1. PICK n \in B : \A m \in B : n <= m
    <3>1. B \subseteq Nat
      OBVIOUS
    <3> HIDE DEF B
    <3> QED BY <1>6, <3>1, LeastNatural
  <2>2. n \in 0..word_bits /\ sig < 2^n
    OBVIOUS
  <2>3. n # 0 => sig >= 2^(n - 1)
    <3> SUFFICES ASSUME n # 0 PROVE sig >= 2^(n - 1)
      OBVIOUS
    <3> HIDE DEF B
    <3>1. n - 1 \in 0..word_bits /\ n - 1 < n
      BY <1>2, <2>2
    <3>2. n - 1 \notin B
      <4> SUFFICES ASSUME n - 1 \in B PROVE FALSE
        OBVIOUS
      <4>1. n <= n - 1
        BY <2>1
      <4> QED BY <1>2, <2>2, <4>1
    <3> QED BY <1>3, <1>4, <3>1, <3>2 DEF B
  <2> QED BY <2>2, <2>3
<1>8. b \in 0..word_bits /\ sig < 2^b /\ (b = 0 \/ sig >= 2^(b - 1))
  BY <1>7 DEF BitLength
<1>9. b \in 1..word_bits /\ 2^b <= 2 * sig
  <2>1. b # 0
    <3> SUFFICES ASSUME b = 0 PROVE FALSE
      OBVIOUS
    <3>1. 2^b = 1
      BY 2^0 = 1
    <3> QED BY <1>4, <1>8, <3>1
  <2>2. b - 1 \in 0 .. word_bits - 1 /\ (b - 1) + 1 = b
    BY <1>2, <1>8, <2>1
  <2>3. 2^(b - 1) \in Nat /\ 2^b = 2 * 2^(b - 1)
    BY <1>3, <2>2
  <2> DEFINE x == 2^(b - 1)
  <2>4. x \in Nat /\ 2^b = 2 * x /\ x <= sig
    BY <1>8, <2>1, <2>3
  <2> HIDE DEF x, b
  <2> QED BY <1>4, <1>8, <2>1, <2>4
<1>10. f \in 0..F /\ 10^f <= 2^b /\ 2^b < 10^(f + 1)
  BY <1>9, DigitsAssumption
<1>11. L = IF sig >= 10^f THEN f + 1 ELSE f
  BY DEF DecLen
<1>12. 10^f \in Nat \ {0} /\ 10^(f + 1) \in Nat \ {0} /\ 2^b \in Nat
  BY <1>1, <1>3, <1>9, <1>10
<1> HIDE DEF F, B, b, f, L
<1>13. 10^(L - 1) <= sig /\ sig < 10^L /\ L \in 1 .. F + 1
  <2>1. CASE sig >= 10^f
    <3>1. L = f + 1 /\ L - 1 = f
      BY <1>10, <1>11, <2>1
    <3>2. sig < 10^(f + 1)
      BY <1>4, <1>8, <1>10, <1>12
    <3> QED BY <1>1, <1>10, <2>1, <3>1, <3>2
  <2>2. CASE ~(sig >= 10^f)
    <3>1. L = f
      BY <1>11, <2>2
    <3>2. f # 0
      <4> SUFFICES ASSUME f = 0 PROVE FALSE
        OBVIOUS
      <4>1. 10^f = 1
        BY 10^0 = 1
      <4> QED BY <1>4, <2>2, <4>1
    <3>3. f - 1 \in 0..F /\ (f - 1) + 1 = f
      BY <1>1, <1>10, <3>2
    <3>4. 10^(f - 1) \in Nat \ {0} /\ 10^f = 10 * 10^(f - 1)
      BY <1>1, <3>3 DEF PowersUpTo
    <3> DEFINE x == 10^(f - 1)
    <3>5. x \in Nat \ {0} /\ 10^f = 10 * x
      BY <3>4
    <3> HIDE DEF x
    <3>6. x <= sig
      BY <1>4, <1>9, <1>10, <1>12, <3>5
    <3>7. sig < 10^f
      BY <1>4, <1>12, <2>2
    <3> QED BY <1>1, <1>10, <3>1, <3>2, <3>6, <3>7 DEF x
  <2> QED BY <2>1, <2>2
<1>14. L <= max_digits10
  <2> SUFFICES ASSUME L > max_digits10 PROVE FALSE
    BY <1>1, <1>13
  <2>1. L - 1 \in 0 .. F + 1 /\ max_digits10 <= L - 1 /\ max_digits10 \in 0 .. F + 1
        /\ F + 1 \in Nat /\ 10 \in Nat /\ 10 >= 2
    BY <1>1, <1>13
  <2>2. max_digits10 < L - 1 => 10^max_digits10 < 10^(L - 1)
    BY <1>1, <2>1, PowerOrder
  <2>3. 10^max_digits10 \in Nat /\ 10^(L - 1) \in Nat
    BY <1>1, <2>1
  <2>4. sig < 10^max_digits10
    BY <1>4, <2>3
  <2>5. max_digits10 = L - 1 => FALSE
    BY <1>4, <1>13, <2>3, <2>4
  <2> QED BY <1>1, <1>4, <1>13, <2>1, <2>2, <2>3, <2>4, <2>5
<1>15. L \in 1..max_digits10
  BY <1>1, <1>13, <1>14
<1> QED BY <1>13, <1>15 DEF L

-----------------------------------------------------------------------------
(* The padded significand has max_digits10 digits.                         *)
LEMMA PaddedBound ==
  ASSUME NEW sig \in 1 .. 10^max_digits10 - 1
  PROVE  /\ PaddedSig(sig) \in Nat
         /\ 10^(max_digits10 - 1) <= PaddedSig(sig)
         /\ PaddedSig(sig) < 10^max_digits10
<1> DEFINE M == max_digits10
           L == DecLen(sig)
           x == 10^(M - L)
           y == 10^(L - 1)
           z == 10^L
<1>1. M \in Nat \ {0} /\ sig \in Nat
  BY TensPowers
<1>2. L \in 1..M /\ y <= sig /\ sig < z
  BY DecLenExact
<1> HIDE DEF L
<1>3. x \in Nat \ {0} /\ y \in Nat \ {0} /\ z \in Nat \ {0}
  <2>1. M - L \in 0..M /\ L - 1 \in 0..M /\ L \in 0..M
    BY <1>1, <1>2
  <2> QED BY <2>1, TensStep
<1>4. 10^(M - 1) = y * x /\ 10^M = z * x
  <2>1. M - L \in Nat /\ L - 1 \in Nat /\ L \in Nat
        /\ (L - 1) + (M - L) = M - 1 /\ L + (M - L) = M
        /\ M - 1 <= M + 1 /\ M <= M + 1
    BY <1>1, <1>2
  <2>2. 10^((L - 1) + (M - L)) = 10^(L - 1) * 10^(M - L)
    BY <2>1, WidthTens, TensSum
  <2>3. 10^(L + (M - L)) = 10^L * 10^(M - L)
    BY <2>1, WidthTens, TensSum
  <2> QED BY <2>1, <2>2, <2>3
<1>5. PaddedSig(sig) = sig * x
  BY DEF PaddedSig, L
<1> HIDE DEF x, y, z, M
<1>6. sig * x \in Nat
  BY <1>1, <1>3
<1>7. y * x <= sig * x
  BY <1>1, <1>2, <1>3, ProductOrder
<1>8. sig * x < z * x
  BY <1>1, <1>2, <1>3, ProductOrder
<1> QED BY <1>4, <1>5, <1>6, <1>7, <1>8 DEF M

(* write() leaves either the first half of the padded digits or all of     *)
(* them, and what it leaves out is zero.                                   *)
LEMMA WrittenDigitsAre ==
  ASSUME NEW sig \in 1 .. 10^max_digits10 - 1
  PROVE  LET P == PaddedSig(sig)
             w == WrittenDigits(sig)
             n == Len(w)
         IN /\ n \in 1 .. max_digits10
            /\ w \in [1..n -> 0..9]
            /\ \A i \in 1..n : w[i] = (P \div 10^(max_digits10 - i)) % 10
            /\ P % 10^(max_digits10 - n) = 0
<1> DEFINE M  == max_digits10
           H  == half_digits
           P  == PaddedSig(sig)
           y  == 10^H
           hi == PaddedDigits(P \div y, H + 1)
           lo == PaddedDigits(P % y, H)
           w  == WrittenDigits(sig)
           D(i) == (P \div 10^(M - i)) % 10
<1>1. M \in Nat \ {0} /\ H \in Nat /\ M = 2 * H + 1
  <2>1. M \in Nat \ {0} /\ M % 2 = 1
    BY TensPowers, WidthAssumption
  <2> HIDE DEF M
  <2>2. (M - 1) \div 2 \in Nat /\ M = 2 * ((M - 1) \div 2) + 1
    BY <2>1
  <2> QED BY <2>1, <2>2 DEF half_digits, M
<1>2. P \in Nat
  BY PaddedBound
<1> HIDE DEF M, H, P
<1>3. y \in Nat \ {0}
  <2>1. H \in 0..M
    BY <1>1
  <2> QED BY <2>1, TensStep DEF M
<1>4. P % y \in Nat /\ P \div y \in Nat
  <2> HIDE DEF y
  <2>1. P % y \in 0 .. y - 1 /\ P \div y \in Nat
    BY <1>2, <1>3, Division
  <2> QED BY <1>3, <2>1
<1>5. \A i \in 1..M : D(i) \in 0..9
  <2> SUFFICES ASSUME NEW i \in 1..M PROVE D(i) \in 0..9
    OBVIOUS
  <2>1. M - i \in 0..M
    BY <1>1
  <2> QED BY <1>2, <2>1, WidthTens, NextDigit DEF M
<1>6. hi = [i \in 1 .. H + 1 |-> D(i)]
  <2>1. ASSUME NEW i \in 1 .. H + 1
        PROVE  ((P \div y) \div 10^((H + 1) - i)) % 10 = D(i)
    <3> DEFINE x == 10^((H + 1) - i)
    <3>1. (H + 1) - i \in Nat /\ (H + 1) - i \in 0..M /\ H + ((H + 1) - i) = M - i
          /\ H + ((H + 1) - i) <= M + 1
      BY <1>1
    <3>2. x \in Nat \ {0}
      BY <3>1, TensStep DEF M
    <3>3. 10^(M - i) = y * x
      <4>1. 10^(H + ((H + 1) - i)) = y * x
        BY <1>1, <3>1, WidthTens, TensSum DEF M
      <4> QED BY <3>1, <4>1
    <3> HIDE DEF x, y
    <3>4. (P \div y) \div x = P \div (y * x)
      BY <1>2, <1>3, <3>2, DivisionTwice
    <3> QED BY <3>3, <3>4 DEF x
  <2> HIDE DEF D
  <2>2. hi = [i \in 1 .. H + 1 |-> ((P \div y) \div 10^((H + 1) - i)) % 10]
    BY DEF PaddedDigits
  <2> QED BY <2>1, <2>2
<1>7. lo = [i \in 1..H |-> D(H + 1 + i)]
  <2>1. ASSUME NEW i \in 1..H
        PROVE  ((P % y) \div 10^(H - i)) % 10 = D(H + 1 + i)
    <3>1. H - i \in 0 .. H - 1 /\ H \in 0..M /\ M - (H + 1 + i) = H - i
      BY <1>1
    <3>2. ((P % 10^H) \div 10^(H - i)) % 10 = (P \div 10^(H - i)) % 10
      BY <1>2, <3>1, WidthTens, DigitOfRest DEF M
    <3> QED BY <3>1, <3>2
  <2> HIDE DEF D
  <2>2. lo = [i \in 1..H |-> ((P % y) \div 10^(H - i)) % 10]
    BY DEF PaddedDigits
  <2> QED BY <2>1, <2>2
<1>8. w = IF P % y # 0 THEN hi \o lo ELSE hi
  BY DEF WrittenDigits, P, H
<1> HIDE DEF w, y, hi, lo, D
<1>9. hi \in Seq(0..9) /\ lo \in Seq(0..9) /\ Len(hi) = H + 1 /\ Len(lo) = H
  <2>1. \A i \in 1 .. H + 1 : D(i) \in 0..9
    BY <1>1, <1>5
  <2>2. \A i \in 1..H : D(H + 1 + i) \in 0..9
    BY <1>1, <1>5
  <2>3. H + 1 \in Nat
    BY <1>1
  <2>4. [i \in 1 .. H + 1 |-> D(i)] \in Seq(0..9)
        /\ Len([i \in 1 .. H + 1 |-> D(i)]) = H + 1
    BY <2>1, <2>3
  <2>5. [i \in 1..H |-> D(H + 1 + i)] \in Seq(0..9)
        /\ Len([i \in 1..H |-> D(H + 1 + i)]) = H
    BY <1>1, <2>2
  <2> QED BY <1>6, <1>7, <2>4, <2>5
<1>10. CASE P % y # 0
  <2>1. w = hi \o lo
    BY <1>8, <1>10
  <2>2. /\ w \in Seq(0..9) /\ Len(w) = M
        /\ \A i \in 1..M : w[i] = IF i <= H + 1 THEN hi[i] ELSE lo[i - (H + 1)]
    <3>1. /\ w \in Seq(0..9) /\ Len(w) = Len(hi) + Len(lo)
          /\ \A i \in 1 .. Len(hi) + Len(lo) :
               w[i] = IF i <= Len(hi) THEN hi[i] ELSE lo[i - Len(hi)]
      BY <1>9, <2>1, ConcatProperties
    <3> QED BY <1>1, <1>9, <3>1
  <2>3. ASSUME NEW i \in 1..M PROVE w[i] = D(i)
    <3>1. CASE i \in 1 .. H + 1
      <4>1. w[i] = hi[i]
        BY <1>1, <2>2, <3>1
      <4> QED BY <1>6, <3>1, <4>1
    <3>2. CASE i \notin 1 .. H + 1
      <4>1. i - (H + 1) \in 1..H /\ ~(i <= H + 1)
            /\ H + 1 + (i - (H + 1)) = i
        BY <1>1, <1>9, <3>2
      <4>2. w[i] = lo[i - (H + 1)]
        BY <2>2, <4>1
      <4> QED BY <1>7, <4>1, <4>2
    <3> QED BY <3>1, <3>2
  <2>4. P % 10^(M - M) = 0
    <3>1. M - M = 0
      BY <1>1
    <3>2. 10^(M - M) = 1
      BY <3>1, 10^0 = 1
    <3> QED BY <1>2, <3>2
  <2>5. w \in [1..M -> 0..9]
    BY <2>2
  <2> QED BY <1>1, <2>2, <2>3, <2>4, <2>5 DEF w, P, M, D
<1>11. CASE P % y = 0
  <2>1. w = hi
    BY <1>8, <1>11
  <2>2. Len(w) = H + 1 /\ w \in [1 .. H + 1 -> 0..9]
    BY <1>9, <2>1
  <2>3. \A i \in 1 .. H + 1 : w[i] = D(i)
    BY <1>6, <2>1
  <2>4. H + 1 \in 1..M /\ M - (H + 1) = H
    BY <1>1
  <2> QED BY <1>11, <2>2, <2>3, <2>4 DEF w, P, M, D, y
<1> QED BY <1>10, <1>11

(* What StripZeros leaves ends in the last digit that is not zero.         *)
LEMMA StripZerosAre ==
  ASSUME NEW n \in Nat \ {0}, NEW w \in [1..n -> 0..9], w[1] # 0
  PROVE  \E last \in 1..n :
           /\ w[last] # 0
           /\ \A m \in last + 1 .. n : w[m] = 0
           /\ StripZeros(w) \in Seq(0..9)
           /\ Len(StripZeros(w)) = last
           /\ \A i \in 1..last : StripZeros(w)[i] = w[i]
<1> DEFINE Last(m) == /\ m = 1 \/ w[m] # 0
                      /\ \A j \in m + 1 .. Len(w) : w[j] = 0
           last == CHOOSE m \in 1 .. Len(w) : Last(m)
<1>1. Len(w) = n
  OBVIOUS
<1>2. \E m \in 1 .. Len(w) : Last(m)
  <2> DEFINE T == {m \in 1..n : w[m] # 0}
  <2>1. T \subseteq 0..n /\ 1 \in T
    OBVIOUS
  <2> HIDE DEF T
  <2>2. PICK x \in T : \A y \in T : y <= x
    BY <2>1, GreatestNatural
  <2>3. x \in 1..n /\ w[x] # 0
    BY <2>2 DEF T
  <2>4. \A j \in x + 1 .. n : w[j] = 0
    <3> SUFFICES ASSUME NEW j \in x + 1 .. n, w[j] # 0 PROVE FALSE
      OBVIOUS
    <3>1. j \in T
      BY <2>3 DEF T
    <3>2. j <= x
      BY <2>2, <3>1
    <3> QED BY <2>3, <3>2
  <2> QED BY <1>1, <2>3, <2>4
<1>3. last \in 1 .. Len(w) /\ Last(last)
  <2> HIDE DEF Last
  <2> QED BY <1>2
<1>4. StripZeros(w) = SubSeq(w, 1, last)
  BY DEF StripZeros
<1> HIDE DEF last
<1>5. /\ StripZeros(w) \in Seq(0..9)
      /\ Len(StripZeros(w)) = last
      /\ \A i \in 1..last : StripZeros(w)[i] = w[i]
  <2>1. \A i \in 1..last : w[i] \in 0..9
    BY <1>1, <1>3
  <2>2. last \in Int /\ 1 <= last /\ (last - 1) + 1 = last /\ 1 \in Int
    BY <1>1, <1>3
  <2>3. /\ SubSeq(w, 1, last) \in Seq(0..9)
        /\ Len(SubSeq(w, 1, last)) = IF 1 <= last THEN (last - 1) + 1 ELSE 0
        /\ \A i \in 1 .. (last - 1) + 1 : SubSeq(w, 1, last)[i] = w[(1 + i) - 1]
    BY <2>1, <2>2, SubSeqProperties
  <2>4. \A i \in 1..last : (1 + i) - 1 = i
    OBVIOUS
  <2> QED BY <1>4, <2>2, <2>3, <2>4
<1> QED BY <1>1, <1>3, <1>5

(* The digits of the text make the significand, its zeros at the end moved *)
(* into the exponent.                                                      *)
LEMMA TextDigits ==
  ASSUME NEW sig \in 1 .. 10^max_digits10 - 1
  PROVE  LET digits == StripZeros(WrittenDigits(sig))
             D      == DigitsValue(digits)
             last   == Len(digits)
         IN /\ digits \in Seq(0..9)
            /\ last \in 1 .. Len(WrittenDigits(sig))
            /\ Len(WrittenDigits(sig)) <= max_digits10
            /\ digits[1] # 0
            /\ digits[last] # 0
            /\ D \in Nat
            /\ D % 10 # 0
            /\ 10^(last - 1) <= D
            /\ D < 10^last
            /\ \E z \in Nat : last + z = DecLen(sig) /\ sig = D * 10^z
<1> DEFINE M == max_digits10
           P == PaddedSig(sig)
           w == WrittenDigits(sig)
           n == Len(w)
           L == DecLen(sig)
           First(j) == P \div 10^(M - j)
<1>1. /\ n \in 1..M
      /\ w \in [1..n -> 0..9]
      /\ \A i \in 1..n : w[i] = First(i) % 10
      /\ P % 10^(M - n) = 0
  BY WrittenDigitsAre
<1>2. P \in Nat /\ 10^(M - 1) <= P /\ P < 10^M
  BY PaddedBound
<1>3. M \in Nat \ {0} /\ sig \in Nat \ {0}
  BY TensPowers
<1>4. L \in 1..M
  BY DecLenExact
<1>5. P = sig * 10^(M - L)
  BY DEF PaddedSig
<1> HIDE DEF M, P, w, L
<1>6. \A i \in 0..M : 10^i \in Nat \ {0}
  BY TensStep DEF M
<1>7. \A j \in 1..M : First(j) \in Nat /\ First(j) = 10 * First(j - 1) + (First(j) % 10)
  <2> SUFFICES ASSUME NEW j \in 1..M
               PROVE  First(j) \in Nat /\ First(j) = 10 * First(j - 1) + (First(j) % 10)
    OBVIOUS
  <2>1. M - j \in 0..M /\ (M - j) + 1 = M - (j - 1)
    BY <1>3
  <2> DEFINE a == M - j
  <2>2. a \in 0..max_digits10 /\ a + 1 = M - (j - 1)
    BY <2>1 DEF M
  <2> HIDE DEF a
  <2>3. /\ P \div 10^a \in Nat
        /\ P \div 10^a = 10 * (P \div 10^(a + 1)) + ((P \div 10^a) % 10)
    BY <1>2, <2>2, WidthTens, NextDigit
  <2> QED BY <2>2, <2>3 DEF a
<1>8. First(0) = 0
  <2> DEFINE y == 10^M
  <2>1. y \in Nat \ {0} /\ P < y /\ M - 0 = M
    BY <1>2, <1>3, <1>6
  <2>2. P \div y = 0
    <3> HIDE DEF y
    <3>1. y * 0 + P = P /\ 0 \in Nat /\ P \in 0 .. y - 1
      BY <1>2, <2>1
    <3> QED BY <2>1, <3>1, DivisionUnique
  <2> QED BY <2>1, <2>2
<1>9. w[1] # 0
  <2> DEFINE y == 10^(M - 1)
             f == P \div y
             r == P % y
  <2>1. y \in Nat \ {0} /\ 10^M = 10 * y
    <3>1. M - 1 \in 0 .. max_digits10 /\ (M - 1) + 1 = M
      BY <1>3 DEF M
    <3> QED BY <3>1, TensStep
  <2>2. f \in Nat /\ r \in 0 .. y - 1 /\ P = y * f + r
    <3> HIDE DEF y
    <3> QED BY <1>2, <2>1, Division
  <2> HIDE DEF f, r
  <2>3. f # 0 /\ f < 10
    <3> HIDE DEF y
    <3>1. y <= P /\ P < 10 * y
      BY <1>2, <2>1 DEF y
    <3>2. f # 0
      <4> SUFFICES ASSUME f = 0 PROVE FALSE
        OBVIOUS
      <4>1. y * f = 0
        BY <2>1
      <4> QED BY <2>1, <2>2, <3>1, <4>1
    <3>3. ~(f >= 10)
      <4> SUFFICES ASSUME f >= 10 PROVE FALSE
        OBVIOUS
      <4>1. 10 * y <= f * y
        BY <2>1, <2>2, MonotoneProduct
      <4>2. f * y = y * f /\ y * f \in Nat
        BY <2>1, <2>2
      <4> QED BY <2>1, <2>2, <3>1, <4>1, <4>2
    <3> QED BY <2>2, <3>2, <3>3
  <2>4. w[1] = f % 10
    BY <1>1 DEF f
  <2> QED BY <2>2, <2>3, <2>4
<1>10. PICK last \in 1..n :
          /\ w[last] # 0
          /\ \A m \in last + 1 .. n : w[m] = 0
          /\ StripZeros(w) \in Seq(0..9)
          /\ Len(StripZeros(w)) = last
          /\ \A i \in 1..last : StripZeros(w)[i] = w[i]
  <2>1. n \in Nat \ {0}
    BY <1>1, <1>3
  <2> HIDE DEF n
  <2> QED BY <1>1, <1>9, <2>1, StripZerosAre
<1> DEFINE digits == StripZeros(w)
           D == First(last)
<1>11. last \in 1..M /\ last <= n /\ n <= M
  BY <1>1, <1>3, <1>10
<1>12. D \in Nat /\ w[last] = D % 10 /\ D % 10 # 0
  <2>1. w[last] = First(last) % 10
    BY <1>1, <1>10
  <2> HIDE DEF First
  <2> QED BY <1>7, <1>10, <1>11, <2>1
<1>13. DigitsValue(digits) = D
  <2> DEFINE g == [i \in 0..last |-> First(i)]
  <2>1. ASSUME NEW i \in 0..last
        PROVE  First(i) = IF i = 0 THEN 0 ELSE 10 * g[i - 1] + digits[i]
    <3>1. CASE i = 0
      BY <1>8, <3>1
    <3>2. CASE i # 0
      <4>1. i \in 1..M /\ i \in 1..n /\ i \in 1..last /\ i - 1 \in 0..last
        BY <1>1, <1>3, <1>11, <3>2
      <4>2. digits[i] = First(i) % 10
        BY <1>1, <1>10, <4>1
      <4>3. g[i - 1] = First(i - 1)
        BY <4>1
      <4>4. First(i) = 10 * First(i - 1) + (First(i) % 10)
        BY <1>7, <4>1
      <4> HIDE DEF First, digits, g
      <4> QED BY <3>2, <4>2, <4>3, <4>4
    <3> QED BY <3>1, <3>2
  <2>2. g = [i \in 0..last |-> IF i = 0 THEN 0 ELSE 10 * g[i - 1] + digits[i]]
    <3> DEFINE e(i) == IF i = 0 THEN 0 ELSE 10 * g[i - 1] + digits[i]
    <3>1. \A i \in 0..last : First(i) = e(i)
      BY <2>1
    <3> HIDE DEF e, First
    <3>2. g = [i \in 0..last |-> e(i)]
      BY <3>1
    <3> QED BY <3>2 DEF e
  <2>3. last \in Nat /\ Len(digits) = last /\ g[last] = D
    BY <1>3, <1>10, <1>11
  <2> HIDE DEF g, digits, D, First
  <2>4. DigitsValue(digits) = g[last]
    BY <2>2, <2>3, DigitsValueIs
  <2> QED BY <2>3, <2>4
<1>14. P = D * 10^(M - last)
  <2> DEFINE S == {m \in Nat : P = First(n - m) * 10^((M - n) + m)}
             N == n - last
  <2>1. 0 \in S
    <3> DEFINE y == 10^(M - n)
               f == P \div y
    <3>1. y \in Nat \ {0}
      <4>1. M - n \in 0..M
        BY <1>1, <1>3
      <4> QED BY <1>6, <4>1
    <3>2. f \in Nat /\ P = y * f
      <4> HIDE DEF y
      <4>1. P = y * (P \div y) + (P % y) /\ P \div y \in Nat
        BY <1>2, <3>1, Division
      <4>2. P % y = 0
        BY <1>1 DEF y
      <4>3. y * (P \div y) \in Nat
        BY <3>1, <4>1
      <4> QED BY <4>1, <4>2, <4>3
    <3>3. n - 0 = n /\ (M - n) + 0 = M - n
      BY <1>1, <1>3
    <3>4. P = f * y
      <4> HIDE DEF f, y
      <4> QED BY <3>1, <3>2
    <3> QED BY <3>3, <3>4
  <2>2. ASSUME NEW m \in 0 .. N - 1, m \in S PROVE m + 1 \in S
    <3>1. /\ n - m \in 1..n /\ n - m \in 1..M /\ n - m \in last + 1 .. n
          /\ (n - m) - 1 = n - (m + 1) /\ (M - n) + m \in 0 .. M
          /\ ((M - n) + m) + 1 = (M - n) + (m + 1)
      BY <1>1, <1>3, <1>11
    <3> DEFINE x == First(n - (m + 1))
               y == 10^((M - n) + m)
               z == First(n - m)
    <3>2. z = 10 * x
      <4>1. First(n - m) = 10 * First((n - m) - 1) + (First(n - m) % 10)
        BY <1>7, <3>1
      <4>2. w[n - m] = First(n - m) % 10
        BY <1>1, <3>1
      <4>3. First(n - m) % 10 = 0
        BY <1>10, <3>1, <4>2
      <4>4. x \in Nat
        <5>1. n - (m + 1) \in 1..M
          BY <1>1, <1>3, <1>11
        <5> QED BY <1>7, <5>1
      <4>5. First(n - m) = 10 * x + 0
        BY <3>1, <4>1, <4>3
      <4> HIDE DEF x
      <4> QED BY <4>4, <4>5
    <3>3. 10^((M - n) + (m + 1)) = 10 * y /\ y \in Nat
      <4> DEFINE a == (M - n) + m
      <4>1. a \in 0..max_digits10 /\ a + 1 = (M - n) + (m + 1)
        BY <3>1 DEF M
      <4> HIDE DEF a
      <4>2. 10^(a + 1) = 10 * 10^a /\ 10^a \in Nat
        BY <4>1, TensStep
      <4> QED BY <4>1, <4>2 DEF a
    <3>4. P = z * y
      BY <2>2
    <3>5. x \in Nat
      <4>1. n - (m + 1) \in 1..M
        BY <1>1, <1>3, <1>11
      <4> QED BY <1>7, <4>1
    <3>6. P = x * 10^((M - n) + (m + 1))
      <4> HIDE DEF x, y, z
      <4>1. z * y = x * (10 * y)
        BY <3>2, <3>3, <3>5
      <4> QED BY <3>3, <3>4, <4>1
    <3>7. m + 1 \in Nat
      OBVIOUS
    <3> HIDE DEF First
    <3> QED BY <3>6, <3>7
  <2>3. N \in Nat /\ n - N = last /\ (M - n) + N = M - last /\ N \in 0..N
    BY <1>1, <1>3, <1>11
  <2> HIDE DEF S, N
  <2>4. \A m \in 0..N : m \in S
    BY <2>1, <2>2, <2>3, IntervalInduction
  <2>5. P = First(n - N) * 10^((M - n) + N)
    BY <2>3, <2>4 DEF S
  <2> QED BY <2>3, <2>5
<1> HIDE DEF D, digits, n, First
<1>15. 10^(last - 1) <= D /\ D < 10^last
  <2> DEFINE x == 10^(M - last)
             y == 10^(last - 1)
             z == 10^last
  <2>1. x \in Nat \ {0} /\ y \in Nat \ {0} /\ z \in Nat \ {0}
    <3>1. M - last \in 0..M /\ last - 1 \in 0..M /\ last \in 0..M
      BY <1>3, <1>11
    <3> QED BY <1>6, <3>1
  <2>2. 10^(M - 1) = y * x /\ 10^M = z * x
    <3>1. M - last \in Nat /\ last - 1 \in Nat /\ last \in Nat
          /\ (last - 1) + (M - last) = M - 1 /\ last + (M - last) = M
          /\ M - 1 <= M + 1 /\ M <= M + 1
      BY <1>3, <1>11
    <3>2. 10^((last - 1) + (M - last)) = y * x
      BY <3>1, WidthTens, TensSum DEF M
    <3>3. 10^(last + (M - last)) = z * x
      BY <3>1, WidthTens, TensSum DEF M
    <3> QED BY <3>1, <3>2, <3>3
  <2> DEFINE u == 10^(M - 1)
             v == 10^M
  <2>3. u = y * x /\ v = z * x /\ u <= D * x /\ D * x < v
    BY <1>2, <1>14, <2>2
  <2> HIDE DEF x, y, z, u, v
  <2>4. y <= D <=> y * x <= D * x
    BY <1>12, <2>1, ProductOrder
  <2>5. D < z <=> D * x < z * x
    BY <1>12, <2>1, ProductOrder
  <2>6. y <= D /\ D < z
    BY <2>3, <2>4, <2>5
  <2> QED BY <2>6 DEF y, z
<1>16. last <= L
  <2> SUFFICES ASSUME ~(last <= L) PROVE FALSE
    OBVIOUS
  <2> DEFINE a == (last - L) - 1
             x == 10^(M - last)
             y == 10^a
             m == sig * y
  <2>1. a \in 0..M /\ a + 1 \in Nat /\ M - last \in Nat /\ M - last \in 0..M
        /\ (a + 1) + (M - last) = M - L /\ M - L <= M + 1
    BY <1>3, <1>4, <1>11
  <2>2. x \in Nat \ {0} /\ y \in Nat \ {0} /\ 10^(a + 1) = 10 * y
    <3> HIDE DEF a
    <3>1. 10^(a + 1) = 10 * y
      BY <2>1, TensStep DEF M
    <3> QED BY <1>6, <2>1, <3>1
  <2>3. 10^(M - L) = (10 * y) * x
    <3> HIDE DEF a
    <3>1. 10^((a + 1) + (M - last)) = 10^(a + 1) * x
      BY <2>1, WidthTens, TensSum DEF M
    <3> QED BY <2>1, <2>2, <3>1
  <2> HIDE DEF a, x, y
  <2>4. m \in Nat /\ sig * ((10 * y) * x) = (10 * m) * x
    BY <1>3, <2>2
  <2> HIDE DEF m
  <2>5. D * x = (10 * m) * x
    BY <1>5, <1>14, <2>3, <2>4 DEF x
  <2>6. 10 * m \in Nat
    BY <2>4
  <2>7. D = 10 * m
    BY <1>12, <2>2, <2>5, <2>6, ProductOrder
  <2> QED BY <1>12, <2>4, <2>7
<1>17. sig = D * 10^(L - last)
  <2> DEFINE a == L - last
             x == 10^a
             y == 10^(M - L)
  <2>1. a \in Nat /\ M - L \in Nat /\ a + (M - L) = M - last /\ M - last <= M + 1
        /\ a \in 0..M /\ M - L \in 0..M
    BY <1>3, <1>4, <1>11, <1>16
  <2>2. x \in Nat \ {0} /\ y \in Nat \ {0}
    BY <1>6, <2>1
  <2>3. 10^(M - last) = x * y
    <3> HIDE DEF a
    <3>1. 10^(a + (M - L)) = x * y
      BY <2>1, WidthTens, TensSum DEF M
    <3> QED BY <2>1, <3>1
  <2>4. sig * y = D * (x * y)
    BY <1>5, <1>14, <2>3
  <2> HIDE DEF x, y
  <2>5. D * (x * y) = (D * x) * y /\ D * x \in Nat
    BY <1>12, <2>2
  <2>6. sig = D * x
    BY <1>3, <2>2, <2>4, <2>5, ProductOrder
  <2> QED BY <2>6 DEF x
<1>18. L - last \in Nat /\ last + (L - last) = L
  BY <1>4, <1>11, <1>16
<1>19. /\ digits \in Seq(0..9) /\ Len(digits) = last
       /\ digits[1] # 0 /\ digits[last] # 0
  <2>1. 1 \in 1..last /\ last \in 1..last
    BY <1>11
  <2> QED BY <1>9, <1>10, <2>1 DEF digits
<1>20. /\ digits \in Seq(0..9)
       /\ Len(digits) \in 1..n /\ n <= M
       /\ digits[1] # 0
       /\ digits[Len(digits)] # 0
       /\ DigitsValue(digits) \in Nat
       /\ DigitsValue(digits) % 10 # 0
       /\ 10^(Len(digits) - 1) <= DigitsValue(digits)
       /\ DigitsValue(digits) < 10^Len(digits)
       /\ \E z \in Nat : Len(digits) + z = L /\ sig = DigitsValue(digits) * 10^z
  BY <1>10, <1>11, <1>12, <1>13, <1>15, <1>17, <1>18, <1>19
<1> QED BY <1>20 DEF digits, n, w, L, M

(* The contract reads numbers with definitions of its own, the same ones.  *)
LEMMA SameComparisons ==
  ASSUME NEW d, NEW k, NEW n, NEW q
  PROVE  /\ Contract!DecimalLeq(d, k, n, q) <=> DecimalLeq(d, k, n, q)
         /\ Contract!DecimalGeq(d, k, n, q) <=> DecimalGeq(d, k, n, q)
<1>1. Contract!Tens(q, k) = Tens(q, k) /\ Contract!Twos(q, k) = Twos(q, k)
  BY DEF Contract!Tens, Contract!Twos, Contract!Positive, Tens, Twos, Positive
<1>2. \A a, b, c, e : Contract!LeqProd(a, b, c, e) <=> LeqProd(a, b, c, e)
  BY DEF Contract!LeqProd, Contract!High, Contract!Low, Contract!Limb,
         LeqProd, High, Low, Limb
<1> QED BY <1>1, <1>2 DEF Contract!DecimalLeq, Contract!DecimalGeq, DecimalLeq, DecimalGeq

LEMMA SameFields ==
  ASSUME NEW v
  PROVE  /\ Contract!IsOrdinary(v) <=> IsOrdinary(v)
         /\ Contract!IsSpecial(v) <=> IsSpecial(v)
         /\ Contract!IsZero(v) <=> IsZero(v)
         /\ Contract!BinSig(v) = BinSig(v)
         /\ Contract!BinExp(v) = BinExp(v)
         /\ Contract!LowerQuarters(v) = LowerQuarters(v)
         /\ Contract!UpperQuarters(v) = UpperQuarters(v)
BY DEF Contract!IsOrdinary, Contract!IsSpecial, Contract!IsZero, Contract!BinSig,
       Contract!BinExp, Contract!LowerQuarters, Contract!UpperQuarters,
       Contract!HalfGapBelow, Contract!implicit_bit, Contract!exp_offset,
       IsOrdinary, IsSpecial, IsZero, BinSig, BinExp, LowerQuarters, UpperQuarters,
       HalfGapBelow, implicit_bit, exp_offset

LEMMA SameReading ==
  ASSUME NEW v
  PROVE  /\ \A d, k : Contract!RoundTrips(v, d, k) <=> RoundTrips(v, d, k)
         /\ \A d, e, k : Contract!Closer(v, d, e, k) <=> Closer(v, d, e, k)
         /\ \A d, k, len : Contract!HasShorter(v, d, k, len) <=> HasShorter(v, d, k, len)
         /\ \A d, k, len : Contract!HasCloser(v, d, k, len) <=> HasCloser(v, d, k, len)
         /\ \A s : Contract!DigitsValue(s) = DigitsValue(s)
<1>1. \A d, k : Contract!RoundTrips(v, d, k) <=> RoundTrips(v, d, k)
  BY SameComparisons, SameFields DEF Contract!RoundTrips, RoundTrips
<1>2. \A d, e, k : Contract!Closer(v, d, e, k) <=> Closer(v, d, e, k)
  BY SameComparisons, SameFields
     DEF Contract!Closer, Contract!MidpointBelow, Contract!MidpointAbove,
         Closer, MidpointBelow, MidpointAbove
<1>3. \A d, k, len : Contract!HasShorter(v, d, k, len) <=> HasShorter(v, d, k, len)
  BY <1>1 DEF Contract!HasShorter, HasShorter
<1>4. \A d, k, len : Contract!HasCloser(v, d, k, len) <=> HasCloser(v, d, k, len)
  BY <1>1, <1>2 DEF Contract!HasCloser, HasCloser
<1>5. \A s : Contract!DigitsValue(s) = DigitsValue(s)
  BY DEF Contract!DigitsValue, DigitsValue
<1> QED BY <1>1, <1>2, <1>3, <1>4, <1>5

-----------------------------------------------------------------------------
ContractInv ==
  /\ IInv
  /\ pc = "idle" => value = NoValue
  /\ text = NoText <=> pc # "done"
  /\ pc = "write" => Best(value, dec_sig, dec_exp)

(* The words of the special values.                                        *)
LEMMA SpecialText ==
  ASSUME ContractInv, Special
  PROVE  text' \in Contract!Text /\ Contract!Acceptable(value, text')
<1>1. value \in Double /\ ~IsOrdinary(value) /\ value \in Arguments
  BY FormatAssumption DEF ContractInv, IInv, Special
<1>2. /\ value.negative \in BOOLEAN /\ value.exp \in Nat /\ exp_mask \in Nat \ {0}
  BY <1>1, FormatAssumption DEF Double
<1> DEFINE word == IF value.exp # 0 THEN IF value.sig = 0 THEN "inf" ELSE "nan"
                                    ELSE "0"
<1>3. text' = [negative |-> value.negative, word |-> word]
  BY DEF Special
<1>4. word = Contract!WordOf(value)
  <2>1. IsSpecial(value) \/ IsZero(value)
    BY <1>1 DEF IsOrdinary
  <2>2. CASE IsSpecial(value)
    <3>1. value.exp # 0 /\ ~IsZero(value)
      BY <1>2, <2>2 DEF IsSpecial, IsZero
    <3>2. CASE value.sig = 0
      BY <2>2, <3>1, <3>2, SameFields DEF Contract!WordOf
    <3>3. CASE value.sig # 0
      BY <2>2, <3>1, <3>3, SameFields DEF Contract!WordOf
    <3> QED BY <3>2, <3>3
  <2>3. CASE ~IsSpecial(value) /\ IsZero(value)
    BY <2>3, SameFields DEF Contract!WordOf, IsZero
  <2> QED BY <2>1, <2>2, <2>3
<1>5. word \in Contract!Word
  BY DEF Contract!Word
<1> HIDE DEF word
<1>6. text' \in Contract!Text
  BY <1>2, <1>3, <1>5 DEF Contract!Text
<1>7. text'.negative = value.negative /\ "word" \in DOMAIN text' /\ text'.word = word
  BY <1>3
<1> QED BY <1>1, <1>4, <1>6, <1>7, SameFields DEF Contract!Acceptable

(* The digits of an ordinary value.                                        *)
LEMMA WrittenText ==
  ASSUME ContractInv, Write
  PROVE  text' \in Contract!Text /\ Contract!Acceptable(value, text')
<1> DEFINE digits == StripZeros(WrittenDigits(dec_sig))
           L      == DecLen(dec_sig)
           exp    == dec_exp + L - 1
           D      == DigitsValue(digits)
           len    == Len(digits)
<1>1. /\ value \in Ordinary /\ dec_exp \in Int /\ value \in Double
      /\ Best(value, dec_sig, dec_exp)
  BY FormatAssumption DEF ContractInv, IInv, TypeOK, Write, Decoded, Ordinary
<1>2. dec_sig \in 1 .. 10^max_digits10 - 1
  BY <1>1 DEF Best
<1>3. text' = [negative |-> value.negative, digits |-> digits, exp |-> exp]
  BY DEF Write
<1>4. /\ digits \in Seq(0..9)
      /\ len \in 1 .. Len(WrittenDigits(dec_sig))
      /\ digits[1] # 0
      /\ digits[len] # 0
      /\ D \in Nat /\ D % 10 # 0
      /\ 10^(len - 1) <= D /\ D < 10^len
  BY <1>2, TextDigits
<1>5. PICK z \in Nat : len + z = L /\ dec_sig = D * 10^z
  BY <1>2, TextDigits
<1>6. L \in 1..max_digits10 /\ max_digits10 \in Nat
  BY <1>2, DecLenExact, TensPowers
<1>7. len \in Nat \ {0}
  <2>1. len \in Nat
    BY <1>4
  <2> QED BY <1>4, <2>1
<1> HIDE DEF L, D, len, digits
<1>8. exp \in Int /\ exp - (len - 1) = dec_exp + z /\ len + z <= max_digits10
  BY <1>1, <1>5, <1>6, <1>7
<1>9. /\ RoundTrips(value, D, dec_exp + z)
      /\ ~HasShorter(value, D, dec_exp + z, len)
      /\ ~HasCloser(value, D, dec_exp + z, len)
  BY <1>1, <1>4, <1>5, <1>7, <1>8, BestIsBestDecimal, BestIsShortest
<1> HIDE DEF exp
<1>10. Contract!IsShortest(value, digits, exp)
  <2>1. /\ Contract!DigitsValue(digits) = D
        /\ Contract!RoundTrips(value, D, dec_exp + z)
        /\ ~Contract!HasShorter(value, D, dec_exp + z, len)
        /\ ~Contract!HasCloser(value, D, dec_exp + z, len)
    BY <1>9, SameReading DEF D
  <2>2. len = Len(digits) /\ len > 0
    BY <1>7 DEF len
  <2> QED BY <1>4, <1>8, <2>1, <2>2 DEF Contract!IsShortest
<1>11. value.negative \in BOOLEAN
  BY <1>1 DEF Double
<1>12. text' \in Contract!Text
  BY <1>3, <1>4, <1>8, <1>11 DEF Contract!Text
<1>13. /\ text'.negative = value.negative /\ "digits" \in DOMAIN text'
       /\ text'.digits = digits /\ text'.exp = exp
  BY <1>3
<1>14. Contract!IsOrdinary(value)
  BY <1>1, SameFields DEF Ordinary
<1> QED BY <1>10, <1>12, <1>13, <1>14 DEF Contract!Acceptable

LEMMA InitContractInv == Init => ContractInv
BY InitIInv DEF Init, ContractInv

LEMMA NextContractInv == ContractInv /\ [Next]_vars => ContractInv'
<1> SUFFICES ASSUME ContractInv, [Next]_vars PROVE ContractInv'
  OBVIOUS
<1>1. IInv /\ IInv'
  BY NextIInv DEF ContractInv
<1> USE DEF binary, scaled, decimal, output
<1>2. ASSUME text' # NoText, pc' = "done", value' # NoValue PROVE ContractInv'
  BY <1>1, <1>2 DEF ContractInv
<1>3. NoText \notin Contract!Text /\ NoValue \notin Arguments
  BY FormatAssumption
<1>4. CASE Call
  BY <1>1, <1>4 DEF Call, ContractInv
<1>5. CASE Special
  <2>1. text' \in Contract!Text /\ value' = value /\ pc' = "done" /\ value \in Arguments
    BY <1>1, <1>5, SpecialText DEF Special, IInv
  <2> QED BY <1>1, <1>3, <2>1 DEF ContractInv
<1>6. CASE Unpack
  BY <1>1, <1>6 DEF Unpack, ContractInv
<1>7. CASE SmallInteger
  <2>1. Decoded
    BY <1>1, <1>7 DEF SmallInteger, IInv
  <2>2. value \in Ordinary
    BY <2>1 DEF Decoded
  <2>3. /\ BinExp(value) \in -num_sig_bits .. -1
        /\ BinSig(value) % 2^(-BinExp(value)) = 0
    <3>1. BinExp(value) \in Int /\ num_sig_bits \in Nat
      BY <2>2, OrdinaryType, FormatAssumption
    <3> QED BY <1>7, <2>1, <3>1 DEF SmallInteger, IsSmallInteger, Decoded
  <2>4. /\ dec_sig' = BinSig(value) \div 2^(-BinExp(value))
        /\ dec_exp' = 0 /\ value' = value
    BY <1>7, <2>1 DEF SmallInteger, Decoded
  <2>5. Best(value', dec_sig', dec_exp')
    BY <2>2, <2>3, <2>4, SmallIntegerBest
  <2>6. pc = "unpacked" /\ pc' = "write" /\ text' = text
    BY <1>7 DEF SmallInteger
  <2> QED BY <1>1, <2>5, <2>6 DEF ContractInv
<1>8. CASE Scale
  BY <1>1, <1>8 DEF Scale, ContractInv
<1>9. CASE Shorter
  <2>1. Best(value, dec_sig', dec_exp)
    BY <1>1, <1>9, ShorterStep
  <2>2. value' = value /\ dec_exp' = dec_exp /\ pc = "shorter" /\ pc' = "write" /\ text' = text
    BY <1>9 DEF Shorter
  <2>3. Best(value', dec_sig', dec_exp')
    BY <2>1, <2>2
  <2> QED BY <1>1, <2>2, <2>3 DEF ContractInv
<1>10. CASE NotShorter
  BY <1>1, <1>10 DEF NotShorter, ContractInv
<1>11. CASE Longer \/ Closest
  <2>1. Best(value, dec_sig', dec_exp)
    BY <1>1, <1>11, LongerStep
  <2>2. value' = value /\ dec_exp' = dec_exp /\ pc = "longer" /\ pc' = "write" /\ text' = text
    BY <1>11 DEF Longer, Closest
  <2>3. Best(value', dec_sig', dec_exp')
    BY <2>1, <2>2
  <2> QED BY <1>1, <2>2, <2>3 DEF ContractInv
<1>12. CASE Write
  <2>1. text' \in Contract!Text /\ value' = value /\ pc' = "done" /\ value \in Arguments
    BY <1>1, <1>12, WrittenText DEF Write, IInv
  <2> QED BY <1>1, <1>3, <2>1 DEF ContractInv
<1>13. CASE Return
  BY <1>1, <1>13 DEF Return, ContractInv
<1>14. CASE UNCHANGED vars
  <2>1. /\ pc' = pc /\ value' = value /\ text' = text
        /\ dec_sig' = dec_sig /\ dec_exp' = dec_exp
    BY <1>14 DEF vars
  <2>2. Best(value', dec_sig', dec_exp') <=> Best(value, dec_sig, dec_exp)
    BY <2>1
  <2> QED BY <1>1, <2>1, <2>2 DEF ContractInv
<1> QED BY <1>4, <1>5, <1>6, <1>7, <1>8, <1>9, <1>10, <1>11, <1>12, <1>13, <1>14 DEF Next

(* What is handed to write() is a best decimal, in every reachable state.  *)
THEOREM ContractInvariant == Spec => []ContractInv
<1> QED BY InitContractInv, NextContractInv, PTL DEF Spec

LEMMA StepOfContract == ContractInv /\ [Next]_vars => [Contract!Next]_(Contract!vars)
<1> SUFFICES ASSUME ContractInv, [Next]_vars
             PROVE  [Contract!Next]_(Contract!vars)
  OBVIOUS
<1> USE DEF binary, scaled, decimal, output
<1>1. ASSUME UNCHANGED <<value, text>> PROVE UNCHANGED Contract!vars
  BY <1>1 DEF Contract!vars
<1>2. NoText \notin Contract!Text /\ NoValue \notin Arguments
  BY FormatAssumption
<1>3. CASE Call
  <2>1. value = NoValue /\ value' \in Arguments /\ text' = NoText
    BY <1>3 DEF Call, ContractInv
  <2> QED BY <2>1 DEF Contract!Next, Contract!Call
<1>4. CASE Special \/ Write
  <2>1. text' \in Contract!Text /\ Contract!Acceptable(value, text')
    BY <1>4, SpecialText, WrittenText
  <2>2. value' = value /\ pc \in {"unpack", "write"}
    BY <1>4 DEF Special, Write
  <2>3. value # NoValue /\ text = NoText
    BY <1>2, <2>2 DEF ContractInv, IInv
  <2> QED BY <2>1, <2>2, <2>3 DEF Contract!Next, Contract!Write
<1>5. CASE Unpack \/ SmallInteger \/ Scale \/ Shorter \/ NotShorter \/ Longer \/ Closest
  <2>1. UNCHANGED <<value, text>>
    BY <1>5 DEF Unpack, SmallInteger, Scale, Shorter, NotShorter, Longer, Closest
  <2> QED BY <1>1, <2>1
<1>6. CASE Return
  <2>1. text # NoText /\ value' = NoValue /\ text' = NoText
    BY <1>6 DEF Return, ContractInv
  <2> QED BY <2>1 DEF Contract!Next, Contract!Return
<1>7. CASE UNCHANGED vars
  BY <1>1, <1>7 DEF vars
<1> QED BY <1>3, <1>4, <1>5, <1>6, <1>7 DEF Next

(* The refinement.                                                         *)
THEOREM ImplementsContract == Spec => Implements
<1>1. Init => Contract!Init
  BY DEF Init, Contract!Init
<1>2. ContractInv /\ [Next]_vars => [Contract!Next]_(Contract!vars)
  BY StepOfContract
<1> QED BY <1>1, <1>2, ContractInvariant, PTL DEF Spec, Implements, Contract!Spec

-----------------------------------------------------------------------------
LEMMA WriteReach ==
  ASSUME ContractInv, Write
  PROVE  reach' \in 0..buffer_size
<1> DEFINE w == WrittenDigits(dec_sig)
           digits == StripZeros(w)
           n      == DecLen(dec_sig) - 1
           exp    == dec_exp + DecLen(dec_sig) - 1
           e      == ExpLength(exp)
           s      == SignReach(value)
<1>1. /\ value \in Ordinary /\ dec_exp \in Int /\ dec_exp \in DecExps(value)
      /\ dec_sig \in 1 .. 10^max_digits10 - 1
  BY DEF ContractInv, IInv, TypeOK, Write, Decoded, Best
<1>2. max_digits10 \in Nat /\ DecLen(dec_sig) \in 1..max_digits10
  BY <1>1, DecLenExact, TensPowers
<1>3. n \in 0 .. max_digits10 - 1 /\ exp = dec_exp + n
  BY <1>1, <1>2
<1>4. Len(digits) \in 1..Len(w) /\ Len(w) <= max_digits10 /\ Len(w) \in Nat
  <2>1. Len(digits) \in 1..Len(w) /\ Len(w) <= max_digits10
    BY <1>1, TextDigits
  <2>2. Len(w) \in 1..max_digits10
    BY <1>1, WrittenDigitsAre
  <2> QED BY <1>2, <2>1, <2>2
<1>5. 1 + max_digits10 + 3 + e <= buffer_size /\ buffer_size \in Nat
  <2> HIDE DEF n
  <2>1. /\ 1 + max_digits10 + 3 + (IF dec_exp + n \in -99..99 THEN 2 ELSE 3) <= buffer_size
        /\ buffer_size \in Nat
    BY <1>1, <1>3, BufferAssumption
  <2>2. e = IF dec_exp + n \in -99..99 THEN 2 ELSE 3
    BY <1>1, <1>3 DEF ExpLength
  <2> HIDE DEF e
  <2> QED BY <2>1, <2>2
<1>6. e \in 2..3 /\ s \in 0..1
  BY DEF ExpLength, SignReach
<1>7. reach' = s + NumberReach(Len(w), digits, exp)
  BY DEF Write
<1>8. NumberReach(Len(w), digits, exp) =
        IF Len(digits) + 1 + 2 + e > Len(w) + 1 THEN Len(digits) + 1 + 2 + e ELSE Len(w) + 1
  BY DEF NumberReach
<1> HIDE DEF w, digits, exp, e, s
<1> QED BY <1>2, <1>4, <1>5, <1>6, <1>7, <1>8

(* No call writes past the end of the buffer schubfach.h asks for.         *)
THEOREM AlwaysBufferFits == Spec => []BufferFits
<1>1. buffer_size \in Nat /\ buffer_size >= 4
  BY BufferAssumption
<1>2. Init => BufferFits
  BY <1>1 DEF Init, BufferFits
<1>3. BufferFits /\ ContractInv /\ [Next]_vars => BufferFits'
  <2> SUFFICES ASSUME BufferFits, ContractInv, [Next]_vars PROVE BufferFits'
    OBVIOUS
  <2> USE DEF output
  <2>1. CASE Call \/ Return
    BY <1>1, <2>1 DEF Call, Return, BufferFits
  <2>2. CASE Special
    <3>1. SignReach(value) \in 0..1
      BY DEF SignReach
    <3>2. \E n \in {1, 3} : reach' = SignReach(value) + n
      BY <2>2 DEF Special
    <3> QED BY <1>1, <3>1, <3>2 DEF BufferFits
  <2>3. CASE Write
    BY <2>3, WriteReach DEF BufferFits
  <2>4. CASE Unpack \/ SmallInteger \/ Scale \/ Shorter \/ NotShorter \/ Longer \/ Closest
             \/ UNCHANGED vars
    <3>1. reach' = reach
      BY <2>4 DEF Unpack, SmallInteger, Scale, Shorter, NotShorter, Longer, Closest, vars
    <3> QED BY <3>1 DEF BufferFits
  <2> QED BY <2>1, <2>2, <2>3, <2>4 DEF Next
<1> QED BY <1>2, <1>3, ContractInvariant, PTL DEF Spec

-----------------------------------------------------------------------------
LEMMA SmallPowersOfTwo ==
  /\ \A n \in 1..7 : 2^n \in 2..128
  /\ \A n \in 2..5 : 2^n \in 4..32
<1>2. ASSUME NEW n \in 2..5 PROVE 2^n \in 4..32
  <2>1. CASE n = 2
    <3>1. 2^n = 4 
      BY <2>1, 2^2 = 4
    <3> QED BY <3>1
  <2>2. CASE n = 3
    <3>1. 2^n = 8 
      BY <2>2, 2^3 = 8
    <3> QED BY <3>1
  <2>3. CASE n = 4
    <3>1. 2^n = 16 
      BY <2>3, 2^4 = 16
    <3> QED BY <3>1
  <2>4. CASE n = 5
    <3>1. 2^n = 32 
      BY <2>4, 2^5 = 32
    <3> QED BY <3>1
  <2> QED BY <2>1, <2>2, <2>3, <2>4
<1>3. ASSUME NEW n \in 1..7 PROVE 2^n \in 2..128
  <2>1. CASE n \in 2..5
    <3>1. 2^n \in 4..32
      BY <1>2, <2>1
    <3> QED BY <3>1
  <2>2. CASE n = 1
    <3>1. 2^n = 2
      BY <2>2, 2^1 = 2
    <3> QED BY <3>1
  <2>3. CASE n = 6
    <3>1. 2^n = 64 
      BY <2>3, 2^6 = 64
    <3> QED BY <3>1
  <2>4. CASE n = 7
    <3>1. 2^n = 128
      BY <2>4, 2^7 = 128
    <3> QED BY <3>1
  <2> QED BY <2>1, <2>2, <2>3, <2>4
<1> QED BY <1>2, <1>3

(* The shift is small: 2^q / 10^k is less than 14.                         *)
LEMMA ShiftSmall ==
  ASSUME NEW v \in Ordinary
  PROVE  /\ Shift(BinExp(v), DecExpOf(v)) \in 2..5
         /\ 2^Shift(BinExp(v), DecExpOf(v)) \in 1..32
         /\ 5 <= word_bits - 1
<1> DEFINE q == BinExp(v)
           k == DecExpOf(v)
           N == Twos(q, k)
           T == Tens(q, k)
           s == Shift(q, k) - 2
<1>1. N \in Nat \ {0} /\ T \in Nat \ {0} /\ k \in Int
  BY Factors
<1>2. 3 * N < 40 * T
  BY <1>1, LogAssumption
<1>3. s \in 0 .. word_bits - 1 /\ 2^s * T <= N
  BY LogAssumption
<1>4. word_bits \in Nat \ {0} /\ PowersUpTo(2, word_bits)
      /\ \A n \in 0..word_bits : 2^n \in Nat \ {0}
  <2>1. word_bits \in Nat \ {0}
    BY WidthAssumption
  <2>2. PowersUpTo(2, word_bits)
    <3>1. 2^0 = 1
      OBVIOUS
    <3> QED BY <3>1, PowersAssumption DEF PowersUpTo, PowerAt
  <2>3. 2 \in Nat \ {0}
    OBVIOUS
  <2> QED BY <2>1, <2>2, <2>3, PowerPositive
<1>5. 8 <= word_bits
  <2> SUFFICES ASSUME word_bits < 8 PROVE FALSE
    BY <1>4
  <2>1. 256 <= 2^word_bits
    <3> DEFINE w == 2^word_bits
    <3>1. 256 * implicit_bit <= w /\ implicit_bit \in Nat \ {0} /\ w \in Nat
      BY <1>4, WidthAssumption, FormatAssumption DEF WordSize
    <3> HIDE DEF w
    <3>2. 256 <= w
      BY <3>1
    <3> QED BY <3>2 DEF w
  <2>2. word_bits \in 1..7
    BY <1>4
  <2>3. 2^word_bits \in 2..128
    BY <2>2, SmallPowersOfTwo
  <2> DEFINE w == 2^word_bits
  <2>4. 256 <= w /\ w \in 2..128
    BY <2>1, <2>3
  <2> HIDE DEF w
  <2> QED BY <2>4
<1> DEFINE y == 2^s
<1>6. y \in Nat \ {0}
  BY <1>3, <1>4
<1>7. y < 14
  <2> SUFFICES ASSUME y >= 14 PROVE FALSE
    BY <1>6
  <2>1. y * T <= N
    BY <1>3
  <2> HIDE DEF y, N, T
  <2>2. 14 * T <= y * T
    BY <1>1, <1>6, MonotoneProduct
  <2>3. y * T \in Nat /\ 14 * T \in Nat
    BY <1>1, <1>6
  <2> QED BY <1>1, <1>2, <2>1, <2>2, <2>3
<1> HIDE DEF s
<1>8. s <= 3
  <2> SUFFICES ASSUME s >= 4 PROVE FALSE
    BY <1>3, <1>4
  <2>1. 4 \in 0..word_bits /\ s \in 0..word_bits /\ (s = 4 \/ 4 < s)
    BY <1>3, <1>4
  <2>2. y = 16 \/ 16 < y
    <3>1. CASE s = 4
      BY <3>1, 2^4 = 16
    <3>2. CASE 4 < s
      <4>1. 2 \in Nat /\ 2 >= 2 /\ word_bits \in Nat
        BY <1>4
      <4>2. 2^4 < 2^s
        BY <1>4, <2>1, <3>2, <4>1, PowerOrder
      <4> QED BY <4>2, 2^4 = 16
    <3> QED BY <2>1, <3>1, <3>2
  <2> HIDE DEF y
  <2> QED BY <1>6, <1>7, <2>2
<1>9. Shift(q, k) = s + 2
  <2>1. q \in Int /\ Pow10BinExp(k) \in Int
    BY OrdinaryType, LogAssumption
  <2>2. Shift(q, k) \in Int
    BY <2>1 DEF Shift
  <2> QED BY <2>2 DEF s
<1>10. s \in 0..3
  BY <1>3, <1>4, <1>8
<1>11. Shift(q, k) \in 2..5
  BY <1>9, <1>10
<1>12. 2^Shift(q, k) \in 1..32
  <2>1. 2^Shift(q, k) \in 4..32
    BY <1>11, SmallPowersOfTwo
  <2> QED BY <2>1
<1> QED BY <1>4, <1>5, <1>11, <1>12

(* What is scaled stays below 256 * implicit_bit, and so in a word.        *)
LEMMA ScaledFits ==
  ASSUME NEW v \in Ordinary
  PROVE  LET q == BinExp(v)
             k == DecExpOf(v)
             c == BinSig(v)
             u == Estimate(4 * c, q, k) \div 4
         IN /\ Upper(c) * 2^Shift(q, k) < WordSize
            /\ Estimate(Upper(c), q, k) < WordSize
            /\ 4 * (10 * (u \div 10) + 10) + 1 < WordSize
<1> DEFINE q == BinExp(v)
           k == DecExpOf(v)
           c == BinSig(v)
           N == Twos(q, k)
           T == Tens(q, k)
           I == implicit_bit
           W == WordSize
           n == 4 * c + 2
           e == Estimate(n, q, k)
           u == Estimate(4 * c, q, k) \div 4
           y == (4 * c) * N
<1>1. N \in Nat \ {0} /\ T \in Nat \ {0} /\ 3 * N < 40 * T
  BY Factors, LogAssumption
<1>2. /\ c \in Nat \ {0} /\ c <= 2 * I - 1 /\ I \in Nat \ {0}
      /\ 256 * I <= W /\ W \in Nat
  <2>1. c \in 1 .. 2 * I - 1 /\ I \in Nat \ {0} /\ 256 * I <= W
    BY SignificandBound, FormatAssumption, WidthAssumption
  <2>2. W \in Nat
    <3>1. word_bits \in Nat \ {0}
      BY WidthAssumption
    <3>2. word_bits - 1 \in 0 .. word_bits - 1 /\ (word_bits - 1) + 1 = word_bits
      BY <3>1
    <3> DEFINE m == word_bits - 1
    <3>3. PowerAt(2, m)
      BY <3>2, PowersAssumption
    <3>4. 2^m \in Nat /\ 2^(m + 1) = 2 * 2^m
      BY <3>3 DEF PowerAt
    <3> QED BY <3>2, <3>4 DEF WordSize
  <2> HIDE DEF c, I, W
  <2> QED BY <2>1, <2>2
<1>3. Upper(c) = n
  BY DEF Upper
<1>4. n * 2^Shift(q, k) < W
  <2> DEFINE p == 2^Shift(q, k)
  <2>1. p \in 1..32
    BY ShiftSmall
  <2> HIDE DEF p, c, I, W
  <2>2. p * n <= 32 * n
    <3>1. p <= 32 /\ p \in Int /\ n \in Nat /\ 32 \in Int
      BY <1>2, <2>1
    <3> HIDE DEF n
    <3> QED BY <3>1, MonotoneProduct
  <2>3. n * p = p * n /\ p * n \in Nat
    BY <1>2, <2>1
  <2> QED BY <1>2, <2>2, <2>3 DEF p
<1>5. ASSUME NEW m \in Nat, m <= 8 * I - 2 PROVE 3 * (m * N) <= (320 * I) * T
  <2> HIDE DEF c, N, T, I
  <2>1. m * N \in Nat /\ m * (3 * N) = 3 * (m * N)
    BY <1>1
  <2>2. (3 * N) * m <= (40 * T) * m
    <3>1. 3 * N \in Int /\ 40 * T \in Int /\ 3 * N <= 40 * T
      BY <1>1
    <3> QED BY <3>1, MonotoneProduct
  <2>3. (40 * m) * T <= (320 * I) * T
    <3>1. 40 * m <= 320 * I /\ 40 * m \in Int /\ 320 * I \in Int
      BY <1>2, <1>5
    <3> QED BY <1>1, <3>1, MonotoneProduct
  <2>4. (3 * N) * m = m * (3 * N) /\ (40 * T) * m = (40 * m) * T
    BY <1>1
  <2>5. (40 * m) * T \in Nat /\ (320 * I) * T \in Nat
    BY <1>1, <1>2
  <2> QED BY <2>1, <2>2, <2>3, <2>4, <2>5
<1>6. e < W
  <2> DEFINE d == 64 * I
  <2>1. n \in Quarters(v)
    BY <1>3 DEF Quarters
  <2>2. e \in Nat
    BY <2>1, EstimateExact
  <2>3. d \in Nat
    BY <1>2
  <2>4. 4 * d <= e => (4 * d) * T <= n * N
    BY <2>1, <2>3, EstimateCompares
  <2>5. 3 * (n * N) <= (320 * I) * T
    <3>1. n \in Nat /\ n <= 8 * I - 2
      <4> HIDE DEF c, I
      <4> QED BY <1>2
    <3> HIDE DEF n, N, T, I
    <3> QED BY <1>5, <3>1
  <2>6. ~((4 * d) * T <= n * N)
    <3> HIDE DEF c, N, T, I, n
    <3> DEFINE x == I * T
               z == n * N
    <3>1. x \in Nat \ {0} /\ (320 * I) * T = 320 * x /\ (4 * d) * T = 256 * x
      BY <1>1, <1>2
    <3>2. n \in Nat
      <4>1. c \in Nat
        BY <1>2
      <4> QED BY <4>1 DEF n
    <3>3. z \in Nat
      BY <1>1, <3>2
    <3>4. 3 * z <= 320 * x
      BY <2>5, <3>1
    <3> HIDE DEF x, z
    <3>5. ~(256 * x <= z)
      BY <3>1, <3>3, <3>4
    <3> QED BY <3>1, <3>5 DEF z
  <2> HIDE DEF e, I, W, T, N, n
  <2> QED BY <1>2, <2>2, <2>4, <2>6
<1>7. 4 * (10 * (u \div 10) + 10) + 1 < W
  <2>1. u \in Nat /\ (4 * u) * T <= y
    BY ValueBetween
  <2> HIDE DEF u
  <2>2. 3 * y <= (320 * I) * T
    <3>1. 4 * c \in Nat /\ 4 * c <= 8 * I - 2
      <4> HIDE DEF c, I
      <4>1. 4 * c <= 8 * I - 4
        BY <1>2
      <4> QED BY <1>2, <4>1
    <3> HIDE DEF c, N, T, I
    <3> QED BY <1>5, <3>1
  <2>3. 3 * (4 * u) <= 320 * I
    <3> HIDE DEF c, N, T, I
    <3>1. y \in Nat /\ (4 * u) * T \in Nat /\ (3 * (4 * u)) * T = 3 * ((4 * u) * T)
      BY <1>1, <1>2, <2>1
    <3>2. (3 * (4 * u)) * T <= (320 * I) * T
      <4> HIDE DEF y
      <4>1. (320 * I) * T \in Nat
        BY <1>1, <1>2
      <4> QED BY <2>1, <2>2, <3>1, <4>1
    <3> DEFINE a == 3 * (4 * u)
               b == 320 * I
    <3>3. a \in Nat /\ b \in Nat
      BY <1>2, <2>1
    <3> HIDE DEF a, b
    <3>4. a <= b
      BY <1>1, <3>2, <3>3, ProductOrder DEF a, b
    <3> QED BY <3>4 DEF a, b
  <2>4. 10 * (u \div 10) <= u /\ 10 * (u \div 10) \in Nat
    BY <2>1
  <2> HIDE DEF I, W
  <2> QED BY <1>2, <2>1, <2>3, <2>4
<1> QED BY <1>3, <1>4, <1>6, <1>7

(* No shift loses a bit, no index leaves the table, no comparison wraps.   *)
THEOREM AlwaysNoOverflow == Spec => []NoOverflow
<1>1. ContractInv => NoOverflow
  <2> SUFFICES ASSUME ContractInv PROVE NoOverflow
    OBVIOUS
  <2>1. ASSUME pc = "shorter"
        PROVE  /\ Shift(bin_exp, dec_exp) \in 0..word_bits - 1
               /\ Upper(bin_sig) * 2^Shift(bin_exp, dec_exp) < WordSize
               /\ -dec_exp \in DOMAIN pow10_significands
               /\ 4 * dec_sig_over2 + 1 < WordSize
               /\ upper < WordSize
    <3>1. Decoded /\ EstimatesSet
      BY <2>1 DEF ContractInv, IInv
    <3>2. /\ value \in Ordinary /\ bin_exp = BinExp(value) /\ bin_sig = BinSig(value)
          /\ dec_exp = DecExpOf(value)
          /\ upper = Estimate(Upper(BinSig(value)), BinExp(value), DecExpOf(value))
          /\ scaled_sig = Estimate(4 * BinSig(value), BinExp(value), DecExpOf(value))
      BY <3>1 DEF Decoded, EstimatesSet
    <3>3. dec_sig_over2 = 10 * ((scaled_sig \div 4) \div 10) + 10
      BY DEF dec_sig_over2, dec_sig_under2, dec_sig_under
    <3>4. Shift(bin_exp, dec_exp) \in 0..word_bits - 1
      <4>1. Shift(bin_exp, dec_exp) \in 2..5 /\ 5 <= word_bits - 1
        BY <3>2, ShiftSmall
      <4>2. word_bits \in Nat \ {0}
        BY WidthAssumption
      <4> QED BY <4>1, <4>2
    <3>5. -dec_exp \in DOMAIN pow10_significands
      BY <3>2, TableAssumption
    <3>6. /\ Upper(bin_sig) * 2^Shift(bin_exp, dec_exp) < WordSize
          /\ upper < WordSize
          /\ 4 * dec_sig_over2 + 1 < WordSize
      BY <3>2, <3>3, ScaledFits
    <3> QED BY <3>4, <3>5, <3>6
  <2>2. ASSUME pc = "write"
        PROVE  dec_sig > 0 /\ DecLen(dec_sig) \in 1..max_digits10
    <3>1. dec_sig \in 1 .. 10^max_digits10 - 1
      BY <2>2 DEF ContractInv, Best
    <3>2. DecLen(dec_sig) \in 1..max_digits10
      BY <3>1, DecLenExact
    <3>3. dec_sig \in Nat
      BY DEF ContractInv, IInv, TypeOK
    <3> QED BY <3>1, <3>2, <3>3
  <2> QED BY <2>1, <2>2 DEF NoOverflow
<1> QED BY <1>1, ContractInvariant, PTL

=============================================================================
