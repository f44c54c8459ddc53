-------------------------- MODULE BinaryFloatProofs --------------------------
(***************************************************************************)
(* Facts about the comparisons of BinaryFloat, for every format: what they *)
(* say in integers, how a decimal changes its exponent, what makes a       *)
(* decimal the best one (BestDecimal) and that its digits are then the     *)
(* shortest text, and, for an exponent of ten chosen such that the         *)
(* interval is between one and ten units long (Framed), which decimals are *)
(* the best.                                                               *)
(***************************************************************************)
EXTENDS BinaryFloat, NaturalFacts

(* A number split into limbs.                                              *)
LEMMA LimbSplit ==
  ASSUME NEW n \in Nat
  PROVE  /\ n \div Limb \in Nat
         /\ n % Limb \in 0 .. Limb - 1
         /\ n = Limb * (n \div Limb) + (n % Limb)
BY SMT DEF Limb

(* High and Low are the limbs of the product.                              *)
LEMMA LimbProduct ==
  ASSUME NEW a \in Nat, NEW b \in Nat
  PROVE  /\ High(a, b) \in Nat
         /\ Low(a, b) \in 0 .. Limb - 1
         /\ a * b = Limb * High(a, b) + Low(a, b)
<1> DEFINE bh == b \div Limb
           bl == b % Limb
           p  == a * bl
<1>1. bh \in Nat /\ bl \in Nat /\ b = Limb * bh + bl
  BY LimbSplit
<1>2. p \in Nat
  BY <1>1
<1>3. /\ p \div Limb \in Nat
      /\ p % Limb \in 0 .. Limb - 1
      /\ p = Limb * (p \div Limb) + (p % Limb)
  BY <1>2, LimbSplit
<1>4. a * b = Limb * (a * bh) + p
  <2>1. a * b = a * (Limb * bh + bl)
    BY <1>1
  <2> HIDE DEF bh, bl
  <2>2. a * (Limb * bh + bl) = a * (Limb * bh) + a * bl
    BY <1>1, SMT DEF Limb
  <2>3. a * (Limb * bh) = Limb * (a * bh)
    BY <1>1, SMT DEF Limb
  <2> QED BY <2>1, <2>2, <2>3
<1>5. a * bh \in Nat
  BY <1>1
<1>6. High(a, b) = a * bh + (p \div Limb) /\ Low(a, b) = p % Limb
  BY DEF High, Low
<1> DEFINE ab == a * b
           h  == a * bh
           ph == p \div Limb
           pl == p % Limb
<1>7. /\ h \in Nat /\ ph \in Nat /\ pl \in 0 .. Limb - 1 /\ p = Limb * ph + pl
      /\ ab = Limb * h + p
      /\ High(a, b) = h + ph /\ Low(a, b) = pl
  BY <1>3, <1>4, <1>5, <1>6
<1> HIDE DEF bh, bl, p, ab, h, ph, pl
<1>8. ab = Limb * (h + ph) + pl
  BY <1>2, <1>7, SMT DEF Limb
<1>9. h + ph \in Nat
  BY <1>7
<1> QED BY <1>7, <1>8, <1>9 DEF ab

(* LeqProd compares the products, whatever their size.                     *)
LEMMA LeqProdExact ==
  ASSUME NEW a \in Nat, NEW b \in Nat, NEW c \in Nat, NEW d \in Nat
  PROVE  LeqProd(a, b, c, d) <=> a * b <= c * d
<1>1. /\ High(a, b) \in Nat /\ Low(a, b) \in 0 .. Limb - 1
      /\ a * b = Limb * High(a, b) + Low(a, b)
  BY LimbProduct
<1>2. /\ High(c, d) \in Nat /\ Low(c, d) \in 0 .. Limb - 1
      /\ c * d = Limb * High(c, d) + Low(c, d)
  BY LimbProduct
<1> DEFINE ab == a * b
           cd == c * d
           h1 == High(a, b)
           l1 == Low(a, b)
           h2 == High(c, d)
           l2 == Low(c, d)
<1>3. LeqProd(a, b, c, d) <=> (h1 < h2 \/ (h1 = h2 /\ l1 <= l2))
  BY DEF LeqProd
<1> HIDE DEF ab, cd, h1, l1, h2, l2
<1>4. /\ h1 \in Nat /\ l1 \in 0 .. Limb - 1 /\ ab = Limb * h1 + l1
      /\ h2 \in Nat /\ l2 \in 0 .. Limb - 1 /\ cd = Limb * h2 + l2
  BY <1>1, <1>2 DEF ab, cd, h1, l1, h2, l2
<1>5. (h1 < h2 \/ (h1 = h2 /\ l1 <= l2)) <=> ab <= cd
  BY <1>4, SMT DEF Limb
<1> QED BY <1>3, <1>5 DEF ab, cd

(* Multiplying by a positive number keeps the order.                       *)
LEMMA MonotoneProduct ==
  ASSUME NEW a \in Int, NEW b \in Int, NEW t \in Nat \ {0}
  PROVE  /\ a <= b => a * t <= b * t
         /\ a < b => a * t < b * t
OBVIOUS

(* e approximates x / t, rounded to odd.                                   *)
RoundedToOdd(e, x, t) ==
  IF e % 2 = 0 THEN x = e * t
               ELSE (e - 1) * t < x /\ x < (e + 1) * t

(* Comparing a number rounded to odd with an even one decides as the exact *)
(* number would: the whole point of rounding to odd.                       *)
LEMMA RoundToOddCompares ==
  ASSUME NEW e \in Nat, NEW m \in Nat, NEW x \in Nat, NEW t \in Nat \ {0},
         RoundedToOdd(e, x, t), m % 2 = 0
  PROVE  /\ e <= m <=> x <= m * t
         /\ e < m  <=> x < m * t
         /\ m <= e <=> m * t <= x
         /\ m < e  <=> m * t < x
<1>1. CASE e % 2 = 0
  <2>1. x = e * t
    BY <1>1 DEF RoundedToOdd
  <2>2. /\ e <= m => e * t <= m * t
        /\ e < m => e * t < m * t
        /\ m <= e => m * t <= e * t
        /\ m < e => m * t < e * t
    BY MonotoneProduct
  <2>3. e * t \in Nat /\ m * t \in Nat
    OBVIOUS
  <2> QED BY <2>1, <2>2, <2>3
<1>2. CASE e % 2 # 0
  <2>1. (e - 1) * t < x /\ x < (e + 1) * t
    BY <1>2 DEF RoundedToOdd
  <2>2. e # m
    BY <1>2
  <2>3. CASE e < m
    <3>1. (e + 1) * t <= m * t
      BY <2>3, MonotoneProduct
    <3>2. (e + 1) * t \in Int /\ m * t \in Int
      OBVIOUS
    <3> QED BY <2>1, <2>3, <3>1, <3>2
  <2>4. CASE m < e
    <3>1. m * t <= (e - 1) * t
      BY <2>4, MonotoneProduct
    <3>2. (e - 1) * t \in Int /\ m * t \in Int
      OBVIOUS
    <3> QED BY <2>1, <2>4, <3>1, <3>2
  <2> QED BY <2>2, <2>3, <2>4
<1> QED BY <1>1, <1>2

(* A function that obeys the recursion equation of DigitsValue is its       *)
(* value.                                                                  *)
LEMMA DigitsValueIs ==
  ASSUME NEW s, NEW n \in Nat, Len(s) = n, NEW g,
         g = [i \in 0..n |-> IF i = 0 THEN 0 ELSE 10 * g[i - 1] + s[i]]
  PROVE  DigitsValue(s) = g[n]
<1> DEFINE Eq(f) == f = [i \in 0..n |-> IF i = 0 THEN 0 ELSE 10 * f[i - 1] + s[i]]
           h == CHOOSE f : Eq(f)
<1>1. DigitsValue(s) = h[n]
  BY DEF DigitsValue
<1>2. Eq(h)
  <2>1. Eq(g)
    OBVIOUS
  <2> HIDE DEF Eq
  <2> QED BY <2>1
<1>3. h = [i \in 0..n |-> IF i = 0 THEN 0 ELSE 10 * h[i - 1] + s[i]]
  BY <1>2
<1> HIDE DEF h
<1> DEFINE S == {i \in Nat : h[i] = g[i]}
<1>4. 0 \in S
  <2>1. 0 \in 0..n
    OBVIOUS
  <2>2. h[0] = 0
    BY <1>3, <2>1
  <2>3. g[0] = 0
    BY <2>1
  <2> QED BY <2>2, <2>3
<1>5. ASSUME NEW i \in 0 .. n - 1, i \in S PROVE i + 1 \in S
  <2>1. i + 1 \in 0..n /\ i + 1 # 0 /\ (i + 1) - 1 = i
    OBVIOUS
  <2>2. h[i + 1] = 10 * h[i] + s[i + 1]
    BY <1>3, <2>1
  <2>3. g[i + 1] = 10 * g[i] + s[i + 1]
    BY <2>1
  <2>4. h[i] = g[i]
    BY <1>5
  <2>5. h[i + 1] = g[i + 1]
    BY <2>2, <2>3, <2>4
  <2> QED BY <2>5
<1> HIDE DEF S
<1>6. \A i \in 0..n : i \in S
  BY <1>4, <1>5, IntervalInduction
<1>7. n \in 0..n
  OBVIOUS
<1> QED BY <1>1, <1>6, <1>7 DEF S

LEMMA ValueByHorner ==
  ASSUME NEW s, NEW n \in Nat, Len(s) = n, NEW g, Horner(s, n, 10, g)
  PROVE  DigitsValue(s) = g[n]
<1>1. /\ g \in [0..n -> Nat] /\ g[0] = 0
      /\ \A j \in 1..n : g[j] = 10 * g[j - 1] + s[j]
  BY DEF Horner
<1>2. \A i \in 0..n : i # 0 => i \in 1..n
  OBVIOUS
<1>3. \A i \in 0..n : g[i] = IF i = 0 THEN 0 ELSE 10 * g[i - 1] + s[i]
  BY <1>1, <1>2
<1>4. g = [i \in 0..n |-> IF i = 0 THEN 0 ELSE 10 * g[i - 1] + s[i]]
  <2> DEFINE e(i) == IF i = 0 THEN 0 ELSE 10 * g[i - 1] + s[i]
  <2>1. g = [i \in 0..n |-> g[i]]
    BY <1>1
  <2>2. \A i \in 0..n : g[i] = e(i)
    BY <1>3
  <2> HIDE DEF e
  <2>3. g = [i \in 0..n |-> e(i)]
    BY <2>1, <2>2
  <2> QED BY <2>3 DEF e
<1> QED BY <1>4, DigitsValueIs

-----------------------------------------------------------------------------
(* What is known of a value v whose decimals are looked at from exponent k *)
(* on, with at most M digits.                                              *)
TensKnown(M) == M \in Nat \ {0} /\ \A n \in 0..M : PowerAt(10, n)

Scalable(v, k, M) ==
  /\ BinSig(v) \in Nat \ {0} /\ BinExp(v) \in Int
  /\ k \in Int /\ TensKnown(M)
  /\ \A j \in k - 1 .. k + M : PowersNear(BinExp(v), j)


(* The scaling factors at an exponent and at the next one.                 *)
LEMMA ScaleFactors ==
  ASSUME NEW v, NEW k, NEW M, Scalable(v, k, M),
         NEW j \in k - 1 .. k + M
  PROVE  LET q == BinExp(v)
         IN /\ Twos(q, j) \in Nat \ {0} /\ Tens(q, j) \in Nat \ {0}
            /\ Twos(q, j + 1) \in Nat \ {0} /\ Tens(q, j + 1) \in Nat \ {0}
            /\ Tens(q, j + 1) * Twos(q, j) = 10 * (Tens(q, j) * Twos(q, j + 1))
<1> DEFINE q  == BinExp(v)
           fj == 5^Positive(j)
           fi == 5^Positive(j + 1)
           gj == 5^Positive(-j)
           gi == 5^Positive(-(j + 1))
           aj == 2^Positive(j - q)
           ai == 2^Positive((j + 1) - q)
           bj == 2^Positive(q - j)
           bi == 2^Positive(q - (j + 1))
<1>1. q \in Int /\ k \in Int /\ j \in Int
  BY DEF Scalable, TensKnown
<1>2. /\ PowerAt(5, Positive(j)) /\ PowerAt(5, Positive(-j - 1))
      /\ PowerAt(2, Positive(j - q)) /\ PowerAt(2, Positive(q - j - 1))
  BY DEF Scalable, TensKnown, PowersNear
<1>3. /\ fj \in Nat \ {0} /\ fi \in Nat \ {0} /\ gj \in Nat \ {0} /\ gi \in Nat \ {0}
      /\ fi * gj = 5 * (fj * gi)
  <2> HIDE DEF q
  <2>1. CASE j >= 0
    <3>1. /\ Positive(j) = j /\ Positive(j + 1) = j + 1
          /\ Positive(-j) = 0 /\ Positive(-(j + 1)) = 0 /\ Positive(-j - 1) = 0
      BY <1>1, <2>1 DEF Positive
    <3>2. fj = 5^j /\ fi = 5^(j + 1) /\ gj = 5^0 /\ gi = 5^0
      BY <3>1
    <3>3. fj \in Nat \ {0} /\ 5^(j + 1) = 5 * 5^j
      BY <1>2, <3>1 DEF PowerAt
    <3>4. gj = 1 /\ gi = 1 /\ fi = 5 * fj
      BY <3>2, <3>3
    <3> HIDE DEF fj, fi, gj, gi
    <3> QED BY <3>3, <3>4
  <2>2. CASE j < 0
    <3> DEFINE n == -j - 1
    <3>1. /\ Positive(j) = 0 /\ Positive(j + 1) = 0
          /\ Positive(-j) = n + 1 /\ Positive(-(j + 1)) = n /\ Positive(-j - 1) = n
      BY <1>1, <2>2 DEF Positive
    <3>2. fj = 5^0 /\ fi = 5^0 /\ gj = 5^(n + 1) /\ gi = 5^n
      BY <3>1
    <3>3. gi \in Nat \ {0} /\ 5^(n + 1) = 5 * 5^n
      BY <1>2, <3>1 DEF PowerAt
    <3>4. fj = 1 /\ fi = 1 /\ gj = 5 * gi
      BY <3>2, <3>3
    <3> HIDE DEF fj, fi, gj, gi
    <3> QED BY <3>3, <3>4
  <2> QED BY <1>1, <2>1, <2>2
<1>4. /\ aj \in Nat \ {0} /\ ai \in Nat \ {0} /\ bj \in Nat \ {0} /\ bi \in Nat \ {0}
      /\ ai * bj = 2 * (aj * bi)
  <2> HIDE DEF q
  <2>1. CASE j >= q
    <3> DEFINE n == j - q
    <3>1. /\ Positive(j - q) = n /\ Positive((j + 1) - q) = n + 1
          /\ Positive(q - j) = 0 /\ Positive(q - (j + 1)) = 0
      BY <1>1, <2>1 DEF Positive
    <3>2. aj = 2^n /\ ai = 2^(n + 1) /\ bj = 2^0 /\ bi = 2^0
      BY <3>1
    <3>3. aj \in Nat \ {0} /\ 2^(n + 1) = 2 * 2^n
      BY <1>2, <3>1 DEF PowerAt
    <3>4. bj = 1 /\ bi = 1 /\ ai = 2 * aj
      BY <3>2, <3>3
    <3> HIDE DEF aj, ai, bj, bi
    <3> QED BY <3>3, <3>4
  <2>2. CASE j < q
    <3> DEFINE n == q - j - 1
    <3>1. /\ Positive(j - q) = 0 /\ Positive((j + 1) - q) = 0
          /\ Positive(q - j) = n + 1 /\ Positive(q - (j + 1)) = n
          /\ Positive(q - j - 1) = n
      BY <1>1, <2>2 DEF Positive
    <3>2. aj = 2^0 /\ ai = 2^0 /\ bj = 2^(n + 1) /\ bi = 2^n
      BY <3>1
    <3>3. bi \in Nat \ {0} /\ 2^(n + 1) = 2 * 2^n
      BY <1>2, <3>1 DEF PowerAt
    <3>4. aj = 1 /\ ai = 1 /\ bj = 2 * bi
      BY <3>2, <3>3
    <3> HIDE DEF aj, ai, bj, bi
    <3> QED BY <3>3, <3>4
  <2> QED BY <1>1, <2>1, <2>2
<1>5. /\ Twos(q, j) = gj * bj /\ Tens(q, j) = fj * aj
      /\ Twos(q, j + 1) = gi * bi /\ Tens(q, j + 1) = fi * ai
  BY DEF Twos, Tens
<1> HIDE DEF q, fj, fi, gj, gi, aj, ai, bj, bi
<1>6. (fi * ai) * (gj * bj) = 10 * ((fj * aj) * (gi * bi))
  <2>1. (fi * ai) * (gj * bj) = (fi * gj) * (ai * bj)
    BY <1>3, <1>4
  <2>2. (5 * (fj * gi)) * (2 * (aj * bi)) = 10 * ((fj * aj) * (gi * bi))
    BY <1>3, <1>4
  <2> QED BY <1>3, <1>4, <2>1, <2>2
<1>7. /\ gj * bj \in Nat \ {0} /\ fj * aj \in Nat \ {0}
      /\ gi * bi \in Nat \ {0} /\ fi * ai \in Nat \ {0}
  BY <1>3, <1>4
<1> QED BY <1>5, <1>6, <1>7 DEF q

(* d * 10^j is in the rounding interval of v, in integers, at any exponent *)
(* whose factors are positive.                                             *)
LEMMA RoundTripsInIntegers ==
  ASSUME NEW v, BinSig(v) \in Nat \ {0}, NEW d \in Nat, NEW j,
         Twos(BinExp(v), j) \in Nat \ {0}, Tens(BinExp(v), j) \in Nat \ {0}
  PROVE  LET c == BinSig(v)
             N == Twos(BinExp(v), j)
             T == Tens(BinExp(v), j)
             l == LowerQuarters(v)
             u == 4 * c + 2
         IN /\ l \in Nat \ {0} /\ 4 * c - 2 <= l /\ l < 4 * c /\ u \in Nat
            /\ RoundTrips(v, d, j) <=>
                 IF c % 2 = 0 THEN l * N <= (4 * d) * T /\ (4 * d) * T <= u * N
                              ELSE l * N < (4 * d) * T /\ (4 * d) * T < u * N
<1> DEFINE c == BinSig(v)
           q == BinExp(v)
           N == Twos(q, j)
           T == Tens(q, j)
           l == LowerQuarters(v)
           u == UpperQuarters(v)
           m == 4 * d
<1>1. c \in Nat \ {0} /\ N \in Nat \ {0} /\ T \in Nat \ {0} /\ m \in Nat
  OBVIOUS
<1>2. l \in Nat \ {0} /\ 4 * c - 2 <= l /\ l < 4 * c /\ u = 4 * c + 2 /\ u \in Nat
  <2>1. l = 4 * c - (IF HalfGapBelow(v) THEN 1 ELSE 2) /\ u = 4 * c + 2
    BY DEF LowerQuarters, UpperQuarters
  <2>2. HalfGapBelow(v) \in BOOLEAN
    BY DEF HalfGapBelow
  <2> HIDE DEF c, l, u
  <2> QED BY <1>1, <2>1, <2>2
<1>3. /\ DecimalLeq(d, j, u, q) <=> m * T <= u * N
      /\ DecimalGeq(d, j, u, q) <=> u * N <= m * T
      /\ DecimalLeq(d, j, l, q) <=> m * T <= l * N
      /\ DecimalGeq(d, j, l, q) <=> l * N <= m * T
  <2> SUFFICES /\ LeqProd(m, T, u, N) <=> m * T <= u * N
               /\ LeqProd(u, N, m, T) <=> u * N <= m * T
               /\ LeqProd(m, T, l, N) <=> m * T <= l * N
               /\ LeqProd(l, N, m, T) <=> l * N <= m * T
    BY DEF DecimalLeq, DecimalGeq
  <2> HIDE DEF m, T, N, l, u
  <2> QED BY <1>1, <1>2, LeqProdExact
<1>4. RoundTrips(v, d, j) <=>
        IF c % 2 = 0
          THEN DecimalGeq(d, j, l, q) /\ DecimalLeq(d, j, u, q)
          ELSE ~DecimalLeq(d, j, l, q) /\ ~DecimalGeq(d, j, u, q)
  BY DEF RoundTrips
<1> DEFINE mT == m * T
           lN == l * N
           uN == u * N
<1>5. mT \in Nat /\ lN \in Nat /\ uN \in Nat
  <2> HIDE DEF m, T, N, l, u
  <2> QED BY <1>1, <1>2
<1>6. RoundTrips(v, d, j) <=>
        IF c % 2 = 0 THEN lN <= mT /\ mT <= uN ELSE lN < mT /\ mT < uN
  <2>1. /\ DecimalLeq(d, j, u, q) <=> mT <= uN
        /\ DecimalGeq(d, j, u, q) <=> uN <= mT
        /\ DecimalLeq(d, j, l, q) <=> mT <= lN
        /\ DecimalGeq(d, j, l, q) <=> lN <= mT
    BY <1>3
  <2> HIDE DEF mT, lN, uN, c, q, l, u
  <2> QED BY <1>4, <1>5, <2>1
<1> QED BY <1>2, <1>6

(* The comparisons with a decimal, in integers.                            *)
LEMMA ComparesInIntegers ==
  ASSUME NEW q, NEW k, Twos(q, k) \in Nat \ {0}, Tens(q, k) \in Nat \ {0},
         NEW d \in Nat, NEW n \in Nat
  PROVE  /\ DecimalLeq(d, k, n, q) <=> (4 * d) * Tens(q, k) <= n * Twos(q, k)
         /\ DecimalGeq(d, k, n, q) <=> n * Twos(q, k) <= (4 * d) * Tens(q, k)
<1> DEFINE N == Twos(q, k)
           T == Tens(q, k)
           m == 4 * d
<1>1. N \in Nat /\ T \in Nat /\ m \in Nat
  OBVIOUS
<1> SUFFICES /\ LeqProd(m, T, n, N) <=> m * T <= n * N
             /\ LeqProd(n, N, m, T) <=> n * N <= m * T
  BY DEF DecimalLeq, DecimalGeq
<1> HIDE DEF m, T, N
<1> QED BY <1>1, LeqProdExact

(* The distance tests in integers: the midpoint of d and e against the     *)
(* value.                                                                  *)
LEMMA CloserInIntegers ==
  ASSUME NEW v, BinSig(v) \in Nat \ {0}, NEW d \in Nat, NEW e \in Nat,
         NEW k, Twos(BinExp(v), k) \in Nat \ {0}, Tens(BinExp(v), k) \in Nat \ {0}
  PROVE  LET N == Twos(BinExp(v), k)
             T == Tens(BinExp(v), k)
         IN Closer(v, d, e, k) <=>
              \/ e > d /\ (4 * (d + e)) * T < (8 * BinSig(v)) * N
              \/ e < d /\ (8 * BinSig(v)) * N < (4 * (d + e)) * T
<1> DEFINE c == BinSig(v)
           q == BinExp(v)
           N == Twos(q, k)
           T == Tens(q, k)
           m == d + e
           n == 8 * c
<1>1. m \in Nat /\ n \in Nat
  OBVIOUS
<1>2. /\ DecimalLeq(m, k, n, q) <=> (4 * m) * T <= n * N
      /\ DecimalGeq(m, k, n, q) <=> n * N <= (4 * m) * T
  <2> HIDE DEF m, n
  <2> QED BY <1>1, ComparesInIntegers
<1>3. (4 * m) * T \in Nat /\ n * N \in Nat
  BY <1>1
<1> HIDE DEF N, T, n
<1> QED BY <1>2, <1>3 DEF Closer, MidpointBelow, MidpointAbove, n, N, T

(* Going to the next smaller power of ten multiplies the decimal by ten.   *)
LEMMA CrossScale ==
  ASSUME NEW a \in Nat, NEW b \in Nat,
         NEW N0 \in Nat \ {0}, NEW N1 \in Nat \ {0},
         NEW T0 \in Nat \ {0}, NEW T1 \in Nat \ {0},
         T1 * N0 = 10 * (T0 * N1)
  PROVE  /\ a * N1 <= b * T1 <=> a * N0 <= (10 * b) * T0
         /\ b * T1 <= a * N1 <=> (10 * b) * T0 <= a * N0
<1> DEFINE x == a * N1
           y == b * T1
           z == a * N0
           w == (10 * b) * T0
<1>1. x \in Nat /\ y \in Nat /\ z \in Nat /\ w \in Nat
  OBVIOUS
<1>2. x * N0 = z * N1
  OBVIOUS
<1>3. y * N0 = w * N1
  <2>1. y * N0 = b * (T1 * N0)
    OBVIOUS
  <2>2. b * (10 * (T0 * N1)) = w * N1
    OBVIOUS
  <2> QED BY <2>1, <2>2
<1> HIDE DEF x, y, z, w
<1>4. /\ x <= y <=> x * N0 <= y * N0
      /\ y <= x <=> y * N0 <= x * N0
      /\ z <= w <=> z * N1 <= w * N1
      /\ w <= z <=> w * N1 <= z * N1
  BY <1>1, ProductOrder
<1>5. (x <= y <=> z <= w) /\ (y <= x <=> w <= z)
  BY <1>2, <1>3, <1>4
<1> QED BY <1>5 DEF x, y, z, w

LEMMA ScaleOnce ==
  ASSUME NEW v, NEW k, NEW M, Scalable(v, k, M),
         NEW j \in k - 1 .. k + M, NEW n \in Nat
  PROVE  RoundTrips(v, n, j + 1) <=> RoundTrips(v, 10 * n, j)
<1> DEFINE c  == BinSig(v)
           q  == BinExp(v)
           N0 == Twos(q, j)
           N1 == Twos(q, j + 1)
           T0 == Tens(q, j)
           T1 == Tens(q, j + 1)
           l  == LowerQuarters(v)
           u  == 4 * c + 2
           m  == 4 * n
           n10 == 10 * n
<1>1. /\ N0 \in Nat \ {0} /\ N1 \in Nat \ {0} /\ T0 \in Nat \ {0} /\ T1 \in Nat \ {0}
      /\ T1 * N0 = 10 * (T0 * N1)
  BY ScaleFactors
<1>0. BinSig(v) \in Nat \ {0}
  BY DEF Scalable, TensKnown
<1>2. /\ l \in Nat /\ u \in Nat
      /\ RoundTrips(v, n, j + 1) <=>
           IF c % 2 = 0 THEN l * N1 <= m * T1 /\ m * T1 <= u * N1
                        ELSE l * N1 < m * T1 /\ m * T1 < u * N1
  BY <1>0, <1>1, RoundTripsInIntegers
<1>3. RoundTrips(v, n10, j) <=>
           IF c % 2 = 0 THEN l * N0 <= (4 * n10) * T0 /\ (4 * n10) * T0 <= u * N0
                        ELSE l * N0 < (4 * n10) * T0 /\ (4 * n10) * T0 < u * N0
  <2>1. n10 \in Nat
    OBVIOUS
  <2> HIDE DEF n10
  <2> QED BY <1>0, <1>1, <2>1, RoundTripsInIntegers
<1>4. 4 * n10 = 10 * m /\ m \in Nat
  OBVIOUS
<1> HIDE DEF c, q, N0, N1, T0, T1, l, u, m, n10
<1>5. /\ l * N1 <= m * T1 <=> l * N0 <= (10 * m) * T0
      /\ m * T1 <= l * N1 <=> (10 * m) * T0 <= l * N0
      /\ u * N1 <= m * T1 <=> u * N0 <= (10 * m) * T0
      /\ m * T1 <= u * N1 <=> (10 * m) * T0 <= u * N0
  BY <1>1, <1>2, <1>4, CrossScale
<1>6. /\ l * N1 \in Nat /\ m * T1 \in Nat /\ u * N1 \in Nat
      /\ l * N0 \in Nat /\ (10 * m) * T0 \in Nat /\ u * N0 \in Nat
  BY <1>1, <1>2, <1>4
<1>7. RoundTrips(v, n, j + 1) <=> RoundTrips(v, n10, j)
  BY <1>2, <1>3, <1>4, <1>5, <1>6
<1> QED BY <1>7 DEF n10

(* Powers of ten up to the number of digits.                               *)
LEMMA TensOf ==
  ASSUME NEW M, TensKnown(M), NEW i \in 0..M
  PROVE  /\ 10^i \in Nat \ {0}
         /\ 10^(i + 1) \in Nat \ {0}
         /\ 10^(i + 1) = 10 * 10^i
<1>1. 10^i \in Nat \ {0} /\ 10^(i + 1) = 10 * 10^i
  BY DEF TensKnown, PowerAt
<1> DEFINE x == 10^i
<1>2. x \in Nat \ {0} /\ 10^(i + 1) = 10 * x
  BY <1>1
<1> HIDE DEF x
<1>3. 10 * x \in Nat \ {0}
  BY <1>2
<1> QED BY <1>2, <1>3 DEF x


(* A decimal is read back as v whatever power of ten it is written with.   *)
LEMMA ScaleRoundTrips ==
  ASSUME NEW v, NEW k, NEW M, Scalable(v, k, M), NEW i \in 0 .. M,
         NEW n \in Nat
  PROVE  RoundTrips(v, n, k + i) <=> RoundTrips(v, n * 10^i, k)
<1> DEFINE S == {m \in Nat : \A e \in Nat :
                   RoundTrips(v, e, k + m) <=> RoundTrips(v, e * 10^m, k)}
<1>1. k \in Int
  BY DEF Scalable, TensKnown
<1>2. 0 \in S
  <2>1. 10^0 = 1 /\ k + 0 = k
    BY <1>1
  <2>2. \A e \in Nat : e * 1 = e
    OBVIOUS
  <2> QED BY <2>1, <2>2
<1>3. ASSUME NEW m \in 0 .. M - 1, m \in S PROVE m + 1 \in S
  <2>0. M \in Nat
    BY DEF Scalable, TensKnown
  <2> SUFFICES ASSUME NEW e \in Nat
               PROVE  RoundTrips(v, e, k + (m + 1)) <=> RoundTrips(v, e * 10^(m + 1), k)
    BY <2>0
  <2>1. k + (m + 1) = (k + m) + 1 /\ k + m \in k - 1 .. k + M
    BY <1>1, <2>0
  <2>2. RoundTrips(v, e, (k + m) + 1) <=> RoundTrips(v, 10 * e, k + m)
    BY <2>1, ScaleOnce
  <2>3. RoundTrips(v, 10 * e, k + m) <=> RoundTrips(v, (10 * e) * 10^m, k)
    BY <1>3
  <2>4. (10 * e) * 10^m = e * 10^(m + 1)
    <3>1. m \in 0 .. M
      BY <2>0
    <3>2. 10^m \in Nat /\ 10^(m + 1) = 10 * 10^m
      BY <3>1, TensOf DEF Scalable
    <3> DEFINE x == 10^m
    <3>3. x \in Nat /\ 10^(m + 1) = 10 * x
      BY <3>2
    <3> HIDE DEF x
    <3>4. (10 * e) * x = e * (10 * x)
      BY <3>3
    <3> QED BY <3>3, <3>4 DEF x
  <2> QED BY <2>1, <2>2, <2>3, <2>4
<1> HIDE DEF S
<1>4. \A m \in 0 .. M : m \in S
  BY <1>2, <1>3, IntervalInduction DEF Scalable, TensKnown
<1> QED BY <1>4 DEF S

-----------------------------------------------------------------------------
(* Every multiple of ten that is read back as v, with whatever exponent it *)
(* is written, is d - or 10, if d has a single digit like it.              *)
OnlyTens(v, d, k) ==
  \A m \in Nat : RoundTrips(v, 10 * m, k) => 10 * m = d \/ (d < 10 /\ 10 * m = 10)

Coarser(v, d, k, M) ==
  \A m \in Nat, i \in 1..M :
    RoundTrips(v, m, k + i) => m * 10^i = d \/ (d < 10 /\ m * 10^i = 10)

ClosestAt(v, d, k) ==
  \A e \in Nat : RoundTrips(v, e, k) => ~Closer(v, d, e, k)

(* d * 10^k is not above |v|.                                              *)
NotAbove(v, d, k) == DecimalLeq(d, k, 4 * BinSig(v), BinExp(v))

(* 9 * 10^j, which has a digit like 10 * 10^j, would be the better choice. *)
NineBetter(v, j) == RoundTrips(v, 9, j) /\ Closer(v, 10, 9, j)

(* What a decimal has to be for its digits without the zeros at their end  *)
(* to be the shortest and closest text.                                    *)
BestDecimal(v, d, k, M) ==
  /\ d \in 1 .. 10^M - 1
  /\ RoundTrips(v, d, k)
  /\ Coarser(v, d, k, M)
  /\ d % 10 # 0 => ClosestAt(v, d, k)
  /\ d = 1 => ~NineBetter(v, k - 1)
  /\ d = 10 => ~NineBetter(v, k)

LEMMA CoarserFromTens ==
  ASSUME NEW v, NEW k, NEW M, Scalable(v, k, M), NEW d, OnlyTens(v, d, k)
  PROVE  Coarser(v, d, k, M)
<1> SUFFICES ASSUME NEW m \in Nat, NEW i \in 1 .. M,
                    RoundTrips(v, m, k + i)
             PROVE  m * 10^i = d \/ (d < 10 /\ m * 10^i = 10)
  BY DEF Coarser
<1>1. M \in Nat /\ i \in 0 .. M /\ i - 1 \in 0 .. M
      /\ (i - 1) + 1 = i
  BY DEF Scalable, TensKnown
<1>2. RoundTrips(v, m * 10^i, k)
  BY <1>1, ScaleRoundTrips
<1> DEFINE x == 10^(i - 1)
           n == m * x
<1>3. x \in Nat /\ 10^i = 10 * x
  BY <1>1, TensOf DEF Scalable
<1> HIDE DEF x
<1>4. n \in Nat /\ m * 10^i = 10 * n
  BY <1>3
<1> HIDE DEF n
<1> QED BY <1>2, <1>4 DEF OnlyTens

(* Just below a power of ten that is not above the value, no decimal is    *)
(* closer.                                                                 *)
LEMMA TenNotFarther ==
  ASSUME NEW v, BinSig(v) \in Nat \ {0}, NEW j,
         Twos(BinExp(v), j) \in Nat \ {0}, Tens(BinExp(v), j) \in Nat \ {0},
         NotAbove(v, 10, j)
  PROVE  ~Closer(v, 10, 9, j)
<1> DEFINE c == BinSig(v)
           N == Twos(BinExp(v), j)
           T == Tens(BinExp(v), j)
           m == 4 * c
           n == 8 * c
<1>1. c \in Nat /\ m \in Nat /\ n \in Nat /\ N \in Nat /\ T \in Nat
  OBVIOUS
<1>2. LeqProd(40, T, m, N)
  <2>1. 4 * 10 = 40
    OBVIOUS
  <2> QED BY <2>1 DEF NotAbove, DecimalLeq
<1>3. LeqProd(76, T, n, N)
  <2> HIDE DEF T, N, m, n
  <2>1. 40 * T <= m * N
    BY <1>1, <1>2, LeqProdExact
  <2>2. n = 2 * m
    BY <1>1 DEF n, m
  <2>3. 76 * T <= n * N
    <3>1. n * N = 2 * (m * N) /\ m * N \in Nat
      BY <1>1, <2>2
    <3> DEFINE y == m * N
    <3>2. y \in Nat /\ 40 * T <= y /\ n * N = 2 * y
      BY <2>1, <3>1
    <3> HIDE DEF y
    <3> QED BY <1>1, <3>2
  <2> QED BY <1>1, <2>3, LeqProdExact
<1>4. DecimalLeq(19, j, n, BinExp(v))
  <2>1. 4 * 19 = 76
    OBVIOUS
  <2> QED BY <1>3, <2>1 DEF DecimalLeq
<1>5. 10 + 9 = 19 /\ ~(9 > 10)
  OBVIOUS
<1> QED BY <1>4, <1>5 DEF Closer, MidpointAbove

LEMMA NotAboveScale ==
  ASSUME NEW v, NEW k, NEW M, Scalable(v, k, M), NotAbove(v, 1, k)
  PROVE  /\ Twos(BinExp(v), k - 1) \in Nat \ {0} /\ Tens(BinExp(v), k - 1) \in Nat \ {0}
         /\ NotAbove(v, 10, k - 1)
<1> DEFINE q  == BinExp(v)
           m  == 4 * BinSig(v)
           N0 == Twos(q, k - 1)
           N1 == Twos(q, k)
           T0 == Tens(q, k - 1)
           T1 == Tens(q, k)
<1>1. k - 1 \in k - 1 .. k + M /\ (k - 1) + 1 = k
  <2>1. k \in Int
    BY DEF Scalable, TensKnown
  <2> QED BY <2>1 DEF Scalable, TensKnown
<1>2. /\ N0 \in Nat \ {0} /\ N1 \in Nat \ {0} /\ T0 \in Nat \ {0} /\ T1 \in Nat \ {0}
      /\ T1 * N0 = 10 * (T0 * N1)
  <2> DEFINE i == k - 1
  <2>1. i \in k - 1 .. k + M /\ i + 1 = k
    BY <1>1
  <2> HIDE DEF i
  <2>2. /\ Twos(q, i) \in Nat \ {0} /\ Tens(q, i) \in Nat \ {0}
        /\ Twos(q, i + 1) \in Nat \ {0} /\ Tens(q, i + 1) \in Nat \ {0}
        /\ Tens(q, i + 1) * Twos(q, i) = 10 * (Tens(q, i) * Twos(q, i + 1))
    BY <2>1, ScaleFactors
  <2>3. i = k - 1
    BY DEF i
  <2> QED BY <2>1, <2>2, <2>3
<1>3. m \in Nat
  BY DEF Scalable, TensKnown
<1>4. LeqProd(4, T1, m, N1)
  <2>1. 4 * 1 = 4
    OBVIOUS
  <2> QED BY <2>1 DEF NotAbove, DecimalLeq
<1>5. LeqProd(40, T0, m, N0)
  <2> HIDE DEF m, N0, N1, T0, T1
  <2>1. 4 * T1 <= m * N1
    BY <1>2, <1>3, <1>4, LeqProdExact
  <2>2. (10 * 4) * T0 <= m * N0
    BY <1>2, <1>3, <2>1, CrossScale
  <2>3. 40 * T0 <= m * N0
    BY <2>2
  <2> QED BY <1>2, <1>3, <2>3, LeqProdExact
<1>6. NotAbove(v, 10, k - 1)
  <2>1. 4 * 10 = 40
    OBVIOUS
  <2> QED BY <1>5, <2>1 DEF NotAbove, DecimalLeq
<1> QED BY <1>2, <1>6

(* Powers of ten multiply.                                                 *)
LEMMA TensSum ==
  ASSUME NEW M, TensKnown(M), NEW a \in Nat, NEW b \in Nat,
         a + b <= M + 1
  PROVE  10^(a + b) = 10^a * 10^b
<1>1. M \in Nat /\ a \in 0 .. M + 1 /\ b \in 0 .. M + 1 /\ a + b <= M + 1 /\ M + 1 \in Nat
  BY DEF Scalable, TensKnown
<1>2. PowersUpTo(10, M + 1)
  <2>1. 10^0 = 1
    OBVIOUS
  <2>2. \A n \in 0 .. (M + 1) - 1 : 10^(n + 1) = 10 * 10^n
    <3>1. (M + 1) - 1 = M
      BY <1>1
    <3> QED BY <3>1, TensOf
  <2> QED BY <2>1, <2>2 DEF PowersUpTo
<1>3. 10 \in Nat \ {0}
  OBVIOUS
<1> QED BY <1>1, <1>2, <1>3, PowerSum

(* The decimal without its trailing zeros is what the contract asks for.   *)
LEMMA BestIsShortest ==
  ASSUME NEW v, NEW k, NEW M, Scalable(v, k, M), NEW d, BestDecimal(v, d, k, M),
         NEW D \in Nat, NEW z \in Nat, NEW len \in Nat \ {0},
         d = D * 10^z, D % 10 # 0, 10^(len - 1) <= D, D < 10^len,
         len + z <= M
  PROVE  /\ RoundTrips(v, D, k + z)
         /\ ~HasShorter(v, D, k + z, len)
         /\ ~HasCloser(v, D, k + z, len)
<1> DEFINE K == k + z
<1>1. /\ k \in Int /\ M \in Nat /\ d \in Nat
      /\ RoundTrips(v, d, k)
      /\ Coarser(v, d, k, M)
      /\ d % 10 # 0 => ClosestAt(v, d, k)
      /\ d = 1 => ~NineBetter(v, k - 1)
      /\ d = 10 => ~NineBetter(v, k)
  BY DEF BestDecimal, Scalable, TensKnown
<1>2. z \in 0 .. M /\ len \in 1 .. M
  BY <1>1
<1>3. \A i \in 0 .. M : 10^i \in Nat \ {0} /\ 10^(i + 1) = 10 * 10^i
  BY TensOf DEF Scalable
<1>4. \A i \in 1 .. M : \E x \in Nat \ {0} : x = 10^(i - 1) /\ 10^i = 10 * x
  <2> SUFFICES ASSUME NEW i \in 1 .. M
               PROVE  \E x \in Nat \ {0} : x = 10^(i - 1) /\ 10^i = 10 * x
    OBVIOUS
  <2>1. i - 1 \in 0 .. M /\ (i - 1) + 1 = i
    BY <1>1
  <2>2. 10^(i - 1) \in Nat \ {0} /\ 10^((i - 1) + 1) = 10 * 10^(i - 1)
    BY <1>3, <2>1
  <2> QED BY <2>1, <2>2
<1>5. D \in Nat \ {0}
  <2>1. len - 1 \in 0 .. M
    BY <1>1, <1>2
  <2>2. 10^(len - 1) \in Nat \ {0}
    BY <1>3, <2>1
  <2> DEFINE x == 10^(len - 1)
  <2>3. x \in Nat \ {0} /\ x <= D
    BY <2>2
  <2> HIDE DEF x
  <2> QED BY <2>3
<1>6. RoundTrips(v, D, K)
  BY <1>1, <1>2, ScaleRoundTrips
<1>7. z = 0 => d = D /\ K = k
  <2>1. 10^0 = 1 /\ D * 1 = D /\ k + 0 = k
    BY <1>1
  <2> QED BY <2>1
<1>8. z # 0 => d >= 10
  <2> SUFFICES ASSUME z # 0 PROVE d >= 10
    OBVIOUS
  <2>1. PICK x \in Nat \ {0} : 10^z = 10 * x
    BY <1>2, <1>4
  <2>2. d = D * (10 * x)
    BY <2>1
  <2>3. D * (10 * x) = 10 * (D * x) /\ D * x \in Nat \ {0}
    BY <1>5
  <2> HIDE <1>3
  <2> DEFINE y == D * x
  <2>4. d = 10 * y /\ y \in Nat \ {0}
    BY <2>2, <2>3
  <2> HIDE DEF y
  <2> QED BY <2>4
(* With fewer digits it would be a multiple of ten.                        *)
<1>9. ~HasShorter(v, D, K, len)
  <2> SUFFICES ASSUME NEW j \in K + 1 .. K + len,
                      NEW n \in {D \div 10^(j - K), D \div 10^(j - K) + 1},
                      n < 10^(len - 1), RoundTrips(v, n, j)
               PROVE  FALSE
    BY DEF HasShorter
  <2> DEFINE r == j - K
             i == j - k
  <2>1. /\ r \in 1 .. M /\ i \in 1 .. M /\ i = z + r
        /\ k + i = j /\ r - 1 \in 0 .. M
    BY <1>1, <1>2
  <2>2. n \in Nat
    <3>1. 10^r \in Nat \ {0}
      BY <1>3, <2>1
    <3> DEFINE p == 10^r
    <3>2. n \in {D \div p, D \div p + 1} /\ p \in Nat \ {0}
      BY <3>1
    <3> HIDE DEF p
    <3>3. D \div p \in Nat
      BY <3>2, Division
    <3> QED BY <3>2, <3>3
  <2> HIDE DEF r, i
  <2>3. n * 10^i = d \/ (d < 10 /\ n * 10^i = 10)
    BY <1>1, <2>1, <2>2 DEF Coarser
  <2>4. PICK x \in Nat \ {0} : 10^r = 10 * x
    BY <1>4, <2>1
  <2>5. 10^i = 10^z * 10^r
    <3>1. z \in Nat /\ r \in Nat /\ z + r <= M + 1
      BY <1>1, <1>2, <2>1
    <3>3. 10^(z + r) = 10^z * 10^r
      BY <3>1, TensSum DEF Scalable
    <3> QED BY <2>1, <3>3
  <2> DEFINE y == 10^z
  <2>6. y \in Nat \ {0} /\ d = D * y /\ n * 10^i = n * (y * (10 * x))
    BY <1>2, <1>3, <2>4, <2>5
  <2> HIDE DEF y
  <2>7. CASE n * 10^i = d
    <3>1. n * (y * (10 * x)) = (10 * (n * x)) * y
      BY <2>2, <2>4, <2>6
    <3> DEFINE e == n * x
    <3>2. e \in Nat /\ D * y = (10 * e) * y
      BY <2>2, <2>4, <2>6, <2>7, <3>1
    <3> HIDE DEF e
    <3>3. D = 10 * e
      <4>1. 10 * e \in Nat
        BY <3>2
      <4> QED BY <2>6, <3>2, <4>1, ProductOrder
    <3> QED BY <3>2, <3>3
  <2>8. CASE d < 10 /\ n * 10^i = 10
    <3>1. z = 0
      BY <1>8, <2>8
    <3>2. d = D /\ D < 10
      BY <1>7, <2>8, <3>1
    <3>3. n # 0
      <4>1. y * (10 * x) \in Nat
        BY <2>4, <2>6
      <4> QED BY <2>6, <2>8, <4>1
    <3>4. CASE len = 1
      <4>1. 10^(len - 1) = 1
        <5>1. len - 1 = 0 /\ 10^0 = 1
          BY <3>4
        <5> QED BY <5>1
      <4> QED BY <2>2, <3>3, <4>1
    <3>5. CASE len # 1
      <4>1. len - 1 \in 1 .. M
        BY <1>1, <1>2, <3>5
      <4>2. PICK w \in Nat \ {0} : 10^(len - 1) = 10 * w
        BY <1>4, <4>1
      <4>3. 10 * w <= D
        BY <4>2
      <4> QED BY <3>2, <4>3
    <3> QED BY <3>4, <3>5
  <2> QED BY <2>3, <2>7, <2>8
<1>10. ASSUME NEW e \in {D - 1, D + 1}, e > 0, RoundTrips(v, e, K),
              Closer(v, D, e, K)
       PROVE  FALSE
  <2>1. e \in Nat /\ e # D
    BY <1>5
  <2>2. CASE z = 0
    <3>1. ClosestAt(v, D, K)
      BY <1>1, <1>7, <2>2
    <3> QED BY <1>10, <2>1, <3>1 DEF ClosestAt
  <2>3. CASE z # 0
    <3>1. e * 10^z = d
      <4>1. z \in 1 .. M
        BY <1>2, <2>3
      <4>2. e * 10^z = d \/ d < 10
        BY <1>1, <1>10, <2>1, <4>1 DEF Coarser
      <4>3. d >= 10 /\ d \in Int
        BY <1>1, <1>8, <2>3
      <4> QED BY <4>2, <4>3
    <3> DEFINE y == 10^z
    <3>2. y \in Nat \ {0} /\ e * y = D * y
      BY <1>2, <1>3, <3>1
    <3> HIDE DEF y
    <3>3. e = D
      BY <2>1, <3>2, ProductOrder
    <3> QED BY <2>1, <3>3
  <2> QED BY <2>2, <2>3
(* Below a power of ten the neighbour is 9 with the next smaller exponent. *)
<1>11. ASSUME D = 10^(len - 1), RoundTrips(v, 10^len - 1, K - 1),
              Closer(v, 10 * D, 10^len - 1, K - 1)
       PROVE  FALSE
  <2>1. len = 1
    <3> SUFFICES ASSUME len # 1 PROVE FALSE
      OBVIOUS
    <3>1. len - 1 \in 1 .. M
      BY <1>1, <1>2
    <3>2. PICK w \in Nat \ {0} : 10^(len - 1) = 10 * w
      BY <1>4, <3>1
    <3>3. D = 10 * w
      BY <1>11, <3>2
    <3> QED BY <3>3
  <2>2. D = 1 /\ 10 * D = 10 /\ 10^len - 1 = 9
    <3>1. 10^0 = 1 /\ 10^1 = 10 /\ len - 1 = 0
      BY <2>1
    <3>2. D = 1
      BY <1>11, <3>1
    <3> QED BY <2>1, <3>1, <3>2
  <2>3. RoundTrips(v, 9, K - 1) /\ Closer(v, 10, 9, K - 1)
    BY <1>11, <2>2
  <2>4. CASE z = 0
    <3>1. d = 1 /\ K = k
      BY <1>7, <2>2, <2>4
    <3>2. ~NineBetter(v, k - 1)
      BY <1>1, <3>1
    <3> QED BY <2>3, <3>1, <3>2 DEF NineBetter
  <2>5. CASE z = 1
    <3>1. d = 10 /\ K - 1 = k
      <4>1. 10^1 = 10 /\ 1 * 10 = 10
        OBVIOUS
      <4>2. d = 1 * 10^1
        BY <2>2, <2>5
      <4>3. (k + 1) - 1 = k
        BY <1>1
      <4> QED BY <2>5, <4>1, <4>2, <4>3
    <3>2. ~NineBetter(v, k)
      BY <1>1, <3>1
    <3> QED BY <2>3, <3>1, <3>2 DEF NineBetter
  <2>6. CASE z # 0 /\ z # 1
    <3>1. z - 1 \in 1 .. M /\ k + (z - 1) = K - 1
      BY <1>1, <1>2, <2>6
    <3>2. d >= 10 /\ d \in Int /\ 9 \in Nat
      BY <1>1, <1>8, <2>6
    <3>3. 9 * 10^(z - 1) = d
      <4>1. 9 * 10^(z - 1) = d \/ d < 10
        BY <1>1, <2>3, <3>1, <3>2 DEF Coarser
      <4> QED BY <3>2, <4>1
    <3>4. PICK x \in Nat \ {0} : x = 10^(z - 1) /\ 10^z = 10 * x
      <4>1. z \in 1 .. M
        BY <1>2, <2>6
      <4> QED BY <1>4, <4>1
    <3>5. 9 * x = d /\ d = 1 * (10 * x)
      BY <2>2, <3>3, <3>4
    <3> QED BY <3>4, <3>5
  <2> QED BY <2>4, <2>5, <2>6
<1>12. ~HasCloser(v, D, K, len)
  BY <1>10, <1>11 DEF HasCloser
<1> QED BY <1>6, <1>9, <1>12

-----------------------------------------------------------------------------
(* The number made of the first digits of n, one digit more.               *)
LEMMA NextDigit ==
  ASSUME NEW M, TensKnown(M), NEW n \in Nat, NEW a \in 0 .. M
  PROVE  /\ n \div 10^a \in Nat
         /\ (n \div 10^a) % 10 \in 0..9
         /\ n \div 10^a = 10 * (n \div 10^(a + 1)) + ((n \div 10^a) % 10)
<1> DEFINE p == 10^a
           r == n \div p
<1>1. p \in Nat \ {0} /\ 10^(a + 1) = 10 * p
  BY TensOf
<1>2. n \div 10^(a + 1) = n \div (p * 10)
  BY <1>1
<1> HIDE DEF p
<1>3. r \div 10 = n \div (p * 10)
  <2>1. 10 \in Nat \ {0}
    OBVIOUS
  <2> QED BY <1>1, <2>1, DivisionTwice
<1>4. r \in Nat
  BY <1>1, Division
<1> HIDE DEF r
<1>5. r % 10 \in 0..9 /\ r = 10 * (r \div 10) + (r % 10)
  <2>1. \A m \in Nat : m % 10 \in 0..9 /\ m = 10 * (m \div 10) + (m % 10)
    OBVIOUS
  <2> QED BY <1>4, <2>1
<1> QED BY <1>2, <1>3, <1>4, <1>5 DEF p, r

(* The digit of weight 10^a lies in the rest of n modulo 10^h, a < h.      *)
LEMMA DigitOfRest ==
  ASSUME NEW M, TensKnown(M), NEW n \in Nat, NEW h \in 0 .. M, NEW a \in 0 .. h - 1
  PROVE  ((n % 10^h) \div 10^a) % 10 = (n \div 10^a) % 10
<1> DEFINE p == 10^a
           b == h - (a + 1)
           x == 10^b
           y == 10^h
           s == n \div y
           t == n % y
           u == t \div p
           w == t % p
<1>1. M \in Nat /\ a \in 0 .. M /\ b \in 0 .. M
      /\ a + 1 \in Nat /\ (a + 1) + b = h /\ h <= M + 1
  <2>1. M \in Nat
    BY DEF Scalable, TensKnown
  <2> QED BY <2>1
<1>2. p \in Nat \ {0} /\ x \in Nat \ {0} /\ y \in Nat \ {0} /\ 10^(a + 1) = 10 * p
  BY <1>1, TensOf
<1>3. y = (10 * p) * x
  <2>1. a + 1 \in Nat /\ b \in Nat /\ (a + 1) + b <= M + 1
    BY <1>1
  <2> HIDE DEF b
  <2>2. 10^((a + 1) + b) = 10^(a + 1) * 10^b
    BY <2>1, TensSum
  <2> QED BY <1>1, <1>2, <2>2
<1>4. s \in Nat /\ t \in 0 .. y - 1 /\ n = y * s + t
  <2> HIDE DEF y
  <2> QED BY <1>2, Division
<1> HIDE DEF s, t
<1>5. u \in Nat /\ w \in 0 .. p - 1 /\ t = p * u + w
  <2>1. t \in Nat
    <3> HIDE DEF y
    <3> QED BY <1>2, <1>4
  <2> HIDE DEF p
  <2> QED BY <1>2, <2>1, Division
<1> HIDE DEF u, w
<1> DEFINE m == x * s
<1>6. m \in Nat
  <2> HIDE DEF x
  <2> QED BY <1>2, <1>4
<1>7. n = p * (10 * m + u) + w
  <2> HIDE DEF p, x, y
  <2>1. y * s = p * (10 * m)
    BY <1>2, <1>3, <1>4
  <2>2. p * (10 * m + u) = p * (10 * m) + p * u
    BY <1>2, <1>5, <1>6
  <2>3. p * (10 * m) \in Nat /\ p * u \in Nat
    BY <1>2, <1>5, <1>6
  <2> HIDE DEF m
  <2> QED BY <1>2, <1>4, <1>5, <2>1, <2>2, <2>3
<1> HIDE DEF p, m
<1>8. 10 * m + u \in Nat
  BY <1>5, <1>6
<1>9. n \div p = 10 * m + u
  BY <1>2, <1>5, <1>7, <1>8, DivisionUnique
<1>10. (10 * m + u) % 10 = u % 10
  BY <1>5, <1>6
<1> QED BY <1>9, <1>10 DEF u, t, p

(* n digit places of d.                                                    *)
DigitPlaces(d, n) == [i \in 1..n |-> (d \div 10^(n - i)) % 10]

(* With as many places as d has digits, they make d again.                 *)
LEMMA DigitsOf ==
  ASSUME NEW M, TensKnown(M), NEW n \in 1..M, NEW d \in Nat,
         10^(n - 1) <= d, d < 10^n
  PROVE  /\ DigitPlaces(d, n) \in Seq(0..9)
         /\ Len(DigitPlaces(d, n)) = n
         /\ DigitPlaces(d, n)[1] # 0
         /\ DigitPlaces(d, n)[n] = d % 10
         /\ DigitsValue(DigitPlaces(d, n)) = d
<1> DEFINE First(j) == d \div 10^(n - j)
           s == DigitPlaces(d, n)
           y == 10^n
           x == 10^(n - 1)
<1>1. M \in Nat /\ n \in Nat \ {0}
  BY DEF TensKnown
<1>2. \A j \in 1..n : /\ First(j) \in Nat /\ First(j) % 10 \in 0..9
                      /\ First(j) = 10 * First(j - 1) + (First(j) % 10)
  <2> SUFFICES ASSUME NEW j \in 1..n
               PROVE  /\ First(j) \in Nat /\ First(j) % 10 \in 0..9
                      /\ First(j) = 10 * First(j - 1) + (First(j) % 10)
    OBVIOUS
  <2> DEFINE a == n - j
  <2>1. a \in 0..M /\ a + 1 = n - (j - 1)
    BY <1>1
  <2> HIDE DEF a
  <2>2. /\ d \div 10^a \in Nat
        /\ (d \div 10^a) % 10 \in 0..9
        /\ d \div 10^a = 10 * (d \div 10^(a + 1)) + ((d \div 10^a) % 10)
    BY <2>1, NextDigit
  <2> QED BY <2>1, <2>2 DEF a
<1>3. x \in Nat \ {0} /\ y = 10 * x
  <2>1. n - 1 \in 0..M /\ (n - 1) + 1 = n
    BY <1>1
  <2> QED BY <2>1, TensOf
<1>4. First(0) = 0
  <2>1. n - 0 = n
    BY <1>1
  <2>2. d \div y = 0
    <3>1. d < y
      OBVIOUS
    <3> HIDE DEF x, y
    <3>2. y \in Nat \ {0}
      BY <1>3
    <3>3. y * 0 + d = d /\ 0 \in Nat /\ d \in 0 .. y - 1
      BY <3>1, <3>2
    <3> QED BY <3>2, <3>3, DivisionUnique
  <2> QED BY <2>1, <2>2
<1>5. s = [i \in 1..n |-> First(i) % 10]
  BY DEF DigitPlaces
<1>6. s \in Seq(0..9) /\ Len(s) = n
  <2> HIDE DEF First
  <2>1. \A i \in 1..n : First(i) % 10 \in 0..9
    BY <1>2
  <2>2. [i \in 1..n |-> First(i) % 10] \in Seq(0..9)
        /\ Len([i \in 1..n |-> First(i) % 10]) = n
    BY <1>1, <2>1
  <2> HIDE DEF s
  <2> QED BY <1>5, <2>2
<1>7. First(n) = d
  <2>1. n - n = 0 /\ 10^0 = 1 /\ d \div 1 = d
    BY <1>1
  <2> QED BY <2>1
<1>8. s[n] = d % 10
  <2>1. n \in 1..n
    BY <1>1
  <2> HIDE DEF First, s
  <2>2. s[n] = First(n) % 10
    BY <1>5, <2>1
  <2> QED BY <1>7, <2>2
<1>9. s[1] # 0
  <2> DEFINE f == d \div x
             r == d % x
  <2>1. s[1] = f % 10
    <3>1. 1 \in 1..n
      BY <1>1
    <3> HIDE DEF s
    <3> QED BY <1>5, <3>1
  <2>2. x <= d /\ d < y
    OBVIOUS
  <2> HIDE DEF x, y
  <2>3. f \in Nat /\ r \in 0 .. x - 1 /\ d = x * f + r
    BY <1>3, Division
  <2> HIDE DEF f, r
  <2>4. f # 0
    <3> SUFFICES ASSUME f = 0 PROVE FALSE
      OBVIOUS
    <3>1. x * f = 0
      BY <1>3
    <3> QED BY <1>3, <2>2, <2>3, <3>1
  <2>5. ~(f >= 10)
    <3> SUFFICES ASSUME f >= 10 PROVE FALSE
      OBVIOUS
    <3>1. 10 * x <= f * x
      BY <1>3, <2>3, MonotoneProduct
    <3>2. f * x = x * f /\ x * f \in Nat
      BY <1>3, <2>3
    <3> QED BY <1>3, <2>2, <2>3, <3>1, <3>2
  <2> QED BY <2>1, <2>3, <2>4, <2>5
<1>10. DigitsValue(s) = d
  <2> DEFINE g == [i \in 0..n |-> First(i)]
  <2>1. ASSUME NEW i \in 0..n
        PROVE  First(i) = IF i = 0 THEN 0 ELSE 10 * g[i - 1] + s[i]
    <3>1. CASE i = 0
      BY <1>4, <3>1
    <3>2. CASE i # 0
      <4>1. i \in 1..n /\ i - 1 \in 0..n
        BY <1>1, <3>2
      <4>2. s[i] = First(i) % 10
        <5> HIDE DEF s, First
        <5> QED BY <1>5, <4>1
      <4>3. g[i - 1] = First(i - 1)
        BY <4>1
      <4>4. First(i) = 10 * First(i - 1) + (First(i) % 10)
        BY <1>2, <4>1
      <4> HIDE DEF First, s, g
      <4> QED BY <3>2, <4>2, <4>3, <4>4
    <3> QED BY <3>1, <3>2
  <2>2. g = [i \in 0..n |-> IF i = 0 THEN 0 ELSE 10 * g[i - 1] + s[i]]
    <3> DEFINE e(i) == IF i = 0 THEN 0 ELSE 10 * g[i - 1] + s[i]
    <3>1. \A i \in 0..n : First(i) = e(i)
      BY <2>1
    <3> HIDE DEF e, First
    <3>2. g = [i \in 0..n |-> e(i)]
      BY <3>1
    <3> QED BY <3>2 DEF e
  <2>3. g[n] = d
    BY <1>1, <1>7
  <2> HIDE DEF g, s, First
  <2>4. DigitsValue(s) = g[n]
    BY <1>1, <1>6, <2>2, DigitsValueIs
  <2> QED BY <2>3, <2>4
<1> QED BY <1>6, <1>8, <1>9, <1>10


-----------------------------------------------------------------------------
(* The rounding interval at an exponent that leaves it an integer or a few *)
(* wide, as every converter of the repository chooses it.                  *)
SpansOne(v, k) ==
  LET N == Twos(BinExp(v), k)
      T == Tens(BinExp(v), k)
  IN IF HalfGapBelow(v) THEN 4 * T < 3 * N /\ 3 * N < 40 * T
                        ELSE T <= N /\ N < 10 * T

Framed(v, k, M) ==
  /\ Scalable(v, k, M)
  /\ SpansOne(v, k)
  /\ implicit_bit \in Nat \ {0}
  /\ BinSig(v) \in 1 .. 2 * implicit_bit - 1
  /\ HalfGapBelow(v) => BinSig(v) = implicit_bit /\ BinSig(v) % 2 = 0
  /\ 20 * implicit_bit <= 10^M

(* |v|, the lower half of its interval, and d * 10^k, on one scale.        *)
Middle(v, k)   == (4 * BinSig(v)) * Twos(BinExp(v), k)
Down(v, k)     == IF HalfGapBelow(v) THEN Twos(BinExp(v), k) ELSE 2 * Twos(BinExp(v), k)
Place(v, d, k) == (4 * d) * Tens(BinExp(v), k)

LEMMA FramedFactors ==
  ASSUME NEW v, NEW k, NEW M, Framed(v, k, M)
  PROVE  /\ Twos(BinExp(v), k) \in Nat \ {0} /\ Tens(BinExp(v), k) \in Nat \ {0}
         /\ BinSig(v) \in Nat \ {0}
         /\ Middle(v, k) \in Nat /\ 4 * Twos(BinExp(v), k) <= Middle(v, k)
<1>1. M \in Nat \ {0} /\ k \in Int /\ BinSig(v) \in Nat \ {0}
  BY DEF Framed, Scalable, TensKnown
<1>2. k \in k - 1 .. k + M
  BY <1>1
<1>3. Twos(BinExp(v), k) \in Nat \ {0} /\ Tens(BinExp(v), k) \in Nat \ {0}
  BY <1>2, ScaleFactors DEF Framed
<1> DEFINE N == Twos(BinExp(v), k)
           c == BinSig(v)
<1>4. (4 * c) * N \in Nat /\ 4 * N <= (4 * c) * N
  <2>1. N \in Nat \ {0} /\ c \in Nat \ {0}
    BY <1>1, <1>3
  <2> HIDE DEF N, c
  <2>2. 4 \in Int /\ 4 * c \in Int /\ 4 <= 4 * c
    BY <2>1
  <2> QED BY <2>1, <2>2, MonotoneProduct
<1> QED BY <1>1, <1>3, <1>4 DEF Middle

LEMMA Placed ==
  ASSUME NEW v, NEW k, NEW M, Framed(v, k, M), NEW d \in Nat
  PROVE  LET N == Twos(BinExp(v), k)
             y == Middle(v, k)
             w == Place(v, d, k)
         IN /\ w \in Nat
            /\ RoundTrips(v, d, k) <=>
                 IF BinSig(v) % 2 = 0 THEN y - Down(v, k) <= w /\ w <= y + 2 * N
                                      ELSE y - Down(v, k) < w /\ w < y + 2 * N
<1> DEFINE N == Twos(BinExp(v), k)
           T == Tens(BinExp(v), k)
           c == BinSig(v)
           l == LowerQuarters(v)
           w == (4 * d) * T
<1>1. N \in Nat \ {0} /\ T \in Nat \ {0} /\ c \in Nat \ {0}
  BY FramedFactors
<1>2. RoundTrips(v, d, k) <=>
        IF c % 2 = 0 THEN l * N <= w /\ w <= (4 * c + 2) * N
                     ELSE l * N < w /\ w < (4 * c + 2) * N
  BY <1>1, RoundTripsInIntegers
<1>3. l * N = (4 * c) * N - Down(v, k)
  <2>1. CASE HalfGapBelow(v)
    <3>1. l = 4 * c - 1 /\ Down(v, k) = N
      BY <2>1 DEF LowerQuarters, Down
    <3> HIDE DEF l, N, c
    <3> QED BY <1>1, <3>1
  <2>2. CASE ~HalfGapBelow(v)
    <3>1. l = 4 * c - 2 /\ Down(v, k) = 2 * N
      BY <2>2 DEF LowerQuarters, Down
    <3> HIDE DEF l, N, c
    <3> QED BY <1>1, <3>1
  <2> QED BY <2>1, <2>2
<1>4. (4 * c + 2) * N = (4 * c) * N + 2 * N
  <2> HIDE DEF N, c
  <2> QED BY <1>1
<1>5. w \in Nat
  <2> HIDE DEF T
  <2> QED BY <1>1
<1> QED BY <1>2, <1>3, <1>4, <1>5 DEF Place, Middle

LEMMA PlacesAdd ==
  ASSUME NEW v, NEW k, Tens(BinExp(v), k) \in Nat \ {0}, NEW d \in Nat, NEW e \in Nat
  PROVE  /\ Place(v, d + e, k) = Place(v, d, k) + Place(v, e, k)
         /\ Place(v, 1, k) = 4 * Tens(BinExp(v), k)
         /\ Place(v, 10 * d, k) = 10 * Place(v, d, k)
         /\ Place(v, d, k) \in Nat
         /\ d < e => Place(v, d, k) + 4 * Tens(BinExp(v), k) <= Place(v, e, k)
<1> DEFINE T == Tens(BinExp(v), k)
<1>1. T \in Nat \ {0}
  OBVIOUS
<1> HIDE DEF T
<1>2. /\ (4 * (d + e)) * T = (4 * d) * T + (4 * e) * T
      /\ (4 * 1) * T = 4 * T
      /\ (4 * (10 * d)) * T = 10 * ((4 * d) * T)
      /\ (4 * d) * T \in Nat
  BY <1>1
<1>3. d < e => (4 * d) * T + 4 * T <= (4 * e) * T
  <2> SUFFICES ASSUME d < e PROVE (4 * d) * T + 4 * T <= (4 * e) * T
    OBVIOUS
  <2>1. 4 * d + 4 \in Int /\ 4 * e \in Int /\ 4 * d + 4 <= 4 * e
    OBVIOUS
  <2>2. (4 * d + 4) * T <= (4 * e) * T
    BY <1>1, <2>1, MonotoneProduct
  <2>3. (4 * d + 4) * T = (4 * d) * T + 4 * T
    BY <1>1
  <2> QED BY <2>2, <2>3
<1> QED BY <1>2, <1>3 DEF Place, T

(* The other way around, the order of the places is that of the numbers.   *)
LEMMA PlacesOrder ==
  ASSUME NEW v, NEW k, Tens(BinExp(v), k) \in Nat \ {0}, NEW d \in Nat, NEW e \in Nat
  PROVE  /\ Place(v, d, k) < Place(v, e, k) <=> d < e
         /\ Place(v, d, k) <= Place(v, e, k) <=> d <= e
<1>1. /\ Place(v, d, k) \in Nat /\ Place(v, e, k) \in Nat
      /\ d < e => Place(v, d, k) + 4 * Tens(BinExp(v), k) <= Place(v, e, k)
      /\ e < d => Place(v, e, k) + 4 * Tens(BinExp(v), k) <= Place(v, d, k)
  BY PlacesAdd
<1> QED BY <1>1

LEMMA CloserPlaces ==
  ASSUME NEW v, NEW k, NEW M, Framed(v, k, M), NEW d \in Nat, NEW e \in Nat
  PROVE  Closer(v, d, e, k) <=>
           \/ e > d /\ Place(v, d, k) + Place(v, e, k) < 2 * Middle(v, k)
           \/ e < d /\ 2 * Middle(v, k) < Place(v, d, k) + Place(v, e, k)
<1> DEFINE N == Twos(BinExp(v), k)
           T == Tens(BinExp(v), k)
           c == BinSig(v)
<1>1. N \in Nat \ {0} /\ T \in Nat \ {0} /\ c \in Nat \ {0}
  BY FramedFactors
<1>2. Closer(v, d, e, k) <=>
        \/ e > d /\ (4 * (d + e)) * T < (8 * c) * N
        \/ e < d /\ (8 * c) * N < (4 * (d + e)) * T
  BY <1>1, CloserInIntegers
<1>3. (8 * c) * N = 2 * ((4 * c) * N)
  <2> HIDE DEF N, c
  <2> QED BY <1>1
<1>4. Place(v, d + e, k) = Place(v, d, k) + Place(v, e, k)
  BY <1>1, PlacesAdd
<1>5. Place(v, d + e, k) = (4 * (d + e)) * T
  BY DEF Place
<1>6. Middle(v, k) = (4 * c) * N
  BY DEF Middle
<1> HIDE DEF N, T, c
<1> QED BY <1>2, <1>3, <1>4, <1>5, <1>6


(* The interval holds an integer.                                          *)
LEMMA OneInside ==
  ASSUME NEW v, NEW k, NEW M, Framed(v, k, M)
  PROVE  \E d \in Nat : RoundTrips(v, d, k)
<1> DEFINE N == Twos(BinExp(v), k)
           T == Tens(BinExp(v), k)
           c == BinSig(v)
           x == c * N
           d == x \div T
           y == Middle(v, k)
           g == Down(v, k)
           w == Place(v, d, k)
           z == Place(v, d + 1, k)
<1>1. N \in Nat \ {0} /\ T \in Nat \ {0} /\ c \in Nat \ {0} /\ y \in Nat
  BY FramedFactors
<1>2. x \in Nat
  <2> HIDE DEF N, c
  <2> QED BY <1>1
<1>3. y = 4 * x
  <2>1. (4 * c) * N = 4 * (c * N)
    <3> HIDE DEF N, c
    <3> QED BY <1>1
  <2> QED BY <2>1 DEF Middle
<1>4. d \in Nat /\ d + 1 \in Nat /\ T * d <= x /\ x < T * d + T
  <2> HIDE DEF x, T
  <2>1. d \in Nat /\ x % T \in 0 .. T - 1 /\ x = T * d + (x % T)
    BY <1>1, <1>2, Division
  <2> HIDE DEF d
  <2>2. T * d \in Nat
    BY <1>1, <2>1
  <2> QED BY <1>1, <1>2, <2>1, <2>2
<1> HIDE DEF d
<1>5. w \in Nat /\ z = w + 4 * T /\ w <= y /\ y < z
  <2>1. w \in Nat /\ z = w + Place(v, 1, k) /\ Place(v, 1, k) = 4 * T
    BY <1>1, <1>4, PlacesAdd
  <2>2. w = 4 * (T * d)
    <3>1. (4 * d) * T = 4 * (T * d)
      <4> HIDE DEF T
      <4> QED BY <1>1, <1>4
    <3> QED BY <3>1 DEF Place
  <2> HIDE DEF w, z, x, y, T
  <2>3. T * d \in Nat
    BY <1>1, <1>4
  <2> QED BY <1>1, <1>2, <1>3, <1>4, <2>1, <2>2, <2>3
<1>6. g = IF HalfGapBelow(v) THEN N ELSE 2 * N
  BY DEF Down
<1>7. /\ RoundTrips(v, d, k) <=> IF c % 2 = 0 THEN y - g <= w /\ w <= y + 2 * N
                                              ELSE y - g < w /\ w < y + 2 * N
      /\ RoundTrips(v, d + 1, k) <=> IF c % 2 = 0 THEN y - g <= z /\ z <= y + 2 * N
                                                  ELSE y - g < z /\ z < y + 2 * N
  BY <1>4, Placed
<1>8. IF HalfGapBelow(v) THEN 4 * T < 3 * N /\ c % 2 = 0 ELSE T <= N
  BY DEF Framed, SpansOne
<1>9. c % 2 # 0 /\ T = N => w # y - 2 * N
  <2> SUFFICES ASSUME c % 2 # 0, T = N, w = y - 2 * N PROVE FALSE
    OBVIOUS
  <2>1. (4 * d) * N = (4 * c - 2) * N
    <3>1. w = (4 * d) * N /\ y = (4 * c) * N
      BY <2>1 DEF Place, Middle
    <3>2. (4 * c - 2) * N = (4 * c) * N - 2 * N
      <4> HIDE DEF N, c
      <4> QED BY <1>1
    <3> QED BY <3>1, <3>2
  <2> HIDE DEF N, c, w, y
  <2>2. 4 * d \in Nat /\ 4 * c - 2 \in Nat
    BY <1>1, <1>4
  <2>3. 4 * d = 4 * c - 2
    BY <1>1, <2>1, <2>2, ProductOrder
  <2> QED BY <1>1, <1>4, <2>3
<1> HIDE DEF N, T, c, y, g, w, z
<1>10. RoundTrips(v, d, k) \/ RoundTrips(v, d + 1, k)
  <2>1. c % 2 = 0 \/ c % 2 # 0
    OBVIOUS
  <2>2. CASE HalfGapBelow(v)
    BY <1>1, <1>5, <1>6, <1>7, <1>8, <2>2
  <2>3. CASE ~HalfGapBelow(v)
    BY <1>1, <1>5, <1>6, <1>7, <1>8, <1>9, <2>3
  <2> QED BY <2>2, <2>3
<1> QED BY <1>4, <1>10

(* It holds one multiple of ten at most.                                   *)
LEMMA OneTen ==
  ASSUME NEW v, NEW k, NEW M, Framed(v, k, M), NEW m \in Nat, NEW n \in Nat,
         RoundTrips(v, 10 * m, k), RoundTrips(v, 10 * n, k)
  PROVE  m = n
<1> SUFFICES ASSUME NEW a \in Nat, NEW b \in Nat, a < b,
                    RoundTrips(v, 10 * a, k), RoundTrips(v, 10 * b, k)
             PROVE  FALSE
  <2>1. m < n => FALSE
    OBVIOUS
  <2>2. n < m => FALSE
    OBVIOUS
  <2> QED BY <2>1, <2>2
<1> DEFINE N == Twos(BinExp(v), k)
           T == Tens(BinExp(v), k)
           y == Middle(v, k)
           g == Down(v, k)
           w == Place(v, 10 * a, k)
           z == Place(v, 10 * b, k)
<1>1. N \in Nat \ {0} /\ T \in Nat \ {0} /\ y \in Nat
  BY FramedFactors
<1>2. g = IF HalfGapBelow(v) THEN N ELSE 2 * N
  BY DEF Down
<1>3. 10 * a \in Nat /\ 10 * b \in Nat
  OBVIOUS
<1>4. y - g <= w /\ z <= y + 2 * N
  <2>1. /\ w \in Nat /\ z \in Nat
        /\ y - g <= w \/ y - g < w
        /\ z <= y + 2 * N \/ z < y + 2 * N
    BY <1>3, Placed
  <2> HIDE DEF N, y, g, w, z
  <2> QED BY <1>1, <1>2, <2>1
<1>5. w + 40 * T <= z
  <2>1. /\ w = 10 * Place(v, a, k) /\ z = 10 * Place(v, b, k)
        /\ Place(v, a, k) \in Nat /\ Place(v, b, k) \in Nat
        /\ Place(v, a, k) + 4 * T <= Place(v, b, k)
    BY <1>1, PlacesAdd
  <2> HIDE DEF T, w, z
  <2> QED BY <1>1, <2>1
<1>6. IF HalfGapBelow(v) THEN 3 * N < 40 * T ELSE N < 10 * T
  BY DEF Framed, SpansOne
<1>7. w \in Nat /\ z \in Nat
  BY <1>3, Placed
<1> HIDE DEF N, T, y, g, w, z
<1> QED BY <1>1, <1>2, <1>4, <1>5, <1>6, <1>7

(* The interval does not reach down to zero, and 10^k is not above |v|.    *)
LEMMA InsidePositive ==
  ASSUME NEW v, NEW k, NEW M, Framed(v, k, M), NEW d \in Nat, RoundTrips(v, d, k)
  PROVE  d # 0
<1> SUFFICES ASSUME d = 0 PROVE FALSE
  OBVIOUS
<1> DEFINE N == Twos(BinExp(v), k)
           T == Tens(BinExp(v), k)
           y == Middle(v, k)
           g == Down(v, k)
           w == Place(v, d, k)
<1>1. N \in Nat \ {0} /\ T \in Nat \ {0} /\ y \in Nat /\ 4 * N <= y
  BY FramedFactors
<1>2. g = IF HalfGapBelow(v) THEN N ELSE 2 * N
  BY DEF Down
<1>3. y - g <= w \/ y - g < w
  BY Placed
<1>4. w = 0
  <2>1. (4 * 0) * T = 0
    <3> HIDE DEF T
    <3> QED BY <1>1
  <2> QED BY <2>1 DEF Place
<1> HIDE DEF N, y, g, w
<1> QED BY <1>1, <1>2, <1>3, <1>4

LEMMA OneNotAbove ==
  ASSUME NEW v, NEW k, NEW M, Framed(v, k, M)
  PROVE  NotAbove(v, 1, k)
<1> DEFINE N == Twos(BinExp(v), k)
           T == Tens(BinExp(v), k)
           c == BinSig(v)
           n == 4 * c
<1>1. N \in Nat \ {0} /\ T \in Nat \ {0} /\ c \in Nat \ {0}
      /\ Middle(v, k) \in Nat /\ 4 * N <= Middle(v, k)
  BY FramedFactors
<1>2. T <= N
  <2>1. 4 * T < 3 * N \/ T <= N
    BY DEF Framed, SpansOne
  <2> HIDE DEF N, T
  <2> QED BY <1>1, <2>1
<1>3. n \in Nat /\ 1 \in Nat
  BY <1>1
<1> HIDE DEF n
<1>4. DecimalLeq(1, k, n, BinExp(v)) <=> (4 * 1) * T <= n * N
  BY <1>1, <1>3, ComparesInIntegers
<1>5. n * N = Middle(v, k)
  BY DEF Middle, n
<1>6. (4 * 1) * T = 4 * T
  OBVIOUS
<1> HIDE DEF N, T
<1>7. DecimalLeq(1, k, n, BinExp(v))
  BY <1>1, <1>2, <1>4, <1>5, <1>6
<1> QED BY <1>7 DEF NotAbove, n


(* What is read back as v has at most M digits.                            *)
LEMMA InsideBound ==
  ASSUME NEW v, NEW k, NEW M, Framed(v, k, M), NEW d \in Nat, RoundTrips(v, d, k)
  PROVE  d \in 1 .. 10^M - 1
<1> DEFINE c == BinSig(v)
           N == Twos(BinExp(v), k)
           T == Tens(BinExp(v), k)
           I == implicit_bit
           y == (4 * c) * N
           w == (4 * d) * T
<1>1. d # 0
  BY InsidePositive
<1>2. N \in Nat \ {0} /\ T \in Nat \ {0} /\ I \in Nat \ {0}
  BY FramedFactors DEF Framed
<1>3. /\ c \in 1 .. 2 * I - 1
      /\ IF HalfGapBelow(v) THEN c = I /\ 3 * N < 40 * T ELSE N < 10 * T
  BY DEF Framed, SpansOne
<1>4. 20 * I <= 10^M /\ 10^M \in Nat
  <2>1. TensKnown(M) /\ M \in Nat
    BY DEF Framed, Scalable, TensKnown
  <2>2. M \in 0 .. M
    BY <2>1
  <2> QED BY <2>1, <2>2, TensOf DEF Framed
<1>5. w <= y + 2 * N /\ w \in Nat
  <2> DEFINE p == Place(v, d, k)
             r == Middle(v, k)
  <2>1. p \in Nat /\ (p <= r + 2 * N \/ p < r + 2 * N)
    BY Placed
  <2>2. r \in Nat
    BY FramedFactors
  <2>3. p = w /\ r = y
    BY DEF Place, Middle
  <2> HIDE DEF p, r, N, w, y
  <2> QED BY <1>2, <2>1, <2>2, <2>3
<1> HIDE DEF c, N, T, I
<1>6. 3 * w <= (12 * c + 6) * N
  <2>1. y \in Nat /\ w \in Nat
    BY <1>2, <1>3
  <2>2. (12 * c + 6) * N = 3 * (y + 2 * N)
    BY <1>2, <1>3
  <2> HIDE DEF y, w
  <2> QED BY <1>5, <1>2, <2>1, <2>2
<1>7. (12 * c + 6) * N < (240 * I) * T
  <2>1. CASE ~HalfGapBelow(v)
    <3>1. (12 * c + 6) * N <= (24 * I - 6) * N
      <4>1. 12 * c + 6 \in Int /\ 24 * I - 6 \in Int /\ 12 * c + 6 <= 24 * I - 6
        BY <1>2, <1>3
      <4> QED BY <1>2, <4>1, MonotoneProduct
    <3>2. (24 * I - 6) * N < (24 * I - 6) * (10 * T)
      <4>1. N < 10 * T /\ N \in Int /\ 10 * T \in Int /\ 24 * I - 6 \in Nat \ {0}
        BY <1>2, <1>3, <2>1
      <4> DEFINE a == 24 * I - 6
                 b == 10 * T
      <4> HIDE DEF a, b
      <4>2. N * a < b * a
        BY <4>1, MonotoneProduct DEF a, b
      <4>3. N * a = a * N /\ b * a = a * b
        BY <1>2, <4>1 DEF a, b
      <4> QED BY <4>2, <4>3 DEF a, b
    <3>3. (24 * I - 6) * (10 * T) = (240 * I) * T - 60 * T
      BY <1>2
    <3>4. (12 * c + 6) * N \in Int /\ (24 * I - 6) * N \in Int /\ (240 * I) * T \in Int
      BY <1>2, <1>3
    <3> QED BY <1>2, <3>1, <3>2, <3>3, <3>4
  <2>2. CASE HalfGapBelow(v)
    <3>1. c = I /\ 3 * N < 40 * T
      BY <1>3, <2>2
    <3>2. (12 * c + 6) * N = (4 * I + 2) * (3 * N)
      BY <1>2, <3>1
    <3>3. (4 * I + 2) * (3 * N) < (4 * I + 2) * (40 * T)
      <4> DEFINE a == 4 * I + 2
                 b == 40 * T
                 n == 3 * N
      <4>1. n < b /\ n \in Int /\ b \in Int /\ a \in Nat \ {0}
        BY <1>2, <3>1
      <4> HIDE DEF a, b, n
      <4>2. n * a < b * a
        BY <4>1, MonotoneProduct
      <4>3. n * a = a * n /\ b * a = a * b
        BY <4>1
      <4> QED BY <4>2, <4>3 DEF a, b, n
    <3>4. (4 * I + 2) * (40 * T) <= (240 * I) * T
      <4>1. (4 * I + 2) * (40 * T) = (160 * I + 80) * T
        BY <1>2
      <4>2. (160 * I + 80) * T <= (240 * I) * T
        <5>1. 160 * I + 80 \in Int /\ 240 * I \in Int /\ 160 * I + 80 <= 240 * I
          BY <1>2
        <5> QED BY <1>2, <5>1, MonotoneProduct
      <4> QED BY <4>1, <4>2
    <3>5. (4 * I + 2) * (3 * N) \in Int /\ (4 * I + 2) * (40 * T) \in Int
          /\ (240 * I) * T \in Int
      BY <1>2
    <3> QED BY <3>2, <3>3, <3>4, <3>5
  <2> QED BY <2>1, <2>2
<1>8. (12 * d) * T < (240 * I) * T
  <2>1. 3 * w = (12 * d) * T
    BY <1>2
  <2>2. (12 * d) * T \in Int /\ (12 * c + 6) * N \in Int /\ (240 * I) * T \in Int
    BY <1>2, <1>3
  <2> QED BY <1>6, <1>7, <2>1, <2>2
<1>9. 12 * d < 240 * I
  <2>1. 12 * d \in Nat /\ 240 * I \in Nat
    BY <1>2
  <2> QED BY <1>2, <1>8, <2>1, ProductOrder
<1> QED BY <1>1, <1>2, <1>4, <1>9

(* d * 10^k is at most half of 10^k away from |v|.                         *)
IsNear(v, d, k) ==
  LET w == Place(v, d, k)
      y == Middle(v, k)
      T == Tens(BinExp(v), k)
  IN w <= y + 2 * T /\ y <= w + 2 * T

LEMMA NearIsNearest ==
  ASSUME NEW v, NEW k, NEW M, Framed(v, k, M), NEW d \in Nat, IsNear(v, d, k)
  PROVE  ClosestAt(v, d, k)
<1> SUFFICES ASSUME NEW e \in Nat PROVE ~Closer(v, d, e, k)
  BY DEF ClosestAt
<1> DEFINE T == Tens(BinExp(v), k)
           y == Middle(v, k)
           w == Place(v, d, k)
           z == Place(v, e, k)
<1>1. T \in Nat \ {0} /\ y \in Nat
  BY FramedFactors
<1>2. /\ w \in Nat /\ z \in Nat
      /\ d < e => w + 4 * T <= z
      /\ e < d => z + 4 * T <= w
  BY <1>1, PlacesAdd
<1>3. Closer(v, d, e, k) <=> \/ e > d /\ w + z < 2 * y
                             \/ e < d /\ 2 * y < w + z
  BY CloserPlaces
<1>4. w <= y + 2 * T /\ y <= w + 2 * T
  BY DEF IsNear
<1> HIDE DEF T, y, w, z
<1> QED BY <1>1, <1>2, <1>3, <1>4

LEMMA AloneIsNearest ==
  ASSUME NEW v, NEW k, NEW M, Framed(v, k, M), NEW d \in Nat,
         \A e \in Nat : RoundTrips(v, e, k) => e = d
  PROVE  ClosestAt(v, d, k)
<1>1. ~Closer(v, d, d, k)
  BY CloserPlaces
<1> QED BY <1>1 DEF ClosestAt

(* With two neighbours in the interval, the integer nearest to |v| is in   *)
(* it, even where the interval is shorter below than above.                *)
LEMMA NearestInside ==
  ASSUME NEW v, NEW k, NEW M, Framed(v, k, M), NEW d \in Nat, IsNear(v, d, k),
         NEW n \in Nat, RoundTrips(v, n, k), RoundTrips(v, n + 1, k)
  PROVE  RoundTrips(v, d, k)
<1> DEFINE N == Twos(BinExp(v), k)
           T == Tens(BinExp(v), k)
           c == BinSig(v)
           y == Middle(v, k)
           g == Down(v, k)
           w == Place(v, d, k)
           a == Place(v, n, k)
           b == Place(v, n + 1, k)
<1>1. N \in Nat \ {0} /\ T \in Nat \ {0} /\ y \in Nat
  BY FramedFactors
<1>2. g = N \/ g = 2 * N
  BY DEF Down
<1>3. n + 1 \in Nat
  OBVIOUS
<1>4. /\ w \in Nat /\ a \in Nat /\ b \in Nat
      /\ RoundTrips(v, d, k) <=> IF c % 2 = 0 THEN y - g <= w /\ w <= y + 2 * N
                                              ELSE y - g < w /\ w < y + 2 * N
      /\ IF c % 2 = 0 THEN y - g <= a /\ b <= y + 2 * N
                      ELSE y - g < a /\ b < y + 2 * N
  BY <1>3, Placed
<1>5. /\ d < n => w + 4 * T <= a
      /\ d = n => w = a
      /\ n + 1 < d => b + 4 * T <= w
      /\ n + 1 = d => w = b
      /\ b = a + 4 * T
  <2>1. d < n => w + 4 * T <= a
    BY <1>1, PlacesAdd
  <2>2. n + 1 < d => b + 4 * T <= w
    BY <1>1, <1>3, PlacesAdd
  <2>3. b = a + Place(v, 1, k) /\ Place(v, 1, k) = 4 * T
    BY <1>1, PlacesAdd
  <2> QED BY <2>1, <2>2, <2>3
<1>6. w <= y + 2 * T /\ y <= w + 2 * T
  BY DEF IsNear
<1>7. d < n \/ d = n \/ d = n + 1 \/ n + 1 < d
  OBVIOUS
<1>8. c % 2 = 0 \/ c % 2 # 0
  OBVIOUS
<1> HIDE DEF N, T, c, y, g, w, a, b
<1> QED BY <1>1, <1>2, <1>4, <1>5, <1>6, <1>7, <1>8

(* The multiple of ten in the interval, if there is one, and the nearest   *)
(* integer in it, if there is none, is what a shortest converter wants.    *)
LEMMA BestTen ==
  ASSUME NEW v, NEW k, NEW M, Framed(v, k, M), NEW m \in Nat, RoundTrips(v, 10 * m, k),
         m = 1 => ~NineBetter(v, k)
  PROVE  BestDecimal(v, 10 * m, k, M)
<1> DEFINE d == 10 * m
<1>1. d \in Nat /\ d % 10 = 0 /\ (d = 10 => m = 1) /\ d # 1
  OBVIOUS
<1>2. d \in 1 .. 10^M - 1
  BY <1>1, InsideBound
<1>3. \A n \in Nat : RoundTrips(v, 10 * n, k) => 10 * n = d
  BY OneTen
<1>4. Scalable(v, k, M)
  BY DEF Framed
<1> HIDE DEF d
<1>5. Coarser(v, d, k, M)
  BY <1>3, <1>4, CoarserFromTens DEF OnlyTens
<1>6. RoundTrips(v, d, k)
  BY DEF d
<1>7. BestDecimal(v, d, k, M)
  BY <1>1, <1>2, <1>5, <1>6 DEF BestDecimal
<1> QED BY <1>7 DEF d

LEMMA BestOther ==
  ASSUME NEW v, NEW k, NEW M, Framed(v, k, M), NEW d \in Nat, RoundTrips(v, d, k),
         ClosestAt(v, d, k), \A m \in Nat : ~RoundTrips(v, 10 * m, k)
  PROVE  BestDecimal(v, d, k, M)
<1>1. d \in 1 .. 10^M - 1
  BY InsideBound
<1>2. Scalable(v, k, M)
  BY DEF Framed
<1>3. Coarser(v, d, k, M)
  BY <1>2, CoarserFromTens DEF OnlyTens
<1>4. d # 10
  <2> SUFFICES ASSUME d = 10 PROVE FALSE
    OBVIOUS
  <2>1. RoundTrips(v, 10 * 1, k)
    <3>1. 10 * 1 = 10
      OBVIOUS
    <3> QED BY <3>1
  <2> QED BY <2>1
<1>5. ~NineBetter(v, k - 1)
  <2>1. NotAbove(v, 1, k)
    BY OneNotAbove
  <2>2. /\ Twos(BinExp(v), k - 1) \in Nat \ {0} /\ Tens(BinExp(v), k - 1) \in Nat \ {0}
        /\ NotAbove(v, 10, k - 1)
    BY <1>2, <2>1, NotAboveScale
  <2>3. BinSig(v) \in Nat \ {0}
    BY FramedFactors
  <2> QED BY <2>2, <2>3, TenNotFarther DEF NineBetter
<1> QED BY <1>1, <1>3, <1>4, <1>5 DEF BestDecimal

(* The first decimal of an interval is the nearest to a value it is not    *)
(* below.                                                                  *)
LEMMA FirstAboveIsNearest ==
  ASSUME NEW v, NEW k, NEW M, Framed(v, k, M), NEW d \in Nat,
         Middle(v, k) <= Place(v, d, k),
         \A x \in Nat : RoundTrips(v, x, k) => d <= x
  PROVE  ClosestAt(v, d, k)
<1> SUFFICES ASSUME NEW x \in Nat, RoundTrips(v, x, k), Closer(v, d, x, k)
             PROVE  FALSE
  BY DEF ClosestAt
<1>1. d <= x
  OBVIOUS
<1>2. \/ x > d /\ Place(v, d, k) + Place(v, x, k) < 2 * Middle(v, k)
      \/ x < d /\ 2 * Middle(v, k) < Place(v, d, k) + Place(v, x, k)
  BY CloserPlaces
<1>3. Tens(BinExp(v), k) \in Nat \ {0} /\ Middle(v, k) \in Nat
  BY FramedFactors
<1>4. (Place(v, d, k) < Place(v, x, k) <=> d < x) /\ Place(v, d, k) \in Nat /\ Place(v, x, k) \in Nat
  BY <1>3, PlacesOrder, PlacesAdd
<1> DEFINE p == Place(v, d, k)
           r == Place(v, x, k)
           m == Middle(v, k)
<1>5. d < x /\ p + r < 2 * m /\ p < r /\ p \in Nat /\ r \in Nat /\ m \in Nat /\ m <= p
  <2>1. x > d /\ p + r < 2 * m
    BY <1>1, <1>2
  <2> QED BY <1>3, <1>4, <2>1
<1> HIDE DEF p, r, m
<1> QED BY <1>5

(* At the units, with p fraction bits.                                     *)
LEMMA UnitFactors ==
  ASSUME NEW q \in Int, NEW p \in Nat, q + p = 0, 2^p \in Nat
  PROVE  Twos(q, 0) = 1 /\ Tens(q, 0) = 2^p
<1>1. \A j \in Int : j = 0 => Twos(q, j) = 1 /\ Tens(q, j) = 2^p
  <2> SUFFICES ASSUME NEW j \in Int, j = 0 PROVE Twos(q, j) = 1 /\ Tens(q, j) = 2^p
    OBVIOUS
  <2> DEFINE g == -j
             a == q - j
             b == j - q
  <2>1. ~(g > 0) /\ a <= 0 /\ a \in Int /\ b = p
    <3>1. /\ q \in Int /\ p \in Nat /\ j \in Int
          /\ q + p = 0 /\ j = 0
      OBVIOUS
    <3>2. b = p
      BY ONLY <3>1
    <3>3. ~(g > 0)
      BY ONLY <3>1
    <3>4. a \in Int /\ a = q
      BY ONLY <3>1
    <3>5. q <= 0
      BY ONLY <3>1
    <3> HIDE DEF a
    <3>6. a <= 0
      BY <3>4, <3>5
    <3> QED BY <3>2, <3>3, <3>4, <3>6
  <2>2. Twos(q, j) = 5^Positive(g) * 2^Positive(a) /\ Tens(q, j) = 5^Positive(j) * 2^Positive(b)
    BY DEF Twos, Tens
  <2> HIDE DEF g, a, b
  <2>3. Positive(g) = 0 /\ Positive(a) = 0 /\ Positive(j) = 0 /\ Positive(b) = p
    BY <2>1 DEF Positive
  <2>4. 5^0 = 1 /\ 2^0 = 1
    OBVIOUS
  <2>5. Twos(q, j) = 1 * 1 /\ Tens(q, j) = 1 * 2^p
    BY <2>2, <2>3, <2>4
  <2> QED BY <2>5
<1>2. 0 \in Int
  OBVIOUS
<1> QED BY <1>1, <1>2
=============================================================================
