----------------------------- MODULE PuffProofs -----------------------------
(***************************************************************************)
(* The bigits of Puff are the digits, to the base bigit_bound, of the      *)
(* significand shifted by what the loops have shifted so far.              *)
(*                                                                         *)
(* Digits behind the point are those of long division: the digits of       *)
(* n / u, and what a divisor of the base, as in shift_right, or a factor   *)
(* up to the base, as in shift_left, makes of them.  shift_right takes     *)
(* each digit from the digit and the one in front of it; shift_left from   *)
(* the digit and the carry of the one behind it.  Then the loops keep the  *)
(* invariant (ShiftInv), and TypeCorrect and AlwaysExact follow.           *)
(*                                                                         *)
(* All the bigits together are an integer, and the argument is that        *)
(* integer divided by a power of ten.  While it is written, the text is    *)
(* what the bigits written so far are (IsBlocks); when it is complete, it  *)
(* is the whole integer or the nearest one with fewer digits (IsText).     *)
(* AlwaysRoundedToEven and AlwaysReadsBack follow from that (TextInv).     *)
(***************************************************************************)
EXTENDS Puff, NaturalFacts, BinaryFloatProofs, SequenceTheorems

LEMMA Bound == bigit_bound \in Nat /\ bigit_bound > 1
<1> DEFINE S == {n \in Nat : 10^n \in Nat \ {0}}
           t == 10^bigit_digits
<1>1. bigit_digits - 1 \in 0..bigit_digits /\ bigit_digits \in 0..bigit_digits
      /\ (bigit_digits - 1) + 1 = bigit_digits
  BY BigitAssumption
<1>2. 10^bigit_digits \in Nat /\ 10^(bigit_digits - 1) \in Nat \ {0}
      /\ 10^bigit_digits = 10 * 10^(bigit_digits - 1)
  BY <1>1, PowersAssumption DEF PowerAt
<1> DEFINE u == 10^(bigit_digits - 1)
<1>3. t = 10 * u /\ u \in Nat \ {0}
  BY <1>2
<1> HIDE DEF t, u
<1>4. t \in Nat /\ t > 1
  BY <1>3
<1> QED BY <1>4 DEF t, bigit_bound

LEMMA PowersOfTwo ==
  /\ PowersUpTo(2, left_bits) /\ PowersUpTo(2, right_bits)
  /\ PowersUpTo(2, num_bits)
  /\ \A d \in Arguments : PowersUpTo(2, Magnitude(Exponent(d)))
BY PowersAssumption DEF PowersUpTo, PowerAt

(* The quotients and the remainders of long division obey their equations. *)
LEMMA QuotientsAre ==
  ASSUME NEW n \in Nat
  PROVE  /\ Quotients(n) \in [Nat -> Nat]
         /\ Quotients(n)[0] = n
         /\ \A j \in Nat : Quotients(n)[j + 1] = Quotients(n)[j] \div bigit_bound
<1> DEFINE Eq(f) == f = [j \in Nat |-> IF j = 0 THEN n ELSE f[j - 1] \div bigit_bound]
           h == CHOOSE f : Eq(f)
           G == [p \in Nat \X Nat |-> p[1] \div bigit_bound]
<1>1. G \in [Nat \X Nat -> Nat]
  <2>1. \A a \in Nat : a \div bigit_bound \in Nat
    BY Bound, Division
  <2> QED BY <2>1
<1>2. PICK f : IsRecursiveOnNat(f, Nat, n, G)
  BY <1>1, RecursionOnNat
<1>3. f \in [Nat -> Nat] /\ f[0] = n /\ \A j \in Nat : f[j + 1] = f[j] \div bigit_bound
  <2>1. f \in [Nat -> Nat] /\ f[0] = n /\ \A j \in Nat : f[j + 1] = G[<<f[j], j + 1>>]
    BY <1>2 DEF IsRecursiveOnNat
  <2>2. \A a, j \in Nat : G[<<a, j>>] = a \div bigit_bound
    OBVIOUS
  <2>3. \A j \in Nat : f[j] \in Nat /\ j + 1 \in Nat
    BY <2>1
  <2> QED BY <2>1, <2>2, <2>3
<1>4. Eq(f)
  <2> SUFFICES ASSUME NEW j \in Nat
               PROVE  f[j] = IF j = 0 THEN n ELSE f[j - 1] \div bigit_bound
    BY <1>3
  <2>1. CASE j # 0
    <3>1. j - 1 \in Nat /\ (j - 1) + 1 = j
      BY <2>1
    <3> QED BY <1>3, <2>1, <3>1
  <2> QED BY <1>3, <2>1
<1>5. Quotients(n) = h
  BY DEF Quotients
<1>6. Eq(h)
  <2> HIDE DEF Eq
  <2> QED BY <1>4
<1>7. h = [j \in Nat |-> IF j = 0 THEN n ELSE h[j - 1] \div bigit_bound]
  BY <1>6
<1> HIDE DEF h
<1> DEFINE T == {j \in Nat : h[j] \in Nat}
<1>8. h[0] = n /\ \A j \in Nat : h[j + 1] = h[j] \div bigit_bound
  <2>1. ASSUME NEW j \in Nat PROVE h[j + 1] = h[j] \div bigit_bound
    <3>1. j + 1 \in Nat /\ j + 1 # 0 /\ (j + 1) - 1 = j
      OBVIOUS
    <3> QED BY <1>7, <3>1
  <2> QED BY <1>7, <2>1
<1>9. 0 \in T /\ \A j \in Nat : j \in T => j + 1 \in T
  <2>1. \A a \in Nat : a \div bigit_bound \in Nat
    BY Bound, Division
  <2> QED BY <1>8, <2>1
<1> HIDE DEF T
<1>10. \A j \in Nat : j \in T
  BY <1>9, SetInduction
<1>11. h \in [Nat -> Nat]
  <2>1. \A j \in Nat : h[j] \in Nat
    BY <1>10 DEF T
  <2> QED BY <1>7, <2>1
<1> QED BY <1>5, <1>8, <1>11

LEMMA RemaindersAre ==
  ASSUME NEW n \in Nat, NEW unit \in Nat \ {0}
  PROVE  /\ Remainders(n, unit) \in [Nat -> 0 .. unit - 1]
         /\ Remainders(n, unit)[0] = n % unit
         /\ \A j \in Nat :
              Remainders(n, unit)[j + 1] = (Remainders(n, unit)[j] * bigit_bound) % unit
<1> DEFINE Eq(f) == f = [j \in Nat |-> IF j = 0 THEN n % unit
                                       ELSE (f[j - 1] * bigit_bound) % unit]
           h == CHOOSE f : Eq(f)
           S == 0 .. unit - 1
           G == [p \in S \X Nat |-> (p[1] * bigit_bound) % unit]
<1>0. \A a \in Nat : a % unit \in S
  BY Division
<1>1. G \in [S \X Nat -> S]
  <2>1. \A a \in S : a * bigit_bound \in Nat
    BY Bound
  <2> QED BY <1>0, <2>1
<1>2. PICK f : IsRecursiveOnNat(f, S, n % unit, G)
  BY <1>0, <1>1, RecursionOnNat
<1>3. f \in [Nat -> S] /\ f[0] = n % unit
      /\ \A j \in Nat : f[j + 1] = (f[j] * bigit_bound) % unit
  <2>1. f \in [Nat -> S] /\ f[0] = n % unit /\ \A j \in Nat : f[j + 1] = G[<<f[j], j + 1>>]
    BY <1>2 DEF IsRecursiveOnNat
  <2>2. \A a \in S, j \in Nat : G[<<a, j>>] = (a * bigit_bound) % unit
    OBVIOUS
  <2>3. \A j \in Nat : f[j] \in S /\ j + 1 \in Nat
    BY <2>1
  <2> HIDE DEF G, S
  <2> QED BY <2>1, <2>2, <2>3
<1>4. Eq(f)
  <2> SUFFICES ASSUME NEW j \in Nat
               PROVE  f[j] = IF j = 0 THEN n % unit ELSE (f[j - 1] * bigit_bound) % unit
    BY <1>3
  <2>1. CASE j # 0
    <3>1. j - 1 \in Nat /\ (j - 1) + 1 = j
      BY <2>1
    <3> QED BY <1>3, <2>1, <3>1
  <2> QED BY <1>3, <2>1
<1>5. Remainders(n, unit) = h
  BY DEF Remainders
<1>6. Eq(h)
  <2> HIDE DEF Eq
  <2> QED BY <1>4
<1>7. h = [j \in Nat |-> IF j = 0 THEN n % unit ELSE (h[j - 1] * bigit_bound) % unit]
  BY <1>6
<1> HIDE DEF h
<1> DEFINE T == {j \in Nat : h[j] \in S}
<1>8. h[0] = n % unit /\ \A j \in Nat : h[j + 1] = (h[j] * bigit_bound) % unit
  <2>1. ASSUME NEW j \in Nat PROVE h[j + 1] = (h[j] * bigit_bound) % unit
    <3>1. j + 1 \in Nat /\ j + 1 # 0 /\ (j + 1) - 1 = j
      OBVIOUS
    <3> QED BY <1>7, <3>1
  <2> QED BY <1>7, <2>1
<1>9. 0 \in T /\ \A j \in Nat : j \in T => j + 1 \in T
  <2>1. \A a \in S : (a * bigit_bound) % unit \in S
    <3>1. \A a \in S : a * bigit_bound \in Nat
      BY Bound
    <3> QED BY <1>0, <3>1
  <2>2. h[0] \in S
    BY <1>0, <1>8
  <2>3. ASSUME NEW j \in Nat, h[j] \in S PROVE h[j + 1] \in S
    BY <1>8, <2>1, <2>3
  <2> HIDE DEF S
  <2> QED BY <2>2, <2>3
<1> HIDE DEF T
<1>10. \A j \in Nat : j \in T
  BY <1>9, SetInduction
<1>11. h \in [Nat -> S]
  <2>1. \A j \in Nat : h[j] \in S
    BY <1>10 DEF T
  <2> QED BY <1>7, <2>1
<1> QED BY <1>5, <1>8, <1>11

-----------------------------------------------------------------------------
LEMMA ExactQuotient ==
  ASSUME NEW b \in Nat \ {0}, NEW t \in Nat \ {0}, b % t = 0
  PROVE  b \div t \in Nat \ {0} /\ b = t * (b \div t)
<1> DEFINE c == b \div t
<1>1. c \in Nat /\ b = t * c
  BY Division
<1> HIDE DEF c
<1>2. c # 0
  BY <1>1
<1> QED BY <1>1, <1>2 DEF c

(* A remainder stays below the product of the divisors.                    *)
LEMMA NestedRange ==
  ASSUME NEW u \in Nat \ {0}, NEW t \in Nat \ {0}, NEW x \in 0 .. t - 1, NEW r \in 0 .. u - 1
  PROVE  u * x + r \in 0 .. (u * t) - 1
<1>1. (x + 1) * u <= t * u
  BY ProductOrder
<1>2. (x + 1) * u = u * x + u /\ t * u = u * t /\ u * x \in Nat /\ u * t \in Nat
  OBVIOUS
<1> QED BY <1>1, <1>2

(* Dividing by a divisor of the base: digit by digit, the remainder of     *)
(* each digit goes to the top of the next.                                 *)
LEMMA DivideDigit ==
  ASSUME NEW t \in Nat \ {0}, NEW c \in Nat \ {0}, NEW x \in Nat, NEW d \in 0 .. (t * c) - 1
  PROVE  /\ ((t * c) * x + d) \div t = (t * c) * (x \div t) + ((x % t) * c + (d \div t))
         /\ (x % t) * c + (d \div t) \in 0 .. (t * c) - 1
<1> DEFINE y == x \div t
           r == x % t
           e == d \div t
           g == d % t
<1>1. y \in Nat /\ r \in 0 .. t - 1 /\ x = t * y + r
  BY Division
<1>2. e \in Nat /\ g \in 0 .. t - 1 /\ d = t * e + g
  <2>1. d \in Nat
    OBVIOUS
  <2> QED BY <2>1, Division
<1> HIDE DEF y, r, e, g
<1>3. e \in 0 .. c - 1
  <2>1. t * e < t * c
    <3>1. t * e \in Nat /\ t * c \in Nat
      BY <1>2
    <3> QED BY <1>2, <3>1
  <2>2. t * e = e * t /\ t * c = c * t
    BY <1>2
  <2>3. e < c
    BY <1>2, <2>1, <2>2, ProductOrder
  <2> QED BY <1>2, <2>3
<1>4. r * c + e \in 0 .. (t * c) - 1
  <2>1. c * r + e \in 0 .. (c * t) - 1
    BY <1>1, <1>3, NestedRange
  <2>2. c * r = r * c /\ c * t = t * c
    BY <1>1
  <2> QED BY <2>1, <2>2
<1>5. (t * c) * x + d = t * ((t * c) * y + (r * c + e)) + g
  <2> DEFINE b == t * c
             by == b * y
             rc == r * c
  <2>1. b \in Nat /\ by \in Nat /\ rc \in Nat
    BY <1>1
  <2>2. b * (t * y + r) = t * by + t * rc
    <3>1. b * (t * y + r) = b * (t * y) + b * r
      BY <1>1, <2>1
    <3>2. b * (t * y) = t * (b * y)
      BY <1>1, <2>1
    <3>3. b * r = t * (r * c)
      BY <1>1
    <3> QED BY <3>1, <3>2, <3>3
  <2> HIDE DEF b, by, rc
  <2>3. t * (by + (rc + e)) = (t * by + t * rc) + t * e
    BY <2>1, <1>2
  <2>4. t * by \in Nat /\ t * rc \in Nat /\ t * e \in Nat
    BY <2>1, <1>2
  <2>5. b * x + d = t * (by + (rc + e)) + g
    BY <1>1, <1>2, <2>2, <2>3, <2>4
  <2> QED BY <2>5 DEF b, by, rc
<1>6. (t * c) * y + (r * c + e) \in Nat
  <2>1. (t * c) * y \in Nat /\ r * c \in Nat
    BY <1>1
  <2> QED BY <2>1, <1>2
<1>7. (t * ((t * c) * y + (r * c + e)) + g) \div t = (t * c) * y + (r * c + e)
  BY <1>2, <1>6, DivisionUnique
<1> QED BY <1>4, <1>5, <1>7 DEF y, r, e

LEMMA DivideDigitOf ==
  ASSUME NEW b \in Nat \ {0}, NEW t \in Nat \ {0}, b % t = 0,
         NEW x \in Nat, NEW d \in 0 .. b - 1
  PROVE  /\ (b * x + d) \div t = b * (x \div t) + ((x % t) * (b \div t) + (d \div t))
         /\ (x % t) * (b \div t) + (d \div t) \in 0 .. b - 1
<1> DEFINE c == b \div t
<1>1. c \in Nat /\ b = t * c
  BY Division
<1> HIDE DEF c
<1>2. c # 0
  BY <1>1
<1>3. d \in 0 .. (t * c) - 1
  BY <1>1
<1>4. /\ ((t * c) * x + d) \div t = (t * c) * (x \div t) + ((x % t) * c + (d \div t))
      /\ (x % t) * c + (d \div t) \in 0 .. (t * c) - 1
  BY <1>1, <1>2, <1>3, DivideDigit
<1>5. /\ (b * x + d) \div t = b * (x \div t) + ((x % t) * c + (d \div t))
      /\ (x % t) * c + (d \div t) \in 0 .. b - 1
  BY <1>1, <1>4, Zenon
<1> QED BY <1>5 DEF c

(* The same for the remainders behind the point.                           *)
RestDivided(a, b, u, t) ==
  /\ (a * b) \div (u * t) = (a \div u) * (b \div t) + ((((a % u) * b) \div u) \div t)
  /\ (a * b) % (u * t) = u * ((((a % u) * b) \div u) % t) + (((a % u) * b) % u)

LEMMA DivideRest ==
  ASSUME NEW b \in Nat \ {0}, NEW t \in Nat \ {0}, b % t = 0, NEW u \in Nat \ {0},
         NEW a \in Nat, a \div u \in 0 .. t - 1
  PROVE  RestDivided(a, b, u, t)
<1> DEFINE c == b \div t
           x == a \div u
           r == a % u
           d == (r * b) \div u
<1>0. c \in Nat \ {0} /\ b = t * c
  BY ExactQuotient
<1>00. x \in 0 .. t - 1 /\ r \in 0 .. u - 1 /\ a = u * x + r
  BY Division
<1> HIDE DEF x, r
<1> HIDE DEF c
<1> DEFINE s == (r * b) % u
           e == d \div t
           g == d % t
<1>1. r * b \in Nat
  BY <1>00
<1>2. d \in Nat /\ s \in 0 .. u - 1 /\ r * b = u * d + s
  BY <1>1, Division
<1> HIDE DEF s, d
<1>3. e \in Nat /\ g \in 0 .. t - 1 /\ d = t * e + g
  BY <1>2, Division
<1> HIDE DEF e, g
<1>4. u * g + s \in 0 .. (u * t) - 1
  BY <1>2, <1>3, NestedRange
<1>5. a * b = (u * t) * (x * c + e) + (u * g + s)
  <2>1. a * b = (u * x) * b + r * b
    <3> DEFINE ux == u * x
    <3>1. ux \in Nat
      BY <1>00
    <3> HIDE DEF ux
    <3>2. (ux + r) * b = ux * b + r * b
      BY <1>00, <3>1
    <3> QED BY <1>00, <3>2 DEF ux
  <2>2. (u * x) * b = (u * t) * (x * c)
    BY <1>0, <1>00
  <2>3. r * b = (u * t) * e + (u * g + s)
    <3>1. u * (t * e + g) = (u * t) * e + u * g
      BY <1>3
    <3>2. (u * t) * e \in Nat /\ u * g \in Nat
      BY <1>3
    <3> QED BY <1>2, <1>3, <3>1, <3>2
  <2> DEFINE ut == u * t
             xc == x * c
             z  == u * g + s
  <2>4. ut \in Nat /\ xc \in Nat /\ z \in Nat
    BY <1>0, <1>00, <1>4
  <2>5. a * b = ut * xc + (ut * e + z)
    BY <2>1, <2>2, <2>3
  <2> HIDE DEF ut, xc, z
  <2>6. ut * (xc + e) = ut * xc + ut * e /\ ut * xc \in Nat /\ ut * e \in Nat
    BY <1>3, <2>4
  <2>7. a * b = ut * (xc + e) + z
    BY <2>4, <2>5, <2>6
  <2> QED BY <2>7 DEF ut, xc, z
<1>6. u * t \in Nat \ {0} /\ x * c + e \in Nat
  <2>1. x * c \in Nat
    BY <1>0, <1>00
  <2> QED BY <2>1, <1>3
<1> DEFINE ut == u * t
           q  == x * c + e
           z  == u * g + s
<1>7. ut \in Nat \ {0} /\ q \in Nat /\ z \in 0 .. ut - 1 /\ a * b = ut * q + z
  BY <1>4, <1>5, <1>6
<1> HIDE DEF ut, q, z
<1>8. (a * b) \div ut = q /\ (a * b) % ut = z
  <2>1. (ut * q + z) \div ut = q /\ (ut * q + z) % ut = z
    BY <1>7, DivisionUnique
  <2> QED BY <1>7, <2>1, Zenon
<1> QED BY <1>8, Zenon DEF RestDivided, c, x, r, d, s, e, g, ut, q, z

(* A remainder modulo a divisor of the base.                               *)
LEMMA RemainderOfRemainder ==
  ASSUME NEW b \in Nat \ {0}, NEW t \in Nat \ {0}, b % t = 0, NEW x \in Nat
  PROVE  (x % b) % t = x % t
<1> DEFINE c == b \div t
<1>1. c \in Nat /\ b = t * c
  BY Division
<1> HIDE DEF c
<1> DEFINE y == x \div b
           r == x % b
           e == r \div t
           g == r % t
<1>2. y \in Nat /\ r \in 0 .. b - 1 /\ x = b * y + r
  BY <1>1, Division
<1> HIDE DEF y, r
<1>3. b * y = t * (c * y)
  BY <1>1, <1>2
<1>4. e \in Nat /\ g \in 0 .. t - 1 /\ r = t * e + g
  <2>1. r \in Nat
    BY <1>1, <1>2
  <2> QED BY <2>1, Division
<1> HIDE DEF e, g
<1>5. x = t * (c * y + e) + g
  <2> DEFINE cy == c * y
  <2>1. cy \in Nat
    BY <1>1, <1>2
  <2> HIDE DEF cy
  <2>2. t * (cy + e) = t * cy + t * e /\ t * cy \in Nat /\ t * e \in Nat
    BY <1>4, <2>1
  <2> QED BY <1>2, <1>3, <1>4, <2>2 DEF cy
<1>6. c * y + e \in Nat
  <2>1. c * y \in Nat
    BY <1>1, <1>2
  <2> QED BY <2>1, <1>4
<1>7. x % t = g
  BY <1>4, <1>5, <1>6, DivisionUnique
<1> QED BY <1>7 DEF r, g

-----------------------------------------------------------------------------
(* The coefficient of bigit_bound^w in n / unit.                           *)
Long(n, unit, w) ==
  IF w >= 0 THEN Quotients(n \div unit)[w] % bigit_bound
  ELSE (Remainders(n, unit)[-w - 1] * bigit_bound) \div unit

LEMMA LongRange ==
  ASSUME NEW n \in Nat, NEW u \in Nat \ {0}, NEW w \in Int
  PROVE  Long(n, u, w) \in 0 .. bigit_bound - 1
<1>1. CASE w >= 0
  <2> DEFINE m == n \div u
             q == Quotients(m)[w]
  <2>1. m \in Nat /\ w \in Nat
    BY <1>1, Division
  <2> HIDE DEF m
  <2>2. q \in Nat
    BY <2>1, QuotientsAre
  <2> HIDE DEF q
  <2>3. q % bigit_bound \in 0 .. bigit_bound - 1
    BY <2>2, Bound, Division
  <2> QED BY <1>1, <2>3 DEF Long, q, m
<1>2. CASE w < 0
  <2>1. -w - 1 \in Nat
    BY <1>2
  <2> DEFINE r == Remainders(n, u)[-w - 1]
             b == bigit_bound
             a == r * b
             q == a \div u
  <2>2. r \in 0 .. u - 1
    BY <2>1, RemaindersAre
  <2>3. b \in Nat \ {0}
    BY Bound
  <2> HIDE DEF r, b
  <2>4. a \in Nat /\ a < b * u
    <3>1. r * b < u * b
      BY <2>2, <2>3, ProductOrder
    <3>2. u * b = b * u /\ r * b \in Nat
      BY <2>2, <2>3
    <3> QED BY <3>1, <3>2
  <2> HIDE DEF a
  <2>5. q \in Nat /\ a % u \in 0 .. u - 1 /\ a = u * q + (a % u)
    BY <2>4, Division
  <2> HIDE DEF q
  <2>6. q * u < b * u
    <3>1. u * q = q * u /\ q * u \in Nat
      BY <2>5
    <3> QED BY <2>3, <2>4, <2>5, <3>1
  <2>7. q < b
    BY <2>3, <2>5, <2>6, ProductOrder
  <2>8. q \in 0 .. b - 1
    BY <2>3, <2>5, <2>7
  <2> QED BY <1>2, <2>8 DEF Long, q, a, r, b
<1> QED BY <1>1, <1>2

LEMMA QuotientsDivided ==
  ASSUME NEW n \in Nat, NEW t \in Nat \ {0}
  PROVE  \A j \in Nat : Quotients(n \div t)[j] = Quotients(n)[j] \div t
<1> DEFINE f == Quotients(n)
           g == Quotients(n \div t)
           S == {j \in Nat : g[j] = f[j] \div t}
<1>0. n \div t \in Nat
  BY Division
<1>1. f \in [Nat -> Nat] /\ f[0] = n /\ \A j \in Nat : f[j + 1] = f[j] \div bigit_bound
  BY QuotientsAre
<1>2. g \in [Nat -> Nat] /\ g[0] = n \div t /\ \A j \in Nat : g[j + 1] = g[j] \div bigit_bound
  BY <1>0, QuotientsAre
<1> HIDE DEF f, g
<1>3. 0 \in S
  BY <1>1, <1>2
<1>4. ASSUME NEW j \in Nat, j \in S PROVE j + 1 \in S
  <2> DEFINE b == bigit_bound
             x == f[j]
  <2>1. b \in Nat \ {0} /\ x \in Nat
    BY <1>1, Bound
  <2>2. g[j + 1] = (x \div t) \div b
    BY <1>2, <1>4
  <2>3. f[j + 1] = x \div b
    BY <1>1
  <2> HIDE DEF b, x
  <2>4. (x \div t) \div b = x \div (t * b) /\ (x \div b) \div t = x \div (b * t)
    BY <2>1, DivisionTwice
  <2>5. t * b = b * t
    BY <2>1
  <2>6. g[j + 1] = f[j + 1] \div t
    BY <2>2, <2>3, <2>4, <2>5
  <2> QED BY <2>6
<1> HIDE DEF S
<1>5. \A j \in Nat : j \in S
  BY <1>3, <1>4, SetInduction
<1> QED BY <1>5 DEF S, f, g

(* The remainders of a division by u * t are those of the division by u    *)
(* and, above them, what t leaves of the digit in front.                   *)
LEMMA RemaindersDivided ==
  ASSUME NEW n \in Nat, NEW u \in Nat \ {0}, NEW t \in Nat \ {0},
         bigit_bound % t = 0
  PROVE  \A j \in Nat :
           Remainders(n, u * t)[j] = u * (Long(n, u, 0 - j) % t) + Remainders(n, u)[j]
<1> DEFINE f == Remainders(n, u)
           g == Remainders(n, u * t)
           S == {j \in Nat : g[j] = u * (Long(n, u, 0 - j) % t) + f[j]}
<1>0. u * t \in Nat \ {0}
  OBVIOUS
<1>1. /\ f \in [Nat -> 0 .. u - 1] /\ f[0] = n % u
      /\ \A j \in Nat : f[j + 1] = (f[j] * bigit_bound) % u
  BY RemaindersAre
<1>2. /\ g[0] = n % (u * t)
      /\ \A j \in Nat : g[j + 1] = (g[j] * bigit_bound) % (u * t)
  BY <1>0, RemaindersAre
<1>3. \A j \in Nat : Long(n, u, 0 - (j + 1)) = (f[j] * bigit_bound) \div u
  <2> SUFFICES ASSUME NEW j \in Nat
               PROVE  Long(n, u, 0 - (j + 1)) = (f[j] * bigit_bound) \div u
    OBVIOUS
  <2>1. 0 - (j + 1) < 0 /\ -(0 - (j + 1)) - 1 = j
    OBVIOUS
  <2> QED BY <2>1 DEF Long
<1> HIDE DEF f, g
<1>4. 0 \in S
  <2> DEFINE q == n \div u
             r == n % u
             y == q \div t
             x == q % t
  <2>1. q \in Nat /\ r \in 0 .. u - 1 /\ n = u * q + r
    BY Division
  <2>2. Long(n, u, 0) = q % bigit_bound
    <3>1. Quotients(q)[0] = q
      BY <2>1, QuotientsAre
    <3> QED BY <3>1 DEF Long
  <2> HIDE DEF q, r
  <2>3. y \in Nat /\ x \in 0 .. t - 1 /\ q = t * y + x
    BY <2>1, Division
  <2>4. Long(n, u, 0) % t = x
    <3> DEFINE b == bigit_bound
    <3>1. b \in Nat \ {0} /\ b % t = 0
      BY Bound
    <3> HIDE DEF b
    <3>2. (q % b) % t = q % t
      BY <2>1, <3>1, RemainderOfRemainder
    <3> QED BY <2>2, <3>2 DEF b
  <2> HIDE DEF x, y
  <2>5. u * x + r \in 0 .. (u * t) - 1
    BY <2>1, <2>3, NestedRange
  <2>6. n = (u * t) * y + (u * x + r)
    <3>1. u * (t * y + x) = (u * t) * y + u * x
      BY <2>3
    <3>2. (u * t) * y \in Nat /\ u * x \in Nat
      BY <2>3
    <3> QED BY <2>1, <2>3, <3>1, <3>2
  <2> DEFINE ut == u * t
             z  == u * x + r
  <2>7. ut \in Nat \ {0} /\ z \in 0 .. ut - 1 /\ n = ut * y + z
    BY <1>0, <2>5, <2>6
  <2> HIDE DEF ut, z
  <2>8. n % ut = z
    <3>1. (ut * y + z) % ut = z
      BY <2>3, <2>7, DivisionUnique
    <3> QED BY <2>7, <3>1
  <2>9. g[0] = u * x + f[0]
    BY <1>1, <1>2, <2>8 DEF ut, z, r
  <2> QED BY <2>4, <2>9
<1>5. ASSUME NEW j \in Nat, j \in S PROVE j + 1 \in S
  <2> DEFINE x == Long(n, u, 0 - j) % t
             d == Long(n, u, 0 - (j + 1))
             a == u * x + f[j]
  <2>1. x \in 0 .. t - 1
    <3>1. 0 - j \in Int
      OBVIOUS
    <3>2. Long(n, u, 0 - j) \in Nat
      BY <3>1, LongRange, Bound
    <3> QED BY <3>2, Division
  <2>2. g[j] = a
    BY <1>5
  <2>3. d = (f[j] * bigit_bound) \div u /\ f[j] \in 0 .. u - 1
    BY <1>1, <1>3
  <2> HIDE DEF x, d
  <2> DEFINE r == f[j]
  <2>r. r \in 0 .. u - 1
    BY <2>3
  <2> HIDE DEF r
  <2>n. a \in Nat
    <3>1. u * x \in Nat
      BY <2>1
    <3> QED BY <2>r, <3>1 DEF r
  <2>a. a \in Nat /\ a \div u = x /\ a % u = r /\ d = (r * bigit_bound) \div u
    <3>1. u * x \in Nat
      BY <2>1
    <3>2. (u * x + r) \div u = x /\ (u * x + r) % u = r
      BY <2>1, <2>r, DivisionUnique
    <3> QED BY <2>3, <2>n, <3>2, Zenon DEF r
  <2> HIDE DEF a
  <2>b. (a * bigit_bound) % (u * t) = u * (((r * bigit_bound) \div u) % t) + ((r * bigit_bound) % u)
    <3> DEFINE b == bigit_bound
    <3>1. b \in Nat \ {0} /\ b % t = 0
      BY Bound
    <3> HIDE DEF b
    <3>2. a \div u \in 0 .. t - 1
      BY <2>1, <2>a
    <3>3. RestDivided(a, b, u, t)
      BY <2>n, <3>1, <3>2, DivideRest
    <3> QED BY <2>a, <3>3, Zenon DEF b, RestDivided
  <2>4. (a * bigit_bound) % (u * t) = u * (d % t) + ((f[j] * bigit_bound) % u)
    BY <2>a, <2>b DEF r
  <2>5. g[j + 1] = u * (d % t) + f[j + 1]
    BY <1>1, <1>2, <2>2, <2>4
  <2> QED BY <2>5 DEF d
<1> HIDE DEF S
<1>6. \A j \in Nat : j \in S
  BY <1>4, <1>5, SetInduction
<1> QED BY <1>6 DEF S, f, g

(* Dividing by a divisor of the base takes each digit from the digit and   *)
(* the one in front of it.                                                 *)
LEMMA RightDigits ==
  ASSUME NEW n \in Nat, NEW u \in Nat \ {0}, NEW t \in Nat \ {0},
         bigit_bound % t = 0, NEW w \in Int
  PROVE  Long(n, u * t, w) = (Long(n, u, w + 1) % t) * (bigit_bound \div t) + (Long(n, u, w) \div t)
<1>1. CASE w >= 0
  <2> DEFINE m == n \div u
             q == Quotients(m)
             x == q[w + 1]
             d == q[w] % bigit_bound
             b == bigit_bound
  <2>1. m \in Nat /\ w \in Nat /\ w + 1 \in Nat
    <3>1. m \in Nat
      BY Division
    <3> QED BY <1>1, <3>1
  <2>0. b \in Nat \ {0} /\ b % t = 0
    BY Bound
  <2> HIDE DEF m, b
  <2>2. q[w] \in Nat /\ x = q[w] \div b /\ x \in Nat
    BY <2>1, QuotientsAre DEF b
  <2> HIDE DEF q, x
  <2>3. q[w] = b * x + d /\ d \in 0 .. b - 1
    BY <2>0, <2>2, Division DEF b
  <2>4. n \div (u * t) = m \div t
    BY DivisionTwice DEF m
  <2>5. Quotients(m \div t)[w] = q[w] \div t
    BY <2>1, QuotientsDivided DEF q
  <2>6. Long(n, u * t, w) = (q[w] \div t) % b
    BY <1>1, <2>4, <2>5 DEF Long, b
  <2>7. Long(n, u, w) = d
    BY <1>1 DEF Long, q, m
  <2>8. Long(n, u, w + 1) % t = x % t
    <3>1. Long(n, u, w + 1) = x % b
      BY <1>1 DEF Long, q, m, x, b
    <3>2. (x % b) % t = x % t
      BY <2>0, <2>2, RemainderOfRemainder
    <3> QED BY <3>1, <3>2
  <2> DEFINE e == (x % t) * (b \div t) + (d \div t)
             y == x \div t
  <2> HIDE DEF d
  <2>10. q[w] \div t = b * y + e /\ e \in 0 .. b - 1
    <3>1. (b * x + d) \div t = b * y + e /\ e \in 0 .. b - 1
      BY <2>0, <2>2, <2>3, DivideDigitOf
    <3> QED BY <2>3, <3>1, Zenon
  <2>11. y \in Nat
    BY <2>2, Division
  <2> HIDE DEF e, y
  <2>12. (b * y + e) % b = e
    BY <2>0, <2>10, <2>11, DivisionUnique
  <2>13. Long(n, u * t, w) = e
    BY <2>6, <2>10, <2>12
  <2> QED BY <2>7, <2>8, <2>13 DEF e, b
<1>2. CASE w < 0
  <2> DEFINE j == -w - 1
             x == Long(n, u, w + 1) % t
             r == Remainders(n, u)[j]
             d == Long(n, u, w)
  <2>1. j \in Nat /\ 0 - j = w + 1 /\ w + 1 \in Int
    BY <1>2
  <2>2. x \in 0 .. t - 1
    <3>1. Long(n, u, w + 1) \in Nat
      BY <2>1, LongRange, Bound
    <3> QED BY <3>1, Division
  <2>6. Long(n, u * t, w) = (Remainders(n, u * t)[j] * bigit_bound) \div (u * t)
    BY <1>2 DEF Long
  <2>4. d = (r * bigit_bound) \div u
    BY <1>2 DEF Long
  <2> HIDE DEF j
  <2>3. r \in 0 .. u - 1
    <3>1. Remainders(n, u) \in [Nat -> 0 .. u - 1]
      BY RemaindersAre
    <3> QED BY <2>1, <3>1
  <2>5. Remainders(n, u * t)[j] = u * x + r
    BY <2>1, RemaindersDivided
  <2> HIDE DEF x, r, d
  <2> DEFINE a == u * x + r
  <2>n. a \in Nat
    <3>1. u * x \in Nat
      BY <2>2
    <3> QED BY <2>3, <3>1
  <2>7. a \in Nat /\ a \div u = x /\ a % u = r
    <3>1. u * x \in Nat
      BY <2>2
    <3>2. (u * x + r) \div u = x /\ (u * x + r) % u = r
      BY <2>2, <2>3, DivisionUnique
    <3> QED BY <2>3, <3>1, <3>2
  <2>9. Remainders(n, u * t)[j] = a
    BY <2>5
  <2> HIDE DEF a
  <2>10. (a * bigit_bound) \div (u * t)
            = x * (bigit_bound \div t) + (((r * bigit_bound) \div u) \div t)
    <3> DEFINE b == bigit_bound
    <3>1. b \in Nat \ {0} /\ b % t = 0
      BY Bound
    <3> HIDE DEF b
    <3>2. a \div u \in 0 .. t - 1
      BY <2>2, <2>7
    <3>3. RestDivided(a, b, u, t)
      BY <2>n, <3>1, <3>2, DivideRest
    <3> QED BY <2>7, <3>3, Zenon DEF b, RestDivided
  <2> QED BY <2>4, <2>6, <2>9, <2>10, Zenon DEF x, d
<1> QED BY <1>1, <1>2

-----------------------------------------------------------------------------
(* Multiplying by t: the carries into the digits of n, from the lowest.    *)
CarryInto(c, d, t, w, next) ==
  /\ c[w + 1] = (d * t + c[w]) \div bigit_bound
  /\ next = (d * t + c[w]) % bigit_bound

Carries(c, n, t) ==
  /\ c \in [Nat -> 0 .. t - 1]
  /\ c[0] = 0
  /\ \A w \in Nat :
       CarryInto(c, Quotients(n)[w] % bigit_bound, t, w, Quotients(n * t)[w] % bigit_bound)

LEMMA MultiplyDigit ==
  ASSUME NEW b \in Nat \ {0}, NEW t \in Nat \ {0}, NEW x \in Nat, NEW d \in 0 .. b - 1,
         NEW c \in 0 .. t - 1
  PROVE  LET p == t * (b * x + d) + c
             z == d * t + c
         IN p \div b = t * x + z \div b /\ p % b = z % b /\ z \div b \in 0 .. t - 1
<1> DEFINE p == t * (b * x + d) + c
           z == d * t + c
           e == z \div b
           g == z % b
<1>1. z \in Nat /\ z < t * b
  <2>1. t * d + c \in 0 .. (t * b) - 1
    BY NestedRange
  <2>2. t * d = d * t /\ t * b \in Nat
    OBVIOUS
  <2> QED BY <2>1, <2>2
<1>2. p = b * (t * x) + z
  <2>1. t * (b * x + d) = t * (b * x) + t * d
    OBVIOUS
  <2>2. t * (b * x) = b * (t * x)
    OBVIOUS
  <2>3. t * d = d * t /\ d * t \in Nat /\ b * (t * x) \in Nat
    OBVIOUS
  <2> QED BY <2>1, <2>2, <2>3
<1> DEFINE tx == t * x
<1>3. tx \in Nat /\ p = b * tx + z
  BY <1>2
<1>0. t * b = b * t
  OBVIOUS
<1> HIDE DEF p, z, tx
<1>4. e \in Nat /\ g \in 0 .. b - 1 /\ z = b * e + g
  BY <1>1, Division
<1> HIDE DEF e, g
<1>5. e \in 0 .. t - 1
  <2>1. b * e = e * b /\ e * b \in Nat
    BY <1>4
  <2>2. e * b < t * b
    BY <1>1, <1>4, <2>1
  <2>3. e < t
    BY <1>4, <2>2, ProductOrder
  <2> QED BY <1>4, <2>3
<1> DEFINE q == tx + e
<1>6. p = b * q + g /\ q \in Nat
  <2>1. b * (tx + e) = b * tx + b * e /\ b * tx \in Nat /\ b * e \in Nat
    BY <1>3, <1>4
  <2> QED BY <1>3, <1>4, <2>1
<1> HIDE DEF q
<1>7. p \div b = q /\ p % b = g
  <2>1. (b * q + g) \div b = q /\ (b * q + g) % b = g
    BY <1>4, <1>6, DivisionUnique
  <2> QED BY <1>6, <2>1
<1> QED BY <1>5, <1>7, Zenon DEF q, e, g, p, z, tx

LEMMA LeftCarries ==
  ASSUME NEW n \in Nat, NEW t \in Nat \ {0}
  PROVE  \E c : Carries(c, n, t)
<1> DEFINE f == Quotients(n)
           g == Quotients(n * t)
           b == bigit_bound
           c == [w \in Nat |-> g[w] - t * f[w]]
           S == {w \in Nat : c[w] \in 0 .. t - 1}
<1>0. n * t \in Nat /\ b \in Nat \ {0}
  BY Bound
<1>1. f \in [Nat -> Nat] /\ f[0] = n /\ \A j \in Nat : f[j + 1] = f[j] \div b
  BY QuotientsAre
<1>2. g \in [Nat -> Nat] /\ g[0] = n * t /\ \A j \in Nat : g[j + 1] = g[j] \div b
  BY <1>0, QuotientsAre
<1> HIDE DEF f, g, b
<1>3. \A w \in Nat : c[w] \in Int /\ g[w] = t * f[w] + c[w]
  <2> SUFFICES ASSUME NEW w \in Nat PROVE c[w] \in Int /\ g[w] = t * f[w] + c[w]
    OBVIOUS
  <2> DEFINE x == t * f[w]
  <2>1. x \in Nat /\ g[w] \in Nat /\ c[w] = g[w] - x
    BY <1>1, <1>2
  <2> HIDE DEF x, c
  <2>2. c[w] \in Int /\ g[w] = x + c[w]
    BY <2>1
  <2> QED BY <2>2 DEF x
<1>4. c[0] = 0
  <2>1. c[0] = n * t - t * n /\ n * t = t * n
    BY <1>1, <1>2
  <2> QED BY <1>0, <2>1
<1>5. DOMAIN c = Nat
  OBVIOUS
<1>c. c = [w \in Nat |-> c[w]]
  OBVIOUS
<1> HIDE DEF c
<1>6. ASSUME NEW w \in Nat, c[w] \in 0 .. t - 1
      PROVE  /\ c[w + 1] = ((f[w] % b) * t + c[w]) \div b
             /\ g[w] % b = ((f[w] % b) * t + c[w]) % b
             /\ c[w + 1] \in 0 .. t - 1
  <2> DEFINE x == f[w] \div b
             d == f[w] % b
             e == c[w]
             z == d * t + e
             p == t * (b * x + d) + e
  <2>1. x \in Nat /\ d \in 0 .. b - 1 /\ f[w] = b * x + d
    <3>1. f[w] \in Nat
      BY <1>1
    <3> QED BY <1>0, <3>1, Division
  <2>2. f[w + 1] = x /\ g[w + 1] = g[w] \div b
    BY <1>1, <1>2
  <2> HIDE DEF x, d
  <2>3. g[w] = p
    BY <1>3, <2>1, Zenon
  <2>4. e \in 0 .. t - 1
    BY <1>6
  <2> HIDE DEF e
  <2>5. p \div b = t * x + z \div b /\ p % b = z % b /\ z \div b \in 0 .. t - 1
    BY <1>0, <2>1, <2>4, MultiplyDigit
  <2> HIDE DEF p, z
  <2>6. g[w + 1] = t * x + z \div b /\ g[w + 1] = t * x + c[w + 1] /\ c[w + 1] \in Int
    <3>1. w + 1 \in Nat
      OBVIOUS
    <3>2. g[w + 1] = t * f[w + 1] + c[w + 1] /\ c[w + 1] \in Int
      BY <1>3, <3>1
    <3> QED BY <2>2, <2>3, <2>5, <3>2, Zenon
  <2>7. c[w + 1] = z \div b
    <3> DEFINE tx == t * x
    <3>1. tx \in Nat
      BY <2>1
    <3> HIDE DEF tx
    <3>2. g[w + 1] = tx + z \div b /\ g[w + 1] = tx + c[w + 1]
      BY <2>6 DEF tx
    <3> QED BY <2>5, <2>6, <3>1, <3>2
  <2>8. g[w] % b = z % b
    BY <2>3, <2>5
  <2> QED BY <2>5, <2>7, <2>8, Zenon DEF z, d, e
<1>7. 0 \in S /\ \A w \in Nat : w \in S => w + 1 \in S
  BY <1>4, <1>6
<1> HIDE DEF S
<1>8. \A w \in Nat : w \in S
  BY <1>7, SetInduction
<1>9. \A w \in Nat : c[w] \in 0 .. t - 1
  BY <1>8 DEF S
<1>10. c \in [Nat -> 0 .. t - 1]
  BY <1>c, <1>9
<1>11. \A w \in Nat :
         /\ c[w + 1] = ((f[w] % b) * t + c[w]) \div b
         /\ g[w] % b = ((f[w] % b) * t + c[w]) % b
  BY <1>6, <1>9
<1>12. \A w \in Nat : CarryInto(c, f[w] % b, t, w, g[w] % b)
  BY <1>11, Zenon DEF CarryInto, b
<1>13. Carries(c, n, t)
  BY <1>4, <1>10, <1>12, Zenon DEF Carries, f, g, b
<1> QED BY <1>13

-----------------------------------------------------------------------------
(* The bigit at a weight, when the point is behind the bigit number point. *)
At(b, point, w) == IF point - w \in 1 .. Len(b) THEN b[point - w] ELSE 0

(* At most one leading bigit is zero.                                      *)
Leading(b) == b[1] # 0 \/ (Len(b) > 1 /\ b[2] # 0)

Bigits == Seq(0 .. bigit_bound - 1)

LEMMA BigitsAre ==
  ASSUME NEW b \in Bigits
  PROVE  /\ Len(b) \in Nat /\ DOMAIN b = 1 .. Len(b)
         /\ \A j \in 1 .. Len(b) : b[j] \in 0 .. bigit_bound - 1 /\ b[j] \in Nat
<1>1. /\ Len(b) \in Nat /\ DOMAIN b = 1 .. Len(b)
      /\ b \in [1 .. Len(b) -> 0 .. bigit_bound - 1]
  BY LenProperties DEF Bigits
<1> QED BY <1>1, Bound

LEMMA BigitsMade ==
  ASSUME NEW n \in Nat, NEW f \in [1..n -> 0 .. bigit_bound - 1]
  PROVE  f \in Bigits /\ Len(f) = n
<1>1. f \in Bigits
  BY SeqDef DEF Bigits
<1>2. Len(f) \in Nat /\ DOMAIN f = 1 .. Len(f) /\ DOMAIN f = 1..n
  BY <1>1, BigitsAre
<1> QED BY <1>1, <1>2

LEMMA BigitsPrepended ==
  ASSUME NEW b \in Bigits, NEW d \in 0 .. bigit_bound - 1
  PROVE  /\ <<d>> \o b \in Bigits /\ Len(<<d>> \o b) = Len(b) + 1
         /\ (<<d>> \o b)[1] = d
         /\ \A j \in 1 .. Len(b) : (<<d>> \o b)[j + 1] = b[j]
<1> DEFINE S == 0 .. bigit_bound - 1
           one == <<d>>
<1>1. one \in Seq(S) /\ Len(one) = 1 /\ one[1] = d /\ b \in Seq(S)
  BY DEF Bigits
<1> HIDE DEF one, S
<1>2. Len(b) \in Nat
  BY BigitsAre
<1>3. /\ one \o b \in Seq(S) /\ Len(one \o b) = 1 + Len(b)
      /\ \A j \in 1 .. 1 + Len(b) : (one \o b)[j] = IF j <= 1 THEN one[j] ELSE b[j - 1]
  <2>1. /\ one \o b \in Seq(S) /\ Len(one \o b) = Len(one) + Len(b)
        /\ \A j \in 1 .. Len(one) + Len(b) :
             (one \o b)[j] = IF j <= Len(one) THEN one[j] ELSE b[j - Len(one)]
    BY <1>1, ConcatProperties, Zenon
  <2> QED BY <1>1, <2>1
<1>4. \A j \in 1 .. Len(b) : (one \o b)[j + 1] = b[j]
  <2> SUFFICES ASSUME NEW j \in 1 .. Len(b) PROVE (one \o b)[j + 1] = b[j]
    OBVIOUS
  <2>1. j + 1 \in 1 .. 1 + Len(b) /\ ~(j + 1 <= 1) /\ (j + 1) - 1 = j
    BY <1>2
  <2> QED BY <1>3, <2>1
<1>5. (one \o b)[1] = d
  BY <1>1, <1>2, <1>3
<1> QED BY <1>2, <1>3, <1>4, <1>5 DEF one, S, Bigits

LEMMA BigitsAppended ==
  ASSUME NEW b \in Bigits, NEW d \in 0 .. bigit_bound - 1
  PROVE  /\ Append(b, d) \in Bigits /\ Len(Append(b, d)) = Len(b) + 1
         /\ Append(b, d)[Len(b) + 1] = d
         /\ \A j \in 1 .. Len(b) : Append(b, d)[j] = b[j]
<1>1. Len(b) \in Nat
  BY BigitsAre
<1> QED BY <1>1 DEF Bigits

(* b has the digits of n.                                                  *)
HasDigits(b, n) ==
  \A w \in Nat : Quotients(n)[w] % bigit_bound = At(b, Len(b), w)

(* The equation of ShiftLeft's carry.                                      *)
CarryEquation(h, b, t) ==
  h = [j \in 1 .. Len(b) + 1 |->
         IF j > Len(b) THEN 0 ELSE (b[j] * t + h[j + 1]) \div bigit_bound]

(* The carries of shift_left are those of the multiplication.              *)
LEMMA ShiftLeftCarries ==
  ASSUME NEW b \in Bigits, NEW t \in Nat \ {0}, NEW c, NEW n \in Nat, Carries(c, n, t),
         HasDigits(b, n), NEW h, CarryEquation(h, b, t)
  PROVE  \A k \in 0 .. Len(b) : h[(Len(b) + 1) - k] = c[k]
<1> DEFINE L == Len(b)
           S == {k \in Nat : h[(L + 1) - k] = c[k]}
<1>1. L \in Nat
  BY DEF Bigits
<1>0. h = [j \in 1 .. L + 1 |->
             IF j > L THEN 0 ELSE (b[j] * t + h[j + 1]) \div bigit_bound]
  BY DEF CarryEquation
<1>2. \A w \in 0 .. L - 1 : c[w + 1] = (b[L - w] * t + c[w]) \div bigit_bound
  <2> SUFFICES ASSUME NEW w \in 0 .. L - 1
               PROVE  c[w + 1] = (b[L - w] * t + c[w]) \div bigit_bound
    OBVIOUS
  <2>1. w \in Nat /\ L - w \in 1..L
    BY <1>1
  <2>2. Quotients(n)[w] % bigit_bound = b[L - w]
    BY <2>1 DEF At, HasDigits
  <2>3. CarryInto(c, b[L - w], t, w, Quotients(n * t)[w] % bigit_bound)
    BY <2>1, <2>2 DEF Carries
  <2> QED BY <2>3 DEF CarryInto
<1>3. 0 \in S
  <2>1. (L + 1) - 0 \in 1 .. L + 1 /\ (L + 1) - 0 > L
    BY <1>1
  <2>2. h[(L + 1) - 0] = 0
    BY <1>0, <2>1
  <2>3. c[0] = 0
    BY DEF Carries
  <2> QED BY <2>2, <2>3
<1>4. ASSUME NEW k \in 0 .. L - 1, k \in S PROVE k + 1 \in S
  <2>1. /\ (L + 1) - (k + 1) = L - k
        /\ L - k \in 1 .. L + 1 /\ ~(L - k > L) /\ (L - k) + 1 = (L + 1) - k
    BY <1>1
  <2>2. h[L - k] = (b[L - k] * t + h[(L + 1) - k]) \div bigit_bound
    BY <1>0, <2>1
  <2>3. h[(L + 1) - k] = c[k]
    BY <1>4
  <2>4. h[L - k] = c[k + 1]
    BY <1>2, <2>2, <2>3
  <2> QED BY <2>1, <2>4
<1> HIDE DEF S
<1>5. \A k \in 0..L : k \in S
  BY <1>1, <1>3, <1>4, IntervalInduction
<1> QED BY <1>5 DEF S

(* They exist: ShiftLeft's function does what its equation says.           *)
LEMMA ShiftLeftEquation ==
  ASSUME NEW b \in Bigits, NEW m \in Nat, 2^m \in Nat \ {0}, NEW c, NEW n \in Nat,
         Carries(c, n, 2^m), HasDigits(b, n)
  PROVE  ShiftLeft(b, m) =
           LET shifted == [j \in DOMAIN b |-> (b[j] * 2^m + c[Len(b) - j]) % bigit_bound]
           IN IF b[1] >= bigit_bound \div 2^m THEN <<c[Len(b)]>> \o shifted ELSE shifted
<1> DEFINE L == Len(b)
           t == 2^m
           Eq(f) == f = [j \in 1 .. L + 1 |->
                           IF j > L THEN 0 ELSE (b[j] * t + f[j + 1]) \div bigit_bound]
           h == CHOOSE f : Eq(f)
           g == [j \in 1 .. L + 1 |-> c[(L + 1) - j]]
<1>1. L \in Nat /\ DOMAIN b = 1..L
  BY DEF Bigits
<1>2. Eq(g)
  <2> SUFFICES ASSUME NEW j \in 1 .. L + 1
               PROVE  c[(L + 1) - j] = IF j > L THEN 0
                                       ELSE (b[j] * t + g[j + 1]) \div bigit_bound
    OBVIOUS
  <2>1. CASE j > L
    <3>1. (L + 1) - j = 0
      BY <1>1, <2>1
    <3>2. c[0] = 0
      BY DEF Carries
    <3> QED BY <2>1, <3>1, <3>2
  <2>2. CASE j <= L
    <3> DEFINE w == L - j
    <3>1. w \in Nat /\ L - w = j /\ j \in 1..L /\ w + 1 = (L + 1) - j
          /\ j + 1 \in 1 .. L + 1 /\ (L + 1) - (j + 1) = w
      BY <1>1, <2>2
    <3>2. g[j + 1] = c[w]
      BY <3>1
    <3> HIDE DEF w, g
    <3>3. Quotients(n)[w] % bigit_bound = b[j]
      BY <3>1 DEF At, HasDigits
    <3>4. CarryInto(c, b[j], t, w, Quotients(n * t)[w] % bigit_bound)
      BY <3>1, <3>3 DEF Carries
    <3>5. c[w + 1] = (b[j] * t + c[w]) \div bigit_bound
      BY <3>4 DEF CarryInto
    <3> QED BY <1>1, <2>2, <3>1, <3>2, <3>5
  <2> QED BY <1>1, <2>1, <2>2
<1>3. Eq(h)
  <2> HIDE DEF Eq
  <2> QED BY <1>2
<1>4. ShiftLeft(b, m) =
        LET shifted == [j \in DOMAIN b |-> (b[j] * t + h[j + 1]) % bigit_bound]
        IN IF b[1] >= bigit_bound \div t THEN <<h[1]>> \o shifted ELSE shifted
  BY Zenon DEF ShiftLeft
<1>5. h = [j \in 1 .. L + 1 |->
             IF j > L THEN 0 ELSE (b[j] * t + h[j + 1]) \div bigit_bound]
  BY <1>3
<1> HIDE DEF h
<1>6. t \in Nat \ {0} /\ Carries(c, n, t) /\ CarryEquation(h, b, t)
  BY <1>5 DEF CarryEquation
<1> HIDE DEF t
<1>7. \A k \in 0..L : h[(L + 1) - k] = c[k]
  BY <1>6, ShiftLeftCarries
<1>8. h[1] = c[L]
  <2>1. L \in 0..L /\ (L + 1) - L = 1
    BY <1>1
  <2> QED BY <1>7, <2>1
<1>9. \A j \in DOMAIN b : h[j + 1] = c[L - j]
  <2> SUFFICES ASSUME NEW j \in 1..L PROVE h[j + 1] = c[L - j]
    BY <1>1
  <2>1. L - j \in 0..L /\ (L + 1) - (L - j) = j + 1
    BY <1>1
  <2> QED BY <1>7, <2>1
<1>10. [j \in DOMAIN b |-> (b[j] * t + h[j + 1]) % bigit_bound]
        = [j \in DOMAIN b |-> (b[j] * t + c[L - j]) % bigit_bound]
  BY <1>9, Zenon
<1> QED BY <1>4, <1>8, <1>10, Zenon DEF t

(* The carry and the digit are zero in front of all digits.                *)
LEMMA CarriesEnd ==
  ASSUME NEW b \in Bigits, NEW t \in Nat \ {0}, t <= bigit_bound, NEW c, NEW n \in Nat,
         Carries(c, n, t), HasDigits(b, n)
  PROVE  /\ Quotients(n * t)[Len(b)] % bigit_bound = c[Len(b)]
         /\ \A k \in Nat : k > Len(b) => Quotients(n * t)[k] % bigit_bound = 0
<1> DEFINE L == Len(b)
           D(w) == Quotients(n * t)[w] % bigit_bound
           S == {k \in Nat : c[L + 1 + k] = 0}
<1>1. L \in Nat
  BY DEF Bigits
<1>2. ASSUME NEW w \in Nat, w >= L
      PROVE  c[w + 1] = c[w] \div bigit_bound /\ D(w) = c[w] % bigit_bound
  <2>1. ~(L - w \in 1..L)
    BY <1>1, <1>2
  <2>2. Quotients(n)[w] % bigit_bound = 0
    BY <2>1 DEF HasDigits, At
  <2>3. CarryInto(c, 0, t, w, D(w))
    BY <2>2 DEF Carries
  <2>4. 0 * t + c[w] = c[w]
    <3>1. c[w] \in 0 .. t - 1
      BY DEF Carries
    <3> QED BY <3>1
  <2> QED BY <2>3, <2>4, Zenon DEF CarryInto
<1>3. \A w \in Nat : c[w] \in 0 .. bigit_bound - 1
  <2>1. \A w \in Nat : c[w] \in 0 .. t - 1
    BY DEF Carries
  <2> QED BY <2>1, Bound
<1>4. \A x \in 0 .. bigit_bound - 1 : x \div bigit_bound = 0 /\ x % bigit_bound = x
  <2> SUFFICES ASSUME NEW x \in 0 .. bigit_bound - 1
               PROVE  x \div bigit_bound = 0 /\ x % bigit_bound = x
    OBVIOUS
  <2> DEFINE B == bigit_bound
  <2>1. B \in Nat \ {0} /\ x \in 0 .. B - 1 /\ 0 \in Nat
    BY Bound
  <2> HIDE DEF B
  <2>2. (B * 0 + x) \div B = 0 /\ (B * 0 + x) % B = x
    BY <2>1, DivisionUnique
  <2>3. B * 0 + x = x
    BY <2>1
  <2> QED BY <2>2, <2>3, Zenon DEF B
<1>5. D(L) = c[L] /\ c[L + 1] = 0
  BY <1>1, <1>2, <1>3, <1>4
<1>6. 0 \in S
  <2>1. L + 1 + 0 = L + 1
    BY <1>1
  <2> QED BY <1>5, <2>1
<1>7. ASSUME NEW k \in Nat, k \in S PROVE k + 1 \in S
  <2> DEFINE w == L + 1 + k
  <2>1. w \in Nat /\ w >= L /\ w + 1 = L + 1 + (k + 1)
    BY <1>1
  <2>2. c[w] = 0
    BY <1>7
  <2> HIDE DEF w
  <2>3. c[w + 1] = 0 \div bigit_bound
    BY <1>2, <2>1, <2>2
  <2>4. 0 \in 0 .. bigit_bound - 1
    BY Bound
  <2>5. c[w + 1] = 0
    BY <1>4, <2>3, <2>4
  <2> QED BY <2>1, <2>5
<1> HIDE DEF S
<1>8. \A k \in Nat : k \in S
  BY <1>6, <1>7, SetInduction
<1>9. ASSUME NEW k \in Nat, k > L PROVE D(k) = 0
  <2>1. k - (L + 1) \in Nat /\ L + 1 + (k - (L + 1)) = k
    BY <1>1, <1>9
  <2>2. c[k] = 0
    BY <1>8, <2>1 DEF S
  <2>3. 0 \in 0 .. bigit_bound - 1
    BY Bound
  <2> QED BY <1>1, <1>2, <1>4, <1>9, <2>2, <2>3
<1> QED BY <1>5, <1>9

(* Without growing, nothing is carried out of the first bigit.             *)
LEMMA NoCarryOut ==
  ASSUME NEW B \in Nat \ {0}, NEW t \in Nat \ {0}, NEW d \in Nat, NEW c \in 0 .. t - 1,
         d < B \div t
  PROVE  d * t + c < B
<1> DEFINE q == B \div t
<1>1. q \in Nat /\ B % t \in Nat /\ B = t * q + (B % t)
  BY Division
<1> HIDE DEF q
<1>2. (d + 1) * t <= q * t
  BY <1>1, ProductOrder DEF q
<1>3. (d + 1) * t = d * t + t /\ q * t = t * q /\ d * t \in Nat /\ t * q \in Nat
  BY <1>1
<1> QED BY <1>1, <1>2, <1>3

ShiftedLeft(b, r, n, t) ==
  /\ r \in Bigits /\ Len(r) >= Len(b)
  /\ HasDigits(r, n * t)
  /\ Leading(b) => Leading(r)

LEMMA ShiftLeftIs ==
  ASSUME NEW b \in Bigits, Len(b) >= 1, NEW m \in Nat, 2^m \in Nat \ {0}, 2^m <= bigit_bound,
         NEW n \in Nat, HasDigits(b, n)
  PROVE  ShiftedLeft(b, ShiftLeft(b, m), n, 2^m)
<1> DEFINE L == Len(b)
           t == 2^m
           D(w) == Quotients(n * t)[w] % bigit_bound
<1>1. PICK c : Carries(c, n, t)
  BY LeftCarries
<1> DEFINE shifted == [j \in DOMAIN b |-> (b[j] * t + c[L - j]) % bigit_bound]
           r == ShiftLeft(b, m)
<1>2. r = IF b[1] >= bigit_bound \div t THEN <<c[L]>> \o shifted ELSE shifted
  BY <1>1, ShiftLeftEquation
<1>3. t \in Nat \ {0} /\ t <= bigit_bound
  OBVIOUS
<1> HIDE DEF t, r
<1>4. L \in Nat /\ DOMAIN b = 1..L /\ L >= 1 /\ \A j \in 1..L : b[j] \in 0 .. bigit_bound - 1
  BY BigitsAre
<1>5. n * t \in Nat /\ \A w \in Nat : D(w) \in 0 .. bigit_bound - 1
  <2>1. n * t \in Nat
    BY <1>3
  <2>2. \A w \in Nat : Quotients(n * t)[w] \in Nat
    BY <2>1, QuotientsAre
  <2>3. \A q \in Nat : q % bigit_bound \in 0 .. bigit_bound - 1
    BY Bound, Division
  <2> QED BY <2>1, <2>2, <2>3
<1>6. \A j \in 1..L : shifted[j] = D(L - j)
  <2> SUFFICES ASSUME NEW j \in 1..L PROVE shifted[j] = D(L - j)
    OBVIOUS
  <2> DEFINE w == L - j
  <2>1. w \in Nat /\ L - w = j
    BY <1>4
  <2>2. shifted[j] = (b[j] * t + c[w]) % bigit_bound
    BY <1>4
  <2> HIDE DEF w, shifted
  <2>3. Quotients(n)[w] % bigit_bound = b[j]
    BY <2>1 DEF HasDigits, At
  <2>4. CarryInto(c, b[j], t, w, D(w))
    BY <1>1, <2>1, <2>3 DEF Carries
  <2> QED BY <2>2, <2>4 DEF CarryInto, w
<1>7. DOMAIN shifted = 1..L
  BY <1>4
<1>s. shifted = [j \in 1..L |-> shifted[j]]
  BY <1>4
<1> HIDE DEF shifted
<1>8. shifted \in Bigits /\ Len(shifted) = L
  <2>1. \A j \in 1..L : shifted[j] \in 0 .. bigit_bound - 1
    <3> SUFFICES ASSUME NEW j \in 1..L PROVE shifted[j] \in 0 .. bigit_bound - 1
      OBVIOUS
    <3>1. L - j \in Nat
      BY <1>4
    <3> HIDE DEF L
    <3> QED BY <1>5, <1>6, <3>1
  <2> HIDE DEF L, D
  <2>2. shifted \in [1..L -> 0 .. bigit_bound - 1]
    BY <1>s, <2>1
  <2> QED BY <1>4, <2>2, BigitsMade
<1>9. D(L) = c[L] /\ \A k \in Nat : k > L => D(k) = 0
  BY <1>1, <1>3, CarriesEnd
<1>10. c[L] \in 0 .. bigit_bound - 1
  BY <1>4, <1>5, <1>9
<1>11. \A w \in Nat : c[w] \in 0 .. t - 1
  BY <1>1 DEF Carries
<1>12. c[L] = (b[1] * t + c[L - 1]) \div bigit_bound /\ D(L - 1) = (b[1] * t + c[L - 1]) % bigit_bound
  <2> DEFINE w == L - 1
  <2>1. w \in Nat /\ L - w = 1 /\ w + 1 = L
    BY <1>4
  <2> HIDE DEF w
  <2>2. Quotients(n)[w] % bigit_bound = b[1]
    BY <1>4, <2>1 DEF HasDigits, At
  <2>3. CarryInto(c, b[1], t, w, D(w))
    BY <1>1, <2>1, <2>2 DEF Carries
  <2> QED BY <2>1, <2>3 DEF CarryInto, w
<1> DEFINE z == b[1] * t + c[L - 1]
<1>13. z \in Nat /\ (b[1] # 0 => z # 0) /\ (b[1] = 0 => z = c[L - 1])
  <2> DEFINE x == b[1]
             e == c[L - 1]
  <2>1. x \in Nat /\ e \in Nat
    <3>1. L - 1 \in Nat
      BY <1>4
    <3>2. e \in 0 .. t - 1 /\ x \in 0 .. bigit_bound - 1
      BY <1>4, <1>11, <3>1
    <3> QED BY <3>2, <1>3, Bound
  <2> HIDE DEF x, e
  <2>2. x * t \in Nat /\ (x # 0 => x * t # 0) /\ (x = 0 => x * t = 0)
    BY <1>3, <2>1
  <2> QED BY <2>1, <2>2 DEF x, e
<1>14. z = bigit_bound * c[L] + D(L - 1)
  <2> DEFINE B == bigit_bound
  <2>1. B \in Nat \ {0} /\ c[L] = z \div B /\ D(L - 1) = z % B
    BY <1>12, Bound
  <2> HIDE DEF z, D, B, L
  <2>2. z = B * (z \div B) + (z % B)
    BY <1>13, <2>1, Division
  <2> QED BY <2>1, <2>2, Zenon DEF B
<1>20. CASE b[1] >= bigit_bound \div t
  <2>1. r = <<c[L]>> \o shifted
    BY <1>2, <1>20
  <2>2. /\ r \in Bigits /\ Len(r) = L + 1 /\ r[1] = c[L]
        /\ \A j \in 1..L : r[j + 1] = shifted[j]
    BY <1>8, <1>10, <2>1, BigitsPrepended
  <2>3. HasDigits(r, n * t)
    <3> SUFFICES ASSUME NEW w \in Nat PROVE D(w) = At(r, L + 1, w)
      BY <2>2 DEF HasDigits
    <3>1. CASE w > L
      <4>1. ~((L + 1) - w \in 1 .. L + 1)
        BY <1>4, <3>1
      <4> QED BY <1>9, <2>2, <3>1, <4>1 DEF At
    <3>2. CASE w = L
      <4>1. (L + 1) - w = 1 /\ 1 \in 1 .. L + 1
        BY <1>4, <3>2
      <4> QED BY <1>9, <2>2, <3>2, <4>1 DEF At
    <3>3. CASE w < L
      <4> DEFINE j == L - w
      <4>1. j \in 1..L /\ (L + 1) - w = j + 1 /\ j + 1 \in 1 .. L + 1 /\ L - j = w
        BY <1>4, <3>3
      <4>2. At(r, L + 1, w) = r[j + 1]
        BY <2>2, <4>1 DEF At
      <4>3. r[j + 1] = shifted[j] /\ shifted[j] = D(L - j)
        BY <1>6, <2>2, <4>1
      <4>4. D(L - j) = D(w)
        BY <4>1
      <4> HIDE DEF j, L, D
      <4> QED BY <4>2, <4>3, <4>4
    <3> HIDE DEF D, L
    <3> QED BY <1>4, <3>1, <3>2, <3>3
  <2>4. Leading(b) => Leading(r)
    <3> SUFFICES ASSUME r[1] = 0, r[2] = 0 PROVE ~Leading(b)
      BY <1>4, <2>2 DEF Leading
    <3>1. r[2] = D(L - 1)
      <4>1. 1 \in 1..L /\ 1 + 1 = 2
        BY <1>4
      <4> QED BY <1>6, <2>2, <4>1
    <3>2. z = bigit_bound * 0 + 0
      BY <1>14, <2>2, <3>1
    <3>3. z = 0
      BY <3>2, Bound
    <3>4. b[1] = 0
      BY <1>13, <3>3
    <3>5. bigit_bound \div t = 0
      <4>1. bigit_bound \div t \in Nat
        BY <1>3, Bound, Division
      <4> QED BY <1>20, <3>4, <4>1
    <3> QED
      <4> DEFINE B == bigit_bound
                 g == B % t
      <4>1. B \in Nat /\ g \in 0 .. t - 1 /\ B = t * (B \div t) + g
        BY <1>3, Bound, Division
      <4> HIDE DEF g
      <4>2. B = t * 0 + g
        BY <3>5, <4>1
      <4> HIDE DEF B
      <4>3. B < t
        BY <1>3, <4>1, <4>2
      <4> QED BY <1>3, <4>1, <4>3 DEF B
  <2> QED BY <1>4, <2>2, <2>3, <2>4 DEF ShiftedLeft, t, r
<1>21. CASE ~(b[1] >= bigit_bound \div t)
  <2>1. r = shifted
    BY <1>2, <1>21
  <2>2. z < bigit_bound
    <3>1. bigit_bound \in Nat \ {0} /\ b[1] \in Nat /\ L - 1 \in Nat
      BY <1>4, Bound
    <3>2. bigit_bound \div t \in Nat
      BY <1>3, <3>1, Division
    <3>3. b[1] < bigit_bound \div t
      BY <1>21, <3>1, <3>2
    <3>4. c[L - 1] \in 0 .. t - 1
      BY <1>11, <3>1
    <3> QED BY <1>3, <3>1, <3>3, <3>4, NoCarryOut
  <2>3. c[L] = 0 /\ D(L - 1) = z
    <3> DEFINE B == bigit_bound
               x == c[L]
               y == D(L - 1)
    <3>1. B \in Nat \ {0} /\ x \in Nat /\ y \in Nat /\ z = B * x + y /\ z < B
      <4>1. L - 1 \in Nat
        BY <1>4
      <4>2. y \in 0 .. B - 1
        BY <1>5, <4>1
      <4> HIDE DEF y, z, x
      <4> QED BY <1>10, <1>14, <2>2, <4>2, Bound DEF x, y
    <3> HIDE DEF B, x, y, z
    <3>2. x = 0
      <4> SUFFICES ASSUME x >= 1 PROVE FALSE
        BY <3>1
      <4>1. B * x >= B
        BY <3>1
      <4> QED BY <3>1, <4>1
    <3> QED BY <3>1, <3>2 DEF x, y
  <2>4. HasDigits(r, n * t)
    <3> SUFFICES ASSUME NEW w \in Nat PROVE D(w) = At(r, L, w)
      BY <1>8, <2>1 DEF HasDigits
    <3>1. CASE w >= L
      <4>1. ~(L - w \in 1..L)
        BY <1>4, <3>1
      <4>2. D(w) = 0
        BY <1>4, <1>9, <2>3, <3>1
      <4> QED BY <1>8, <2>1, <4>1, <4>2 DEF At
    <3>2. CASE w < L
      <4> DEFINE j == L - w
      <4>1. j \in 1..L /\ L - j = w
        BY <1>4, <3>2
      <4>2. At(r, L, w) = r[j]
        BY <1>8, <2>1, <4>1 DEF At
      <4>3. r[j] = D(L - j)
        BY <1>6, <2>1, <4>1
      <4>4. D(L - j) = D(w)
        BY <4>1
      <4> HIDE DEF j, L, D
      <4> QED BY <4>2, <4>3, <4>4
    <3> QED BY <1>4, <3>1, <3>2
  <2>5. r[1] = z
    <3>1. 1 \in 1..L
      BY <1>4
    <3> QED BY <1>6, <2>1, <2>3, <3>1
  <2>6. Leading(b) => Leading(r)
    <3>1. CASE b[1] # 0
      BY <1>13, <2>5, <3>1 DEF Leading
    <3>2. CASE b[1] = 0 /\ L > 1 /\ b[2] # 0
      <4> DEFINE w == L - 2
                 y == b[2] * t + c[w]
      <4>1. w \in Nat /\ L - w = 2 /\ w + 1 = L - 1 /\ 2 \in 1..L
        BY <1>4, <3>2
      <4> HIDE DEF w
      <4>2. Quotients(n)[w] % bigit_bound = b[2]
        BY <1>4, <4>1 DEF HasDigits, At
      <4>3. CarryInto(c, b[2], t, w, D(w))
        BY <1>1, <4>1, <4>2 DEF Carries
      <4>4. c[L - 1] = y \div bigit_bound /\ D(w) = y % bigit_bound
        BY <4>1, <4>3 DEF CarryInto
      <4>5. r[1] = c[L - 1] /\ r[2] = D(w)
        <5>1. r[1] = c[L - 1]
          BY <1>13, <2>5, <3>2
        <5>2. L - 2 = w
          BY DEF w
        <5>3. r[2] = D(L - 2)
          BY <1>6, <2>1, <4>1
        <5> QED BY <5>1, <5>2, <5>3
      <4>6. y \in Nat \ {0}
        <5>1. b[2] \in Nat \ {0} /\ c[w] \in Nat
          <6>1. c[w] \in 0 .. t - 1 /\ b[2] \in 0 .. bigit_bound - 1
            BY <1>4, <1>11, <4>1
          <6> QED BY <1>3, <3>2, <6>1, Bound
        <5>2. b[2] * t \in Nat \ {0}
          BY <1>3, <5>1
        <5> QED BY <5>1, <5>2
      <4> HIDE DEF y
      <4>7. r[1] # 0 \/ r[2] # 0
        <5> SUFFICES ASSUME r[1] = 0, r[2] = 0 PROVE FALSE
          OBVIOUS
        <5>1. y \div bigit_bound = 0 /\ y % bigit_bound = 0
          BY <4>4, <4>5
        <5>2. y = bigit_bound * (y \div bigit_bound) + (y % bigit_bound)
          BY <4>6, Bound, Division
        <5>3. y = bigit_bound * 0 + 0
          BY <5>1, <5>2
        <5> QED BY <4>6, <5>3, Bound
      <4> QED BY <1>8, <2>1, <3>2, <4>7 DEF Leading
    <3> QED BY <3>1, <3>2 DEF Leading
  <2> QED BY <1>4, <1>8, <2>1, <2>4, <2>6 DEF ShiftedLeft, t, r
<1> QED BY <1>20, <1>21

-----------------------------------------------------------------------------
(* b has the digits of n / u, the point behind the bigit number point.     *)
HasFraction(b, point, n, u) == \A w \in Int : Long(n, u, w) = At(b, point, w)

(* Nothing of n / u is left behind the last bigit.                         *)
Exhausted(b, point, n, u) ==
  Len(b) - point \in Nat /\ Remainders(n, u)[Len(b) - point] = 0

LEMMA BorrowIs ==
  ASSUME NEW x \in Nat, NEW m \in Nat, 2^m \in Nat \ {0}, bigit_bound % 2^m = 0
  PROVE  /\ Borrow(x, m) = (x % 2^m) * (bigit_bound \div 2^m)
         /\ x # 0 /\ x \div 2^m = 0 => Borrow(x, m) # 0
         /\ Borrow(0, m) = 0
<1> DEFINE t == 2^m
           B == bigit_bound
           c == B \div t
<1>1. B \in Nat \ {0} /\ t \in Nat \ {0} /\ B % t = 0
  BY Bound
<1>2. Borrow(x, m) = ((x % t) * B) \div t /\ Borrow(0, m) = ((0 % t) * B) \div t
  BY DEF Borrow
<1> HIDE DEF t, B
<1>3. c \in Nat \ {0} /\ B = t * c
  BY <1>1, ExactQuotient
<1> HIDE DEF c
<1>4. ASSUME NEW y \in Nat PROVE (y * B) \div t = y * c
  <2> DEFINE yc == y * c
  <2>1. y * (t * c) = t * (y * c)
    BY <1>1, <1>3
  <2>2. yc \in Nat
    BY <1>3
  <2> HIDE DEF yc
  <2>3. y * B = t * yc + 0 /\ 0 \in 0 .. t - 1
    <3>1. y * B = t * yc
      BY <1>3, <2>1 DEF yc
    <3>2. t * yc \in Nat
      BY <1>1, <2>2
    <3> QED BY <1>1, <3>1, <3>2
  <2>4. (t * yc + 0) \div t = yc
    BY <1>1, <2>2, <2>3, DivisionUnique
  <2> QED BY <2>3, <2>4, Zenon DEF yc
<1>5. x % t \in Nat /\ x \div t \in Nat /\ x = t * (x \div t) + (x % t)
  <2>1. x % t \in 0 .. t - 1 /\ x \div t \in Nat /\ x = t * (x \div t) + (x % t)
    BY <1>1, Division
  <2> QED BY <1>1, <2>1
<1>6. Borrow(x, m) = (x % t) * c
  BY <1>2, <1>4, <1>5
<1>7. ASSUME x # 0, x \div t = 0 PROVE (x % t) * c # 0
  <2> DEFINE y == x % t
  <2>1. y \in Nat /\ x = t * 0 + y
    BY <1>5, <1>7
  <2> HIDE DEF y
  <2>2. y # 0
    BY <1>1, <1>7, <2>1
  <2>3. y * c # 0
    BY <1>3, <2>1, <2>2
  <2> QED BY <2>3 DEF y
<1>8. Borrow(0, m) = 0
  <2>1. 0 % t = 0
    BY <1>1
  <2>2. (0 % t) * B = 0 * B /\ 0 \in Nat
    BY <2>1
  <2>3. Borrow(0, m) = 0 * c
    BY <1>2, <1>4, <2>2
  <2> QED BY <1>3, <2>3
<1> QED BY <1>6, <1>7, <1>8, Zenon DEF t, B, c

ShiftedRight(b, r, point, q, n, u) ==
  /\ r \in Bigits /\ Len(r) >= 1
  /\ HasFraction(r, q, n, u)
  /\ b[1] # 0 => r[1] # 0
  /\ Exhausted(r, q, n, u)

LEMMA ShiftRightIs ==
  ASSUME NEW b \in Bigits, Len(b) >= 1, NEW m \in Nat, 2^m \in Nat \ {0},
         bigit_bound % 2^m = 0, NEW u \in Nat \ {0}, NEW n \in Nat, NEW point \in Int,
         HasFraction(b, point, n, u), Exhausted(b, point, n, u)
  PROVE  ShiftedRight(b, ShiftRight(b, m), point,
                      point - (IF Vanishes(b, m) THEN 1 ELSE 0), n, u * 2^m)
<1> DEFINE L == Len(b)
           t == 2^m
           E(w) == Long(n, u * t, w)
           offset == IF Vanishes(b, m) THEN 1 ELSE 0
           F(k) == (IF k = 1 THEN 0 ELSE Borrow(b[k - 1], m)) + b[k] \div t
           shifted == [j \in 1 .. L - offset |->
                         (IF j + offset = 1 THEN 0 ELSE Borrow(b[j + offset - 1], m))
                           + b[j + offset] \div t]
           last == Borrow(b[L], m)
           r == ShiftRight(b, m)
<1>1. r = IF last # 0 THEN Append(shifted, last) ELSE shifted
  BY DEF ShiftRight
<1>2. t \in Nat \ {0} /\ bigit_bound % t = 0
  OBVIOUS
<1>3. offset \in {0, 1} /\ (offset = 1 <=> b[1] # 0 /\ b[1] \div t = 0)
  BY DEF Vanishes
<1>4. L \in Nat /\ L >= 1 /\ \A j \in 1..L : b[j] \in Nat
  BY BigitsAre
<1>5. \A x \in Nat : /\ Borrow(x, m) = (x % t) * (bigit_bound \div t)
                     /\ x # 0 /\ x \div t = 0 => Borrow(x, m) # 0
                     /\ Borrow(0, m) = 0
  BY <1>2, BorrowIs
<1> HIDE DEF offset, t, r, last
<1>6. \A w \in Int : E(w) \in 0 .. bigit_bound - 1 /\ E(w) \in Nat
  <2>1. u * t \in Nat \ {0}
    BY <1>2
  <2> DEFINE ut == u * t
  <2> HIDE DEF ut
  <2>3. ut \in Nat \ {0}
    BY <2>1 DEF ut
  <2>4. \A w \in Int : Long(n, ut, w) \in 0 .. bigit_bound - 1
    BY <2>3, LongRange
  <2>2. \A w \in Int : E(w) \in 0 .. bigit_bound - 1
    BY <2>4 DEF ut
  <2> HIDE DEF E
  <2> SUFFICES ASSUME NEW w \in Int PROVE E(w) \in 0 .. bigit_bound - 1 /\ E(w) \in Nat
    OBVIOUS
  <2>5. E(w) \in 0 .. bigit_bound - 1
    BY <2>2
  <2>6. \A q \in 0 .. bigit_bound - 1 : q \in Nat
    BY Bound
  <2> QED BY <2>5, <2>6, Zenon
<1>7. ASSUME NEW w \in Int
      PROVE  E(w) = Borrow(At(b, point, w + 1), m) + At(b, point, w) \div t
  <2>1. E(w) = (Long(n, u, w + 1) % t) * (bigit_bound \div t) + (Long(n, u, w) \div t)
    BY <1>2, RightDigits
  <2>2. Long(n, u, w + 1) = At(b, point, w + 1) /\ Long(n, u, w) = At(b, point, w)
    BY DEF HasFraction
  <2>3. At(b, point, w + 1) \in Nat
    BY <1>4 DEF At
  <2> QED BY <1>5, <2>1, <2>2, <2>3, Zenon
<1>8. 0 \div t = 0
  BY <1>2
<1>9. ASSUME NEW k \in Int
      PROVE  E(point - k) = IF k \in 1..L THEN F(k) ELSE IF k = L + 1 THEN last ELSE 0
  <2> DEFINE w == point - k
  <2>1. w \in Int /\ point - w = k /\ point - (w + 1) = k - 1
    OBVIOUS
  <2> HIDE DEF w
  <2>2. At(b, point, w) = IF k \in 1..L THEN b[k] ELSE 0
    BY <2>1 DEF At
  <2>3. At(b, point, w + 1) = IF k - 1 \in 1..L THEN b[k - 1] ELSE 0
    BY <2>1 DEF At
  <2>4. E(w) = Borrow(At(b, point, w + 1), m) + At(b, point, w) \div t
    BY <1>7, <2>1
  <2>5. Borrow(0, m) = 0
    BY <1>5
  <2>6. \A j \in 1..L : Borrow(b[j], m) \in Nat /\ b[j] \div t \in Nat
    <3> SUFFICES ASSUME NEW j \in 1..L PROVE Borrow(b[j], m) \in Nat /\ b[j] \div t \in Nat
      OBVIOUS
    <3> DEFINE x == b[j]
               y == x % t
               c == bigit_bound \div t
    <3>1. x \in Nat /\ c \in Nat
      BY <1>2, <1>4, Bound, Division
    <3> HIDE DEF x, c
    <3>2. y \in Nat /\ x \div t \in Nat
      <4>1. x % t \in 0 .. t - 1 /\ x \div t \in Nat
        BY <1>2, <3>1, Division
      <4> QED BY <1>2, <4>1
    <3>3. Borrow(x, m) = y * c
      BY <1>5, <3>1 DEF c
    <3> HIDE DEF y
    <3>4. y * c \in Nat
      BY <3>1, <3>2
    <3> QED BY <3>2, <3>3, <3>4 DEF x
  <2>7. CASE k \in 1..L
    <3>1. k = 1 => ~(k - 1 \in 1..L)
      OBVIOUS
    <3>2. k # 1 => k - 1 \in 1..L
      BY <2>7
    <3>3. At(b, point, w) = b[k]
      BY <2>2, <2>7
    <3>4. Borrow(At(b, point, w + 1), m) = IF k = 1 THEN 0 ELSE Borrow(b[k - 1], m)
      BY <2>3, <2>5, <3>1, <3>2
    <3>5. E(w) = F(k)
      BY <2>4, <3>3, <3>4, Zenon
    <3> QED BY <2>7, <3>5 DEF w
  <2>8. CASE k = L + 1
    <3>1. ~(k \in 1..L) /\ k - 1 = L /\ L \in 1..L
      BY <1>4, <2>8
    <3>2. At(b, point, w) = 0 /\ At(b, point, w + 1) = b[L]
      BY <2>2, <2>3, <3>1
    <3>3. E(w) = Borrow(b[L], m) + 0 \div t
      BY <2>4, <3>2, Zenon
    <3>4. E(w) = last
      BY <1>8, <2>6, <3>1, <3>3 DEF last
    <3> QED BY <2>8, <3>1, <3>4 DEF w
  <2>9. CASE ~(k \in 1 .. L + 1)
    <3>1. ~(k \in 1..L) /\ ~(k - 1 \in 1..L) /\ k # L + 1
      BY <1>4, <2>9
    <3>2. At(b, point, w) = 0 /\ At(b, point, w + 1) = 0
      BY <2>2, <2>3, <3>1
    <3>3. E(w) = Borrow(0, m) + 0 \div t
      BY <2>4, <3>2, Zenon
    <3>4. E(w) = 0
      BY <1>8, <2>5, <3>3
    <3> QED BY <3>1, <3>4 DEF w
  <2> QED BY <1>4, <2>7, <2>8, <2>9
<1>10. last \in 0 .. bigit_bound - 1
  <2>1. L + 1 \in Int /\ ~(L + 1 \in 1..L) /\ point - (L + 1) \in Int
    BY <1>4
  <2>2. E(point - (L + 1)) = last
    BY <1>9, <2>1
  <2> HIDE DEF E
  <2> QED BY <1>6, <2>1, <2>2
<1>11. L - offset \in Nat
  BY <1>3, <1>4
<1>12. \A j \in 1 .. L - offset : shifted[j] = E(point - (j + offset))
  <2> SUFFICES ASSUME NEW j \in 1 .. L - offset
               PROVE  shifted[j] = E(point - (j + offset))
    OBVIOUS
  <2>1. j + offset \in 1..L /\ j + offset \in Int
    BY <1>3, <1>4
  <2>2. shifted[j] = F(j + offset)
    <3>1. (j + offset) - 1 = j + offset - 1
      BY <1>3
    <3> QED BY <3>1
  <2> QED BY <1>9, <2>1, <2>2
<1>13. shifted \in Bigits /\ Len(shifted) = L - offset
  <2>1. \A j \in 1 .. L - offset : shifted[j] \in 0 .. bigit_bound - 1
    <3> SUFFICES ASSUME NEW j \in 1 .. L - offset PROVE shifted[j] \in 0 .. bigit_bound - 1
      OBVIOUS
    <3>1. point - (j + offset) \in Int
      BY <1>3
    <3> HIDE DEF E, shifted
    <3> QED BY <1>6, <1>12, <3>1
  <2>2. shifted = [j \in 1 .. L - offset |-> shifted[j]]
    OBVIOUS
  <2> HIDE DEF shifted
  <2>3. shifted \in [1 .. L - offset -> 0 .. bigit_bound - 1]
    BY <2>1, <2>2
  <2> QED BY <1>11, <2>3, BigitsMade
<1> HIDE DEF E, shifted
<1>14. /\ r \in Bigits
       /\ Len(r) = (L - offset) + (IF last # 0 THEN 1 ELSE 0)
       /\ \A j \in 1 .. Len(r) : r[j] = E(point - (j + offset))
  <2>1. CASE last = 0
    BY <1>1, <1>11, <1>12, <1>13, <2>1
  <2>2. CASE last # 0
    <3>1. r = Append(shifted, last)
      BY <1>1, <2>2
    <3>2. /\ r \in Bigits /\ Len(r) = (L - offset) + 1
          /\ r[(L - offset) + 1] = last
          /\ \A j \in 1 .. L - offset : r[j] = shifted[j]
      BY <1>10, <1>13, <3>1, BigitsAppended
    <3>3. E(point - (L + 1)) = last
      <4>1. L + 1 \in Int /\ ~(L + 1 \in 1..L)
        BY <1>4
      <4> QED BY <1>9, <4>1
    <3>4. ASSUME NEW j \in 1 .. Len(r) PROVE r[j] = E(point - (j + offset))
      <4>1. CASE j \in 1 .. L - offset
        BY <1>12, <3>2, <4>1
      <4>2. CASE j = (L - offset) + 1
        <5>1. j + offset = L + 1
          BY <1>3, <1>4, <4>2
        <5> QED BY <3>2, <3>3, <4>2, <5>1
      <4> QED BY <1>11, <3>2, <4>1, <4>2
    <3> QED BY <2>2, <3>2, <3>4
  <2> QED BY <2>1, <2>2
<1>15. ASSUME NEW k \in Int, ~(k - offset \in 1 .. Len(r)) PROVE E(point - k) = 0
  <2>1. CASE k \in 1..L
    <3>1. k = 1 /\ offset = 1
      BY <1>3, <1>4, <1>14, <1>15, <2>1
    <3>2. b[1] \div t = 0
      BY <1>3, <3>1
    <3>3. F(k) = 0
      BY <3>1, <3>2
    <3> QED BY <1>9, <2>1, <3>3
  <2>2. CASE k = L + 1
    <3>1. last = 0
      BY <1>3, <1>4, <1>14, <1>15, <2>2
    <3>2. ~(k \in 1..L)
      BY <1>4, <2>2
    <3> QED BY <1>9, <2>2, <3>1, <3>2
  <2> QED BY <1>9, <2>1, <2>2
<1>16. HasFraction(r, point - offset, n, u * t)
  <2> SUFFICES ASSUME NEW w \in Int PROVE E(w) = At(r, point - offset, w)
    BY DEF HasFraction, E
  <2> DEFINE k == point - w
             j == (point - offset) - w
  <2>1. k \in Int /\ point - k = w /\ j = k - offset /\ k = j + offset /\ j \in Int
    BY <1>3
  <2>2. At(r, point - offset, w) = IF j \in 1 .. Len(r) THEN r[j] ELSE 0
    BY DEF At
  <2> HIDE DEF k, j
  <2>3. CASE j \in 1 .. Len(r)
    BY <1>14, <2>1, <2>2, <2>3
  <2>4. CASE ~(j \in 1 .. Len(r))
    BY <1>15, <2>1, <2>2, <2>4
  <2> QED BY <2>3, <2>4
<1>17. b[1] # 0 => Len(r) >= 1 /\ r[1] # 0
  <2> SUFFICES ASSUME b[1] # 0 PROVE Len(r) >= 1 /\ r[1] # 0
    OBVIOUS
  <2> DEFINE x == b[1]
             c == Borrow(x, m)
  <2>0. x \in Nat \ {0} /\ 1 \in 1..L
    BY <1>4
  <2>1. CASE offset = 0
    <3>1. b[1] \div t # 0
      BY <1>3, <2>1
    <3>2. Len(r) >= 1
      BY <1>4, <1>14, <2>1
    <3>3. r[1] = E(point - 1)
      <4>1. 1 \in 1 .. Len(r) /\ 1 + offset = 1
        BY <1>4, <1>14, <2>1, <3>2
      <4>2. r[1] = E(point - (1 + offset))
        BY <1>14, <4>1
      <4> QED BY <4>1, <4>2
    <3>4. E(point - 1) = F(1)
      BY <1>9, <2>0
    <3>5. F(1) = 0 + b[1] \div t
      OBVIOUS
    <3>6. b[1] \div t \in Nat
      BY <1>2, <2>0, Division
    <3> QED BY <3>1, <3>2, <3>3, <3>4, <3>5, <3>6
  <2>2. CASE offset = 1
    <3>1. c # 0 /\ c \in Int
      <4>1. x \div t = 0
        BY <1>3, <2>2
      <4>2. c # 0
        BY <1>5, <2>0, <4>1
      <4>3. c \in Int
        <5>1. c = (x % t) * (bigit_bound \div t)
          BY <1>5, <2>0
        <5>2. x % t \in 0 .. t - 1 /\ bigit_bound \div t \in Nat
          BY <1>2, <2>0, Bound, Division
        <5> QED BY <1>2, <5>1, <5>2
      <4> QED BY <4>2, <4>3
    <3>2. CASE L = 1
      <4>1. last = c
        BY <3>2 DEF last
      <4>2. Len(r) = 1
        BY <1>14, <2>2, <3>1, <3>2, <4>1
      <4>3. r[1] = E(point - 2)
        <5>1. 1 \in 1 .. Len(r) /\ 1 + offset = 2
          BY <2>2, <4>2
        <5>2. r[1] = E(point - (1 + offset))
          BY <1>14, <5>1
        <5> QED BY <5>1, <5>2
      <4>4. E(point - 2) = last
        <5>1. 2 = L + 1 /\ ~(2 \in 1..L)
          BY <3>2
        <5> QED BY <1>9, <5>1
      <4> QED BY <3>1, <4>1, <4>2, <4>3, <4>4
    <3>3. CASE L > 1
      <4>1. Len(r) >= 1 /\ 1 \in 1 .. Len(r) /\ 1 + offset = 2 /\ 2 \in 1..L
        BY <1>4, <1>14, <2>2, <3>3
      <4>2. r[1] = E(point - (1 + offset))
        BY <1>14, <4>1
      <4>3. E(point - 2) = F(2)
        BY <1>9, <4>1
      <4>4. F(2) = Borrow(b[2 - 1], m) + b[2] \div t
        OBVIOUS
      <4>5. 2 - 1 = 1
        OBVIOUS
      <4>6. b[2] \div t \in Nat
        BY <1>2, <1>4, <4>1, Division
      <4>7. r[1] = c + b[2] \div t
        BY <4>1, <4>2, <4>3, <4>4, <4>5
      <4>8. c \in Nat
        <5>1. c = (x % t) * (bigit_bound \div t)
          BY <1>5, <2>0
        <5>2. x % t \in 0 .. t - 1 /\ bigit_bound \div t \in Nat
          BY <1>2, <2>0, Bound, Division
        <5> QED BY <1>2, <5>1, <5>2
      <4> DEFINE y == b[2] \div t
      <4>9. c # 0 /\ c \in Nat /\ y \in Nat /\ r[1] = c + y
        BY <3>1, <4>6, <4>7, <4>8
      <4> HIDE DEF c, y
      <4>10. r[1] # 0
        BY <4>9
      <4> QED BY <4>1, <4>10
    <3>4. L = 1 \/ L > 1
      <4> HIDE DEF L
      <4> QED BY <1>4
    <3> QED BY <3>2, <3>3, <3>4, Zenon
  <2> QED BY <1>3, <2>1, <2>2
<1>18. Len(r) >= 1
  <2>1. CASE b[1] # 0
    BY <1>17, <2>1
  <2>2. CASE b[1] = 0
    BY <1>3, <1>4, <1>14, <2>2
  <2> QED BY <2>1, <2>2
<1>19. Exhausted(r, point - offset, n, u * t)
  <2> DEFINE k == L - point
             j == Len(r) - (point - offset)
             f == Remainders(n, u)
             g == Remainders(n, u * t)
  <2>1. k \in Nat /\ f[k] = 0 /\ j = k + (IF last # 0 THEN 1 ELSE 0) /\ j \in Nat
    BY <1>3, <1>4, <1>14 DEF Exhausted
  <2>2. \A w \in Nat : g[w] = u * (Long(n, u, 0 - w) % t) + f[w]
    BY <1>2, RemaindersDivided
  <2>3. \A w \in Nat : f[w + 1] = (f[w] * bigit_bound) % u
    BY RemaindersAre
  <2> HIDE DEF f, g
  <2>4. CASE last = 0
    <3> DEFINE x == b[L]
               y == x % t
               c == bigit_bound \div t
    <3>1. Long(n, u, 0 - k) = x
      <4>1. 0 - k \in Int /\ point - (0 - k) = L /\ L \in 1..L
        BY <1>4, <2>1
      <4> QED BY <4>1 DEF HasFraction, At
    <3>2. x \in Nat /\ c \in Nat \ {0} /\ y * c = 0
      <4>1. c \in Nat \ {0}
        BY <1>2, Bound, ExactQuotient
      <4>2. x \in Nat /\ Borrow(x, m) = y * c
        BY <1>4, <1>5
      <4> QED BY <2>4, <4>1, <4>2 DEF last
    <3> HIDE DEF c, x
    <3>3. y \in 0 .. t - 1
      BY <1>2, <3>2, Division
    <3> HIDE DEF y
    <3>4. y = 0
      BY <1>2, <3>2, <3>3
    <3>5. g[k] = u * y + f[k]
      BY <2>1, <2>2, <3>1 DEF y
    <3>6. g[k] = 0
      BY <2>1, <3>4, <3>5
    <3> QED BY <2>1, <2>4, <3>6 DEF Exhausted, g
  <2>5. CASE last # 0
    <3>1. f[k + 1] = 0
      <4>1. 0 * bigit_bound = 0 /\ 0 % u = 0
        BY Bound
      <4> QED BY <2>1, <2>3, <4>1
    <3>2. Long(n, u, 0 - (k + 1)) = 0
      <4>1. 0 - (k + 1) \in Int /\ point - (0 - (k + 1)) = L + 1 /\ ~(L + 1 \in 1..L)
        BY <1>4, <2>1
      <4> QED BY <4>1 DEF HasFraction, At
    <3>3. 0 % t = 0 /\ u * 0 = 0
      BY <1>2
    <3>4. g[k + 1] = 0
      <4>1. k + 1 \in Nat
        BY <2>1
      <4>2. g[k + 1] = u * (0 % t) + 0
        BY <2>2, <3>1, <3>2, <4>1
      <4> QED BY <3>3, <4>2
    <3> QED BY <2>1, <2>5, <3>4 DEF Exhausted, g
  <2> QED BY <2>4, <2>5
<1> QED BY <1>14, <1>16, <1>17, <1>18, <1>19, Zenon DEF ShiftedRight, r, offset, t

-----------------------------------------------------------------------------
(* frexp's significand: its leading bit is set unless it is zero.          *)
LEMMA SignificandIs ==
  ASSUME NEW d \in Arguments
  PROVE  /\ d \in Double
         /\ Significand(d) \in 0 .. 2^num_bits - 1
         /\ Exponent(d) \in Int
         /\ IsZero(d) <=> Significand(d) = 0
         /\ ~IsZero(d) => \E s \in 0..num_sig_bits : /\ Significand(d) = BinSig(d) * 2^s
                                                     /\ Exponent(d) = BinExp(d) - s
         /\ ~IsZero(d) => implicit_bit <= Significand(d)
<1> DEFINE b == BinSig(d)
           I == implicit_bit
           M == num_sig_bits
           Good(s) == b * 2^s \in I .. 2 * I - 1
<1>1. M \in Nat \ {0} /\ exp_mask \in Nat \ {0} /\ d \in Double /\ num_bits = M + 1
  BY FormatAssumption DEF num_bits
<1>2. PowersUpTo(2, M + 1)
  BY <1>1, PowersOfTwo
<1>3. \A n \in 0 .. M + 1 : 2^n \in Nat \ {0}
  BY <1>1, <1>2, PowerPositive
<1>4. \A n \in 0..M : 2^(n + 1) = 2 * 2^n
  BY <1>1, <1>2 DEF PowersUpTo
<1>5. I \in Nat \ {0} /\ 2^(M + 1) = 2 * I /\ 2^0 = 1
  BY <1>1, <1>2, <1>3, <1>4 DEF implicit_bit, PowersUpTo
<1>6. d.exp \in Nat /\ d.sig \in 0 .. I - 1 /\ d.exp \in 0..exp_mask
  BY <1>1 DEF Double
<1>7. b \in 0 .. 2 * I - 1 /\ (IsZero(d) <=> b = 0)
  BY <1>5, <1>6 DEF BinSig, IsZero
<1>8. BinExp(d) \in Int
  <2>1. exp_mask \div 2 \in Nat
    BY <1>1
  <2> QED BY <1>1, <1>6, <2>1 DEF BinExp, exp_offset
<1> HIDE DEF b, I, M
<1>9. CASE IsZero(d)
  <2>1. Normalization(d) = 0 /\ Exponent(d) = -num_bits
    BY <1>9 DEF Normalization, Exponent
  <2>2. Significand(d) = 0
    BY <1>5, <1>7, <1>9, <2>1 DEF Significand, b
  <2> QED BY <1>1, <1>3, <1>5, <1>9, <2>1, <2>2
<1>10. CASE ~IsZero(d)
  <2> DEFINE T == {s \in 0..M : b * 2^s <= 2 * I - 1}
  <2>1. 0 \in T
    BY <1>1, <1>5, <1>7
  <2>2. PICK s \in T : \A y \in T : y <= s
    <3>1. M \in Nat /\ T \subseteq 0..M /\ T # {}
      BY <1>1, <2>1
    <3> HIDE DEF T
    <3> QED BY <3>1, GreatestNatural
  <2> DEFINE p == 2^s
             z == b * p
  <2>3. s \in 0..M /\ z <= 2 * I - 1 /\ p \in Nat \ {0}
    BY <1>1, <1>3, <2>2
  <2>4. z \in Nat
    BY <1>5, <1>7, <2>3
  <2>5. I <= z
    <3>1. CASE s = M
      <4>1. p = I
        BY <3>1 DEF I, M, implicit_bit
      <4>2. b \in Nat \ {0}
        BY <1>7, <1>10
      <4> QED BY <1>5, <4>1, <4>2
    <3>2. CASE s # M
      <4>1. s + 1 \in 0..M /\ s + 1 \notin T
        BY <1>1, <2>2, <2>3, <3>2
      <4>2. ~(b * 2^(s + 1) <= 2 * I - 1)
        BY <4>1
      <4>3. 2^(s + 1) = 2 * p
        BY <1>4, <2>3
      <4>4. b * (2 * p) = 2 * z
        BY <1>7, <2>3
      <4>5. ~(2 * z <= 2 * I - 1)
        BY <4>2, <4>3, <4>4
      <4> HIDE DEF z
      <4> QED BY <1>5, <2>4, <4>5
    <3> QED BY <3>1, <3>2
  <2>6. s \in 0..M /\ Good(s)
    BY <1>5, <2>3, <2>4, <2>5
  <2> DEFINE n == Normalization(d)
  <2>7. n = CHOOSE x \in 0..M : Good(x)
    BY <1>10 DEF Normalization, b, I, M
  <2>8. n \in 0..M /\ Good(n)
    BY <2>6, <2>7
  <2>9. Significand(d) = b * 2^n /\ Exponent(d) = BinExp(d) - n
    BY <1>10 DEF Significand, Exponent, b
  <2> HIDE DEF n
  <2> QED BY <1>1, <1>5, <1>8, <1>10, <2>8, <2>9 DEF b, I, M
<1> QED BY <1>9, <1>10

(* The digits of a whole number are a fraction with nothing behind the     *)
(* point.                                                                  *)
LEMMA NoFraction ==
  ASSUME NEW n \in Nat
  PROVE  /\ n \div 1 = n
         /\ \A w \in Nat : Long(n, 1, w) = Quotients(n)[w] % bigit_bound
         /\ \A j \in Nat : Remainders(n, 1)[j] = 0
         /\ \A w \in Int : w < 0 => Long(n, 1, w) = 0
<1>1. n \div 1 = n
  OBVIOUS
<1>2. \A j \in Nat : Remainders(n, 1)[j] = 0
  <2>1. Remainders(n, 1) \in [Nat -> 0 .. 1 - 1]
    BY RemaindersAre
  <2> QED BY <2>1
<1>3. ASSUME NEW w \in Int, w < 0 PROVE Long(n, 1, w) = 0
  <2>1. -w - 1 \in Nat
    BY <1>3
  <2>2. Long(n, 1, w) = (0 * bigit_bound) \div 1
    BY <1>2, <1>3, <2>1 DEF Long
  <2> QED BY <2>2, Bound
<1> QED BY <1>1, <1>2, <1>3 DEF Long

LEMMA WholeIsFraction ==
  ASSUME NEW b \in Bigits, NEW n \in Nat
  PROVE  /\ HasDigits(b, n) <=> HasFraction(b, Len(b), n, 1)
         /\ Exhausted(b, Len(b), n, 1)
<1>1. Len(b) \in Nat
  BY BigitsAre
<1>2. \A w \in Int : w < 0 => At(b, Len(b), w) = 0
  BY <1>1 DEF At
<1>3. HasDigits(b, n) <=> HasFraction(b, Len(b), n, 1)
  BY <1>2, NoFraction DEF HasDigits, HasFraction
<1>4. Exhausted(b, Len(b), n, 1)
  BY <1>1, NoFraction DEF Exhausted
<1> QED BY <1>3, <1>4

LEMMA QuotientsEnd ==
  ASSUME NEW n \in Nat, NEW k \in Nat, Quotients(n)[k] = 0
  PROVE  \A j \in Nat : Quotients(n)[k + j] = 0
<1> DEFINE f == Quotients(n)
           S == {j \in Nat : f[k + j] = 0}
<1>1. \A j \in Nat : f[j + 1] = f[j] \div bigit_bound
  BY QuotientsAre
<1> HIDE DEF f
<1>2. 0 \in S
  BY DEF f
<1>3. ASSUME NEW j \in Nat, j \in S PROVE j + 1 \in S
  <2>1. k + (j + 1) = (k + j) + 1 /\ k + j \in Nat
    OBVIOUS
  <2>2. 0 \div bigit_bound = 0
    BY Bound
  <2> QED BY <1>1, <1>3, <2>1, <2>2
<1> HIDE DEF S
<1>4. \A j \in Nat : j \in S
  BY <1>2, <1>3, SetInduction
<1> QED BY <1>4 DEF S, f

(* The bigits the program starts with.                                     *)
FirstBigits(n) ==
  IF n \div bigit_bound # 0 THEN <<n \div bigit_bound, n % bigit_bound>>
  ELSE <<n % bigit_bound>>

LEMMA FirstBigitsAre ==
  ASSUME NEW n \in 0 .. bigit_bound * bigit_bound - 1
  PROVE  /\ FirstBigits(n) \in Bigits /\ Len(FirstBigits(n)) >= 1
         /\ HasDigits(FirstBigits(n), n)
         /\ n # 0 => FirstBigits(n)[1] # 0
<1> DEFINE B == bigit_bound
           f == Quotients(n)
           h == n \div B
           l == n % B
           b == FirstBigits(n)
<1>1. B \in Nat \ {0} /\ n \in 0 .. B * B - 1
  BY Bound
<1> DEFINE BB == B * B
<1>2. n \in Nat
  <2>1. BB \in Nat
    BY <1>1
  <2> QED BY <1>1, <2>1
<1>3. /\ f[0] = n /\ f[1] = h
      /\ \A j \in Nat : f[j] \in Nat /\ f[j + 1] = f[j] \div B
  <2>1. /\ f[0] = n /\ \A j \in Nat : f[j] \in Nat /\ f[j + 1] = f[j] \div B
    BY <1>2, QuotientsAre
  <2>2. 0 + 1 = 1
    OBVIOUS
  <2> QED BY <2>1, <2>2
<1>4. b = IF h # 0 THEN <<h, l>> ELSE <<l>>
  BY DEF FirstBigits
<1> HIDE DEF B, f, b
<1>5. h \in Nat /\ l \in 0 .. B - 1 /\ n = B * h + l
  BY <1>1, <1>2, Division
<1>6. h \in 0 .. B - 1
  <2>1. CASE h >= B
    <3>1. B * B <= B * h
      BY <1>1, <1>5, <2>1
    <3> QED BY <1>1, <1>5, <3>1
  <2> QED BY <1>1, <1>5, <2>1
<1>7. h % B = h /\ h \div B = 0
  <2>1. (B * 0 + h) \div B = 0 /\ (B * 0 + h) % B = h
    BY <1>1, <1>6, DivisionUnique
  <2>2. B * 0 + h = h
    BY <1>1, <1>5
  <2> QED BY <2>1, <2>2
<1>8. \A j \in Nat : j >= 2 => f[j] = 0
  <2>1. f[2] = 0
    <3>1. f[1 + 1] = f[1] \div B
      BY <1>3
    <3>2. 1 + 1 = 2
      OBVIOUS
    <3> QED BY <1>3, <1>7, <3>1, <3>2
  <2>2. \A j \in Nat : f[2 + j] = 0
    BY <1>2, <2>1, QuotientsEnd DEF f
  <2> SUFFICES ASSUME NEW j \in Nat, j >= 2 PROVE f[j] = 0
    OBVIOUS
  <2>3. j - 2 \in Nat /\ 2 + (j - 2) = j
    OBVIOUS
  <2> QED BY <2>2, <2>3
<1>9. \A j \in Nat : f[j] % B = IF j = 0 THEN l ELSE IF j = 1 THEN h ELSE 0
  <2>1. 0 % B = 0
    BY <1>1
  <2> SUFFICES ASSUME NEW j \in Nat
               PROVE  f[j] % B = IF j = 0 THEN l ELSE IF j = 1 THEN h ELSE 0
    OBVIOUS
  <2>2. CASE j = 0
    BY <1>3, <2>2
  <2>3. CASE j = 1
    BY <1>3, <1>7, <2>3
  <2>4. CASE j >= 2
    BY <1>8, <2>1, <2>4
  <2> QED BY <2>2, <2>3, <2>4
<1> HIDE DEF h, l
<1>10. CASE h = 0
  <2>1. b = <<l>>
    BY <1>4, <1>10
  <2>2. b \in Bigits /\ Len(b) = 1 /\ b[1] = l
    BY <1>5, <2>1 DEF Bigits, B
  <2>3. ASSUME NEW w \in Nat PROVE f[w] % B = At(b, Len(b), w)
    <3>1. At(b, Len(b), w) = IF w = 0 THEN l ELSE 0
      BY <2>2 DEF At
    <3> QED BY <1>9, <1>10, <3>1
  <2>4. n # 0 => l # 0
    BY <1>1, <1>5, <1>10
  <2> QED BY <2>2, <2>3, <2>4 DEF HasDigits, b, f, B
<1>11. CASE h # 0
  <2>1. b = <<h, l>>
    BY <1>4, <1>11
  <2>2. b \in Bigits /\ Len(b) = 2 /\ b[1] = h /\ b[2] = l
    BY <1>5, <1>6, <2>1 DEF Bigits, B
  <2>3. ASSUME NEW w \in Nat PROVE f[w] % B = At(b, Len(b), w)
    <3>1. At(b, Len(b), w) = IF w = 0 THEN l ELSE IF w = 1 THEN h ELSE 0
      BY <2>2 DEF At
    <3> QED BY <1>9, <3>1
  <2> QED BY <1>11, <2>2, <2>3 DEF HasDigits, b, f, B
<1> QED BY <1>10, <1>11

-----------------------------------------------------------------------------
(* How far the loops shift at a time.                                      *)
LEMMA LeftBits ==
  ASSUME NEW m \in 0..left_bits
  PROVE  2^m \in Nat \ {0} /\ 2^m <= bigit_bound
<1>1. left_bits \in Nat /\ PowersUpTo(2, left_bits) /\ 2^left_bits <= bigit_bound
  BY BigitAssumption, PowersOfTwo
<1>2. \A n \in 0..left_bits : 2^n \in Nat \ {0}
  BY <1>1, PowerPositive
<1>3. \A n \in 0..left_bits : m < n => 2^m < 2^n
  BY <1>1, PowerOrder
<1> DEFINE x == 2^m
           y == 2^left_bits
<1>4. x \in Nat \ {0} /\ y \in Nat /\ y <= bigit_bound
  BY <1>1, <1>2
<1>5. x <= y
  <2>1. CASE m = left_bits
    BY <1>4, <2>1
  <2>2. CASE m < left_bits
    <3>1. x < y
      BY <1>1, <1>3, <2>2
    <3> HIDE DEF x, y
    <3> QED BY <1>4, <3>1
  <2> QED BY <1>1, <2>1, <2>2
<1> HIDE DEF x, y
<1>6. x <= bigit_bound
  BY <1>4, <1>5, Bound
<1> QED BY <1>4, <1>6 DEF x

LEMMA RightBits ==
  ASSUME NEW m \in 0..right_bits
  PROVE  2^m \in Nat \ {0} /\ bigit_bound % 2^m = 0
<1>1. right_bits \in Nat /\ PowersUpTo(2, right_bits) /\ bigit_bound % 2^right_bits = 0
  BY BigitAssumption, PowersOfTwo DEF right_bits
<1>2. \A n \in 0..right_bits : 2^n \in Nat \ {0}
  BY <1>1, PowerPositive
<1>3. right_bits - m \in 0..right_bits /\ m + (right_bits - m) = right_bits
  BY <1>1
<1>4. 2^right_bits = 2^m * 2^(right_bits - m)
  <2>1. \A k, n \in 0..right_bits : k + n <= right_bits => 2^(k + n) = 2^k * 2^n
    BY <1>1, PowerSum
  <2> QED BY <1>1, <1>3, <2>1
<1> DEFINE x == 2^m
           y == 2^(right_bits - m)
           z == 2^right_bits
           B == bigit_bound
           c == B \div z
<1>5. x \in Nat \ {0} /\ y \in Nat \ {0} /\ z = x * y /\ z \in Nat \ {0}
      /\ B \in Nat \ {0} /\ B % z = 0
  BY <1>1, <1>2, <1>3, <1>4, Bound
<1> HIDE DEF x, y, z, B
<1>6. c \in Nat /\ B = z * c
  BY <1>5, ExactQuotient
<1> HIDE DEF c
<1> DEFINE d == y * c
<1>7. d \in Nat /\ B = x * d
  <2>1. (x * y) * c = x * (y * c)
    BY <1>5, <1>6
  <2> QED BY <1>5, <1>6, <2>1
<1> HIDE DEF d
<1>8. B = x * d + 0 /\ 0 \in 0 .. x - 1
  BY <1>5, <1>7
<1>9. (x * d + 0) % x = 0
  BY <1>5, <1>7, <1>8, DivisionUnique
<1>10. B % x = 0
  BY <1>8, <1>9, Zenon
<1> QED BY <1>5, <1>10 DEF x, B

LEMMA Doubling ==
  ASSUME NEW d \in Arguments, NEW j \in Nat, NEW m \in Nat, j + m <= Magnitude(Exponent(d))
  PROVE  2^(j + m) = 2^j * 2^m /\ 2^j \in Nat \ {0} /\ 2^m \in Nat \ {0}
<1> DEFINE M == Magnitude(Exponent(d))
<1>1. M \in Nat
  BY SignificandIs DEF Magnitude
<1>2. PowersUpTo(2, M)
  BY PowersOfTwo
<1>3. j + m <= M
  OBVIOUS
<1> HIDE DEF M
<1>4. \A k, n \in 0..M : k + n <= M => 2^(k + n) = 2^k * 2^n
  BY <1>1, <1>2, PowerSum
<1>5. \A n \in 0..M : 2^n \in Nat \ {0}
  BY <1>1, <1>2, PowerPositive
<1> QED BY <1>1, <1>3, <1>4, <1>5

-----------------------------------------------------------------------------
(* The bigits are those of Whole / Unit: what is shifted so far.           *)
Whole == IF exp >= 0 THEN v * 2^i ELSE v
Unit  == IF exp >= 0 THEN 1 ELSE 2^(0 - i)

Argument ==
  /\ value \in Arguments /\ v = Significand(value) /\ exp = Exponent(value)
  /\ i \in IF exp >= 0 THEN 0..exp ELSE exp..0
  /\ pc # "shift" => i = exp

(* The first bigit may be zero only when the bigits grew to the left.      *)
LeadingBigit ==
  v # 0 => Leading(bigits) /\ (exp < 0 => bigits[1] # 0)

ShiftInv ==
  /\ Argument
  /\ bigits \in Bigits /\ Len(bigits) >= 1
  /\ fraction_start \in Int /\ (exp >= 0 => fraction_start = Len(bigits))
  /\ HasFraction(bigits, fraction_start, Whole, Unit)
  /\ Exhausted(bigits, fraction_start, Whole, Unit)
  /\ LeadingBigit

IdleInv ==
  /\ value = NoValue /\ v = 0 /\ exp = 0 /\ i = 0
  /\ bigits = <<>> /\ fraction_start = 0

Inv ==
  /\ pc \in {"idle", "shift", "first", "blocks", "write", "done"}
  /\ IF pc = "idle" THEN IdleInv ELSE ShiftInv
  /\ buf \in Seq(0..9) /\ bigit_index \in Nat \ {0}

LEMMA WholeAndUnit ==
  ASSUME Argument
  PROVE  /\ v \in 0 .. 2^num_bits - 1 /\ v \in Nat /\ exp \in Int /\ i \in Int
         /\ Whole \in Nat /\ Unit \in Nat \ {0}
         /\ \A w \in Int : Coefficient(v, i, w) = Long(Whole, Unit, w)
<1>1. v \in 0 .. 2^num_bits - 1 /\ exp \in Int
  BY SignificandIs DEF Argument
<1>2. v \in Nat /\ i \in Int /\ exp \in Int
  <2> DEFINE p == 2^num_bits
  <2>1. v \in 0 .. p - 1
    BY <1>1
  <2> HIDE DEF p
  <2>2. exp \in Int
    BY <1>1
  <2> QED BY <2>1, <2>2 DEF Argument
<1>3. CASE exp >= 0
  <2>1. i \in Nat /\ i + 0 <= Magnitude(Exponent(value))
    BY <1>1, <1>3 DEF Argument, Magnitude
  <2>2. 2^i \in Nat \ {0}
    BY <2>1, Doubling DEF Argument
  <2> DEFINE n == v * 2^i
  <2>3. n \in Nat /\ Whole = n /\ Unit = 1
    BY <1>2, <1>3, <2>2 DEF Whole, Unit
  <2>4. ASSUME NEW w \in Int PROVE Coefficient(v, i, w) = Long(n, 1, w)
    <3>1. CASE w >= 0
      <4>1. Coefficient(v, i, w) = Quotients(n)[w] % bigit_bound
        BY <2>1, <3>1 DEF Coefficient
      <4> HIDE DEF n
      <4> QED BY <2>3, <3>1, <4>1, NoFraction
    <3>2. CASE w < 0
      <4>1. Coefficient(v, i, w) = (Remainders(v, 1)[-w - 1] * bigit_bound) \div 1
        BY <2>1, <3>2 DEF Coefficient
      <4>2. -w - 1 \in Nat
        BY <3>2
      <4>3. Coefficient(v, i, w) = (0 * bigit_bound) \div 1
        BY <1>2, <4>1, <4>2, NoFraction
      <4>4. Long(n, 1, w) = 0
        BY <2>3, <3>2, NoFraction
      <4> QED BY <4>3, <4>4, Bound
    <3> QED BY <3>1, <3>2
  <2> HIDE DEF n
  <2> QED BY <1>1, <1>2, <2>3, <2>4
<1>4. CASE exp < 0
  <2> DEFINE j == 0 - i
             u == 2^j
  <2>1. j \in Nat /\ j + 0 <= Magnitude(Exponent(value))
    BY <1>1, <1>4 DEF Argument, Magnitude
  <2>2. u \in Nat \ {0}
    BY <2>1, Doubling DEF Argument
  <2>3. Whole = v /\ Unit = u
    <3>1. ~(exp >= 0)
      BY <1>2, <1>4
    <3> QED BY <3>1, Zenon DEF Whole, Unit
  <2>4. ASSUME NEW w \in Int PROVE Coefficient(v, i, w) = Long(v, u, w)
    <3>1. CASE i < 0
      <4>1. ~(i >= 0) /\ -i = j
        BY <1>2, <3>1
      <4> QED BY <4>1 DEF Coefficient, Long
    <3>2. CASE i = 0
      <4>1. 2^0 = 1 /\ j = 0 /\ u = 1
        BY <3>2, PowersAssumption
      <4>2. v * 1 = v /\ v \div 1 = v
        BY <1>2
      <4> QED BY <3>2, <4>1, <4>2 DEF Coefficient, Long
    <3> QED BY <1>1, <1>2, <1>4, <3>1, <3>2 DEF Argument
  <2> HIDE DEF u
  <2> QED BY <1>1, <1>2, <2>2, <2>3, <2>4
<1>5. exp >= 0 \/ exp < 0
  BY <1>2
<1> QED BY <1>3, <1>4, <1>5, Zenon

-----------------------------------------------------------------------------
LEMMA CallShifts ==
  ASSUME Call
  PROVE  ShiftInv' /\ pc' = "shift" /\ buf' = buf
<1>1. /\ pc' = "shift" /\ value' \in Arguments
      /\ v' = Significand(value') /\ exp' = Exponent(value') /\ i' = 0
      /\ bigits' = FirstBigits(v') /\ fraction_start' = Len(bigits')
      /\ buf' = buf
  BY DEF Call, FirstBigits, output
<1>2. Argument'
  <2>1. exp' \in Int
    BY <1>1, SignificandIs
  <2> QED BY <1>1, <2>1 DEF Argument
<1>3. v' \in 0 .. 2^num_bits - 1 /\ exp' \in Int
  BY <1>1, SignificandIs
<1>4. v' \in 0 .. bigit_bound * bigit_bound - 1
  <2> DEFINE p == 2^num_bits
             B == bigit_bound
  <2>1. v' \in 0 .. p - 1 /\ p <= B * B /\ B \in Nat
    BY <1>3, BigitAssumption, Bound
  <2>2. p \in Nat
    <3>1. num_bits \in Nat
      BY FormatAssumption DEF num_bits
    <3> QED BY <3>1, PowersOfTwo, PowerPositive
  <2> HIDE DEF p, B
  <2>3. B * B \in Nat
    BY <2>1
  <2>4. v' \in 0 .. B * B - 1
    BY <2>1, <2>2, <2>3
  <2> QED BY <2>4 DEF B
<1>5. /\ bigits' \in Bigits /\ Len(bigits') >= 1
      /\ HasDigits(bigits', v')
      /\ v' # 0 => bigits'[1] # 0
  BY <1>1, <1>4, FirstBigitsAre
<1>6. HasFraction(bigits', Len(bigits'), v', 1) /\ Exhausted(bigits', Len(bigits'), v', 1)
  BY <1>3, <1>5, WholeIsFraction
<1>7. Whole' = v' /\ Unit' = 1
  <2>1. 2^0 = 1
    BY PowersAssumption
  <2>2. v' * 1 = v'
    <3> DEFINE p == 2^num_bits
               x == v'
    <3>1. x \in 0 .. p - 1
      BY <1>3
    <3> HIDE DEF p, x
    <3>2. x * 1 = x
      BY <3>1
    <3> QED BY <3>2 DEF x
  <2>3. 0 - 0 = 0
    OBVIOUS
  <2> QED BY <1>1, <2>1, <2>2, <2>3 DEF Whole, Unit
<1>8. Len(bigits') \in Nat
  BY <1>5, BigitsAre
<1>9. HasFraction(bigits, fraction_start, Whole, Unit)'
  BY <1>1, <1>6, <1>7
<1>10. Exhausted(bigits, fraction_start, Whole, Unit)'
  BY <1>1, <1>6, <1>7
<1>11. LeadingBigit'
  BY <1>5 DEF LeadingBigit, Leading
<1> QED BY <1>1, <1>2, <1>5, <1>8, <1>9, <1>10, <1>11 DEF ShiftInv

(* A shift of the bigits to the left by m is one of the number.            *)
LEMMA LeftStep ==
  ASSUME ShiftInv, exp >= 0,
         NEW m \in 0..left_bits, i + m <= exp, i' = i + m,
         bigits' = ShiftLeft(bigits, m), fraction_start' = Len(bigits'),
         pc' # "shift" => i + m = exp,
         UNCHANGED <<value, v, exp>>
  PROVE  ShiftInv'
<1>1. /\ v \in Nat /\ exp \in Int /\ i \in Int /\ i \in 0..exp /\ m \in Nat
      /\ fraction_start = Len(bigits)
      /\ value \in Arguments /\ v = Significand(value) /\ exp = Exponent(value)
      /\ bigits \in Bigits /\ Len(bigits) >= 1
      /\ HasFraction(bigits, fraction_start, Whole, Unit)
      /\ v # 0 => Leading(bigits)
  BY WholeAndUnit, BigitAssumption DEF ShiftInv, Argument, LeadingBigit
<1> DEFINE t == 2^m
           n == v * 2^i
<1>2. Argument'
  BY <1>1 DEF Argument
<1>3. 2^(i + m) = 2^i * t /\ 2^i \in Nat \ {0} /\ t \in Nat \ {0}
  <2>1. i \in Nat /\ i + m <= Magnitude(Exponent(value))
    BY <1>1 DEF Magnitude
  <2> QED BY <1>1, <2>1, Doubling
<1>4. t <= bigit_bound
  BY LeftBits
<1>5. n \in Nat /\ Whole = n /\ Unit = 1
  BY <1>1, <1>3 DEF Whole, Unit
<1>6. Whole' = n * t /\ Unit' = 1 /\ n * t \in Nat
  <2>1. v * (2^i * t) = n * t
    BY <1>1, <1>3
  <2>2. n * t \in Nat
    BY <1>3, <1>5
  <2>3. exp' >= 0 /\ v' = v /\ i' = i + m
    OBVIOUS
  <2>4. Whole' = v * 2^(i + m) /\ Unit' = 1
    BY <2>3, Zenon DEF Whole, Unit
  <2> QED BY <1>3, <2>1, <2>2, <2>4, Zenon
<1> HIDE DEF n
<1>7. HasDigits(bigits, n)
  BY <1>1, <1>5, WholeIsFraction
<1>8. ShiftedLeft(bigits, bigits', n, t)
  BY <1>1, <1>3, <1>4, <1>5, <1>7, ShiftLeftIs
<1>9. /\ bigits' \in Bigits /\ Len(bigits') >= 1 /\ Len(bigits') \in Nat
      /\ HasDigits(bigits', n * t) /\ (Leading(bigits) => Leading(bigits'))
  <2>1. bigits' \in Bigits /\ Len(bigits') >= Len(bigits)
    BY <1>8 DEF ShiftedLeft
  <2>2. Len(bigits') \in Nat /\ Len(bigits) \in Nat
    BY <1>1, <2>1, BigitsAre
  <2> QED BY <1>1, <1>8, <2>1, <2>2 DEF ShiftedLeft
<1>10. /\ HasFraction(bigits', Len(bigits'), n * t, 1)
       /\ Exhausted(bigits', Len(bigits'), n * t, 1)
  BY <1>6, <1>9, WholeIsFraction
<1>11. HasFraction(bigits, fraction_start, Whole, Unit)'
  BY <1>6, <1>10
<1>12. Exhausted(bigits, fraction_start, Whole, Unit)'
  BY <1>6, <1>10
<1>13. LeadingBigit'
  BY <1>1, <1>9 DEF LeadingBigit, Leading
<1> QED BY <1>2, <1>9, <1>11, <1>12, <1>13 DEF ShiftInv

(* The same to the right, with the point where shift_right leaves it.      *)
LEMMA RightStep ==
  ASSUME ShiftInv, exp < 0,
         NEW m \in 0..right_bits, i - m >= exp, i' = i - m,
         shift_right(m),
         pc' # "shift" => i - m = exp,
         UNCHANGED <<value, v, exp>>
  PROVE  ShiftInv'
<1>1. /\ v \in Nat /\ exp \in Int /\ i \in Int /\ i \in exp..0 /\ m \in Nat
      /\ fraction_start \in Int
      /\ value \in Arguments /\ v = Significand(value) /\ exp = Exponent(value)
      /\ bigits \in Bigits /\ Len(bigits) >= 1
      /\ HasFraction(bigits, fraction_start, Whole, Unit)
      /\ Exhausted(bigits, fraction_start, Whole, Unit)
      /\ v # 0 => bigits[1] # 0
  BY WholeAndUnit, BigitAssumption DEF ShiftInv, Argument, LeadingBigit, right_bits
<1> DEFINE t == 2^m
           j == 0 - i
           u == 2^j
           p == fraction_start - (IF Vanishes(bigits, m) THEN 1 ELSE 0)
<1>2. Argument'
  BY <1>1 DEF Argument
<1>3. 2^(j + m) = u * t /\ u \in Nat \ {0} /\ t \in Nat \ {0}
  <2>1. j \in Nat /\ j + m <= Magnitude(Exponent(value))
    BY <1>1 DEF Magnitude
  <2> QED BY <1>1, <2>1, Doubling
<1>4. bigit_bound % t = 0
  BY RightBits
<1>5. Whole = v /\ Unit = u
  BY <1>1 DEF Whole, Unit
<1>6. Whole' = v /\ Unit' = u * t
  <2>1. 0 - (i - m) = j + m
    BY <1>1
  <2>2. 2^(0 - (i - m)) = u * t
    BY <1>3, <2>1
  <2> QED BY <1>1, <2>2 DEF Whole, Unit
<1>7. bigits' = ShiftRight(bigits, m) /\ fraction_start' = p /\ p \in Int
  BY <1>1 DEF shift_right
<1>8. ShiftedRight(bigits, ShiftRight(bigits, m), fraction_start, p, v, u * t)
  <2> HIDE DEF u
  <2> QED BY <1>1, <1>3, <1>4, <1>5, ShiftRightIs
<1>9. /\ bigits' \in Bigits /\ Len(bigits') >= 1
      /\ HasFraction(bigits', p, v, u * t) /\ Exhausted(bigits', p, v, u * t)
      /\ bigits[1] # 0 => bigits'[1] # 0
  BY <1>7, <1>8 DEF ShiftedRight
<1> HIDE DEF p, u
<1>10. HasFraction(bigits, fraction_start, Whole, Unit)'
  BY <1>6, <1>7, <1>9
<1>11. Exhausted(bigits, fraction_start, Whole, Unit)'
  BY <1>6, <1>7, <1>9
<1>12. LeadingBigit'
  BY <1>1, <1>9 DEF LeadingBigit, Leading
<1> QED BY <1>1, <1>2, <1>7, <1>9, <1>10, <1>11, <1>12 DEF ShiftInv

LEMMA SameDecimal ==
  ASSUME ShiftInv, pc' # "shift" => i = exp, UNCHANGED <<value, decimal>>
  PROVE  ShiftInv'
<1>1. /\ value' = value /\ v' = v /\ exp' = exp /\ i' = i /\ bigits' = bigits
      /\ fraction_start' = fraction_start
  BY DEF decimal
<1>2. Argument'
  BY <1>1 DEF ShiftInv, Argument
<1>3. Whole' = Whole /\ Unit' = Unit
  BY <1>1 DEF Whole, Unit
<1>4. HasFraction(bigits, fraction_start, Whole, Unit)'
  BY <1>1, <1>3 DEF ShiftInv
<1>5. Exhausted(bigits, fraction_start, Whole, Unit)'
  BY <1>1, <1>3 DEF ShiftInv
<1>6. LeadingBigit'
  BY <1>1 DEF LeadingBigit, Leading, ShiftInv
<1> QED BY <1>1, <1>2, <1>4, <1>5, <1>6 DEF ShiftInv

-----------------------------------------------------------------------------
(* The digits of the text.                                                 *)
TenPowers(M) == \A k \in 0..M : 10^k \in Nat \ {0}

LEMMA TensOfBigit == TenPowers(bigit_digits + 1) /\ bigit_digits \in Nat \ {0}
<1>1. bigit_digits \in Nat \ {0} /\ 10^0 = 1
  BY BigitAssumption, PowersAssumption
<1>2. \A n \in 0..bigit_digits : 10^n \in Nat \ {0} /\ 10^(n + 1) = 10 * 10^n
  BY PowersAssumption DEF PowerAt
<1>3. ASSUME NEW k \in 0 .. bigit_digits + 1 PROVE 10^k \in Nat \ {0}
  <2>1. CASE k \in 0..bigit_digits
    BY <1>2, <2>1
  <2>2. CASE k = bigit_digits + 1
    <3> DEFINE x == 10^bigit_digits
    <3>1. x \in Nat \ {0} /\ 10^k = 10 * x
      BY <1>1, <1>2, <2>2
    <3> HIDE DEF x
    <3> QED BY <3>1
  <2> QED BY <1>1, <2>1, <2>2
<1> QED BY <1>1, <1>3 DEF TenPowers

LEMMA BlockIs ==
  ASSUME NEW x \in Nat, NEW w \in Nat, TenPowers(w)
  PROVE  /\ Block(x, w) \in Seq(0..9) /\ Len(Block(x, w)) = w
         /\ DOMAIN Block(x, w) = 1..w
         /\ \A j \in 1..w : Block(x, w)[j] = (x \div 10^(w - j)) % 10
<1> DEFINE b == Block(x, w)
<1>1. b = [j \in 1..w |-> (x \div 10^(w - j)) % 10]
  BY DEF Block
<1> HIDE DEF b
<1>2. \A j \in 1..w : b[j] = (x \div 10^(w - j)) % 10
  BY <1>1
<1>3. ASSUME NEW j \in 1..w PROVE b[j] \in 0..9
  <2> DEFINE t == 10^(w - j)
             q == x \div t
  <2>1. t \in Nat \ {0}
    <3>1. w - j \in 0..w
      OBVIOUS
    <3> QED BY <3>1 DEF TenPowers
  <2> HIDE DEF t
  <2>2. q \in Nat
    BY <2>1, Division
  <2> HIDE DEF q
  <2>3. q % 10 \in 0..9
    BY <2>2
  <2> QED BY <1>2, <2>3 DEF q, t
<1>4. b \in [1..w -> 0..9]
  BY <1>1, <1>3
<1>5. b \in Seq(0..9) /\ DOMAIN b = 1..w
  BY <1>4, SeqDef
<1>6. Len(b) \in Nat /\ DOMAIN b = 1 .. Len(b)
  BY <1>5, LenProperties
<1>7. Len(b) = w
  BY <1>5, <1>6
<1> QED BY <1>2, <1>5, <1>7 DEF b

(* The first bigit has as many digits as it needs, and one if it is zero.  *)
FirstDigits(b, x) ==
  \E w \in 1 .. bigit_digits + 1 : /\ b = Block(x, w) /\ Len(b) = w
                                   /\ x < 10^w
                                   /\ x # 0 => 10^(w - 1) <= x

LEMMA FirstBlockIs ==
  ASSUME NEW x \in 0 .. 10^(bigit_digits + 1) - 1
  PROVE  FirstBlock(x) \in Seq(0..9) /\ Len(FirstBlock(x)) >= 1 /\ FirstDigits(FirstBlock(x), x)
<1> DEFINE M == bigit_digits + 1
           Good(w) == x < 10^w /\ (w = 1 \/ x >= 10^(w - 1))
           T == {w \in 1..M : x < 10^w}
           n == CHOOSE w \in 1..M : Good(w)
<1>1. M \in Nat \ {0} /\ \A k \in 0..M : 10^k \in Nat \ {0}
  BY TensOfBigit DEF TenPowers
<1>2. 10^M \in Nat /\ x \in Nat /\ x < 10^M
  <2> DEFINE y == 10^M
  <2>1. y \in Nat /\ x \in 0 .. y - 1
    BY <1>1
  <2> HIDE DEF y
  <2>2. x \in Nat /\ x < y
    BY <2>1
  <2> QED BY <2>1, <2>2 DEF y
<1> HIDE DEF M
<1>3. PICK m \in T : \A y \in T : m <= y
  <2>1. T \subseteq Nat /\ T # {}
    BY <1>1, <1>2
  <2> HIDE DEF T
  <2> QED BY <2>1, LeastNatural
<1>4. m \in 1..M /\ Good(m)
  <2>1. CASE m = 1
    BY <1>3, <2>1
  <2>2. CASE m # 1
    <3>1. m - 1 \in 1..M /\ ~(m <= m - 1)
      BY <1>1, <1>3, <2>2
    <3>2. ~(x < 10^(m - 1))
      BY <1>3, <3>1
    <3>3. 10^(m - 1) \in Nat
      BY <1>1, <3>1
    <3>4. x >= 10^(m - 1)
      BY <1>2, <3>2, <3>3
    <3> QED BY <1>3, <3>4
  <2> QED BY <2>1, <2>2
<1>5. n \in 1..M /\ Good(n)
  BY <1>4
<1>6. FirstBlock(x) = Block(x, n)
  BY DEF FirstBlock, M
<1> HIDE DEF n
<1>7. x # 0 => 10^(n - 1) <= x
  <2>1. CASE n = 1
    <3>1. 10^(n - 1) = 1
      BY <2>1, PowersAssumption
    <3> QED BY <1>2, <3>1
  <2>2. CASE n # 1
    BY <1>5, <2>2
  <2> QED BY <2>1, <2>2
<1>8. TenPowers(n) /\ n \in Nat
  BY <1>1, <1>5 DEF TenPowers
<1>9. Block(x, n) \in Seq(0..9) /\ Len(Block(x, n)) = n
  BY <1>2, <1>8, BlockIs
<1>10. n >= 1
  BY <1>1, <1>5
<1> QED BY <1>5, <1>6, <1>7, <1>9, <1>10 DEF FirstDigits, M

LEMMA IncrementedIs ==
  ASSUME NEW s \in Seq(0..9)
  PROVE  /\ Incremented(s) \in Seq(0..9) /\ Len(Incremented(s)) = Len(s)
         /\ (\A j \in DOMAIN s : s[j] = 9) =>
              \A j \in 1 .. Len(s) : Incremented(s)[j] = IF j = 1 THEN 1 ELSE 0
         /\ ~(\A j \in DOMAIN s : s[j] = 9) =>
              \E last \in 1 .. Len(s) :
                /\ s[last] # 9 /\ \A j \in 1 .. Len(s) : j > last => s[j] = 9
                /\ \A j \in 1 .. Len(s) :
                     Incremented(s)[j] = IF j < last THEN s[j]
                                         ELSE IF j = last THEN s[j] + 1 ELSE 0
<1> DEFINE n == Len(s)
           rest == {j \in DOMAIN s : s[j] # 9}
           r == Incremented(s)
           last == CHOOSE k \in rest : \A m \in rest : m <= k
<1>1. n \in Nat /\ DOMAIN s = 1..n /\ \A j \in 1..n : s[j] \in 0..9
  BY LenProperties
<1>2. r = IF rest = {} THEN [j \in DOMAIN s |-> IF j = 1 THEN 1 ELSE 0]
          ELSE [j \in DOMAIN s |-> IF j < last THEN s[j]
                                   ELSE IF j = last THEN s[j] + 1 ELSE 0]
  BY DEF Incremented
<1> HIDE DEF r
<1>3. rest = {} <=> \A j \in DOMAIN s : s[j] = 9
  OBVIOUS
<1>4. rest # {} => /\ last \in 1..n /\ s[last] # 9
                   /\ \A j \in 1..n : j > last => s[j] = 9
  <2> SUFFICES ASSUME rest # {}
               PROVE  /\ last \in 1..n /\ s[last] # 9
                      /\ \A j \in 1..n : j > last => s[j] = 9
    OBVIOUS
  <2>1. rest \subseteq 0..n
    BY <1>1
  <2> HIDE DEF rest
  <2>2. \E k \in rest : \A m \in rest : m <= k
    BY <1>1, <2>1, GreatestNatural
  <2>3. last \in rest /\ \A m \in rest : m <= last
    BY <2>2
  <2> HIDE DEF last
  <2>4. last \in 1..n /\ s[last] # 9
    BY <1>1, <2>3 DEF rest
  <2>5. ASSUME NEW j \in 1..n, j > last PROVE s[j] = 9
    <3>1. ~(j <= last)
      BY <1>1, <2>4, <2>5
    <3>2. j \notin rest
      BY <2>3, <3>1
    <3> QED BY <1>1, <3>2 DEF rest
  <2> QED BY <2>4, <2>5
<1> HIDE DEF last, rest
<1>5. r \in [1..n -> 0..9]
  <2>1. CASE rest = {}
    <3>1. r = [j \in 1..n |-> IF j = 1 THEN 1 ELSE 0]
      BY <1>1, <1>2, <2>1
    <3> QED BY <3>1
  <2>2. CASE rest # {}
    <3>1. r = [j \in 1..n |-> IF j < last THEN s[j] ELSE IF j = last THEN s[j] + 1 ELSE 0]
      BY <1>1, <1>2, <2>2
    <3>2. s[last] \in 0..9 /\ s[last] # 9
      BY <1>1, <1>4, <2>2
    <3>3. s[last] + 1 \in 0..9
      BY <3>2
    <3> QED BY <1>1, <3>1, <3>3
  <2> QED BY <2>1, <2>2
<1>6. r \in Seq(0..9) /\ DOMAIN r = 1..n
  BY <1>1, <1>5, SeqDef
<1>7. Len(r) = n
  <2>1. Len(r) \in Nat /\ DOMAIN r = 1 .. Len(r)
    BY <1>6, LenProperties
  <2> QED BY <1>1, <1>6, <2>1
<1>8. rest = {} => \A j \in 1..n : r[j] = IF j = 1 THEN 1 ELSE 0
  BY <1>1, <1>2
<1>9. rest # {} => \A j \in 1..n : r[j] = IF j < last THEN s[j]
                                           ELSE IF j = last THEN s[j] + 1 ELSE 0
  BY <1>1, <1>2
<1> QED BY <1>3, <1>4, <1>6, <1>7, <1>8, <1>9 DEF r

-----------------------------------------------------------------------------
(* The text has digits only.                                               *)
LEMMA WriteFirstDigits ==
  ASSUME ShiftInv, WriteFirst
  PROVE  buf' \in Seq(0..9) /\ Len(buf') >= 1
<1> DEFINE first == IF bigits[1] > 0 THEN 1 ELSE 2
<1>1. IF first <= Len(bigits) THEN buf' = FirstBlock(bigits[first])
      ELSE \E x \in Garbage : buf' = FirstBlock(x)
  BY DEF WriteFirst
<1>2. bigits \in Bigits /\ Len(bigits) >= 1 /\ first \in {1, 2}
  BY DEF ShiftInv
<1> HIDE DEF first
<1> DEFINE T == 10^(bigit_digits + 1)
<1>3. \A x \in 0 .. bigit_bound - 1 : x \in 0 .. T - 1
  <2> DEFINE B == bigit_bound
  <2>1. T = 10 * B /\ B \in Nat
    <3>1. bigit_digits \in 0..bigit_digits
      BY TensOfBigit
    <3> QED BY <3>1, Bound, PowersAssumption DEF PowerAt, bigit_bound
  <2> HIDE DEF T, B
  <2>2. \A x \in 0 .. B - 1 : x \in 0 .. T - 1
    BY <2>1
  <2> QED BY <2>2 DEF B
<1>4. \A x \in 0 .. T - 1 : FirstBlock(x) \in Seq(0..9) /\ Len(FirstBlock(x)) >= 1
  BY FirstBlockIs
<1>5. CASE first <= Len(bigits)
  <2>1. first \in 1 .. Len(bigits)
    BY <1>2, <1>5, BigitsAre
  <2>2. bigits[first] \in 0 .. bigit_bound - 1
    BY <1>2, <2>1, BigitsAre
  <2> HIDE DEF T
  <2> QED BY <1>1, <1>3, <1>4, <1>5, <2>2
<1>6. CASE ~(first <= Len(bigits))
  <2>1. PICK x \in Garbage : buf' = FirstBlock(x)
    BY <1>1, <1>6
  <2>2. x \in 0 .. T - 1
    BY BigitAssumption
  <2> HIDE DEF T
  <2> QED BY <1>4, <2>1, <2>2
<1> QED BY <1>5, <1>6

LEMMA WriteBlockDigits ==
  ASSUME ShiftInv, buf \in Seq(0..9), NEW j \in 1 .. Len(bigits),
         buf' = buf \o Block(bigits[j], bigit_digits)
  PROVE  buf' \in Seq(0..9) /\ Len(buf') = Len(buf) + bigit_digits
<1>1. bigits[j] \in Nat
  BY BigitsAre DEF ShiftInv
<1>2. TenPowers(bigit_digits) /\ bigit_digits \in Nat
  <2>1. \A k \in 0..bigit_digits : k \in 0 .. bigit_digits + 1
    BY TensOfBigit
  <2> QED BY <2>1, TensOfBigit DEF TenPowers
<1> DEFINE b == Block(bigits[j], bigit_digits)
<1>3. b \in Seq(0..9) /\ Len(b) = bigit_digits
  BY <1>1, <1>2, BlockIs
<1> HIDE DEF b
<1>4. buf \o b \in Seq(0..9) /\ Len(buf \o b) = Len(buf) + Len(b)
  BY <1>3, ConcatProperties
<1> QED BY <1>3, <1>4 DEF b

LEMMA RoundDigits ==
  ASSUME buf \in Seq(0..9), Round
  PROVE  /\ SubSeq(buf, 1, precision) \in Seq(0..9)
         /\ Len(SubSeq(buf, 1, precision)) = precision
         /\ \A j \in 1..precision : SubSeq(buf, 1, precision)[j] = buf[j]
         /\ buf' \in Seq(0..9) /\ Len(buf') = precision
<1> DEFINE kept == SubSeq(buf, 1, precision)
           n == Len(buf)
<1>1. Len(buf) > precision /\ precision \in Nat \ {0}
      /\ buf' = IF RoundsUp THEN Incremented(kept) ELSE kept
  BY BigitAssumption DEF Round
<1>2. n \in Nat /\ \A j \in 1..n : buf[j] \in 0..9
  BY LenProperties
<1>3. \A j \in 1..precision : buf[j] \in 0..9
  BY <1>1, <1>2
<1>4. /\ kept \in Seq(0..9)
      /\ Len(kept) = IF 1 <= precision THEN precision - 1 + 1 ELSE 0
      /\ \A j \in 1 .. precision - 1 + 1 : kept[j] = buf[1 + j - 1]
  BY <1>1, <1>3, SubSeqProperties
<1>5. Len(kept) = precision /\ \A j \in 1..precision : kept[j] = buf[j]
  BY <1>1, <1>4
<1> HIDE DEF kept
<1>6. Incremented(kept) \in Seq(0..9) /\ Len(Incremented(kept)) = precision
  BY <1>4, <1>5, IncrementedIs
<1>7. buf' \in Seq(0..9) /\ Len(buf') = precision
  BY <1>1, <1>4, <1>5, <1>6
<1> QED BY <1>4, <1>5, <1>7 DEF kept

LEMMA WriteDigits ==
  ASSUME buf \in Seq(0..9), Write
  PROVE  /\ buf' \in Seq(0..9)
         /\ buf' = buf \/ \E z \in Nat : /\ Len(buf) + z <= precision /\ z # 0
                                         /\ buf' = buf \o [j \in 1..z |-> 0]
<1> DEFINE width == precision - (IF value.negative THEN 1 ELSE 0)
           z == width - Len(buf)
<1>1. /\ buf' = IF Len(buf) < width THEN buf \o [j \in 1..z |-> 0] ELSE buf
      /\ width \in Int /\ width <= precision /\ precision \in Nat
  BY BigitAssumption DEF Write
<1>2. Len(buf) \in Nat
  BY LenProperties
<1> HIDE DEF width
<1>3. CASE Len(buf) < width
  <2>1. z \in Nat /\ z # 0 /\ Len(buf) + z <= precision
    BY <1>1, <1>2, <1>3
  <2> HIDE DEF z
  <2> DEFINE zeros == [j \in 1..z |-> 0]
  <2>2. zeros \in Seq(0..9)
    <3>1. zeros \in [1..z -> 0..9]
      OBVIOUS
    <3> QED BY <2>1, <3>1, SeqDef
  <2>3. buf' = buf \o zeros
    BY <1>1, <1>3 DEF z
  <2> HIDE DEF zeros
  <2>4. buf \o zeros \in Seq(0..9)
    BY <2>2, ConcatProperties
  <2> QED BY <2>1, <2>3, <2>4 DEF zeros
<1>4. CASE ~(Len(buf) < width)
  BY <1>1, <1>4
<1> QED BY <1>3, <1>4

-----------------------------------------------------------------------------
LEMMA InitInv == Init => Inv
<1> SUFFICES ASSUME Init PROVE Inv
  OBVIOUS
<1>1. <<>> \in Seq(0..9)
  OBVIOUS
<1> QED BY <1>1 DEF Init, Inv, IdleInv

LEMMA NextInv ==
  ASSUME Inv, [Next]_vars
  PROVE  Inv'
<1>1. buf \in Seq(0..9) /\ bigit_index \in Nat \ {0} /\ (pc # "idle" => ShiftInv)
  BY DEF Inv
<1>2. left_bits \in Nat \ {0} /\ right_bits \in Nat \ {0}
  BY BigitAssumption DEF right_bits
<1>3. pc # "idle" => /\ exp \in Int /\ i \in Int
                     /\ i \in IF exp >= 0 THEN 0..exp ELSE exp..0
  BY <1>1, WholeAndUnit DEF ShiftInv, Argument
<1>4. CASE Call
  <2>1. ShiftInv' /\ pc' = "shift" /\ buf' = buf /\ bigit_index' = bigit_index
    BY <1>4, CallShifts DEF Call, output
  <2> QED BY <1>1, <2>1 DEF Inv
<1>5. CASE Left
  <2>1. /\ ShiftInv /\ exp >= 0 /\ i + left_bits <= exp /\ left_bits \in 0..left_bits
        /\ pc' = "shift" /\ buf' = buf /\ bigit_index' = bigit_index
        /\ i' = i + left_bits /\ bigits' = ShiftLeft(bigits, left_bits)
        /\ fraction_start' = Len(bigits') /\ UNCHANGED <<value, v, exp>>
    BY <1>1, <1>2, <1>3, <1>5 DEF Left, output
  <2>2. ShiftInv'
    BY <2>1, LeftStep
  <2> QED BY <1>1, <2>1, <2>2 DEF Inv
<1>6. CASE LeftRest
  <2> DEFINE m == exp - i
  <2>1. /\ ShiftInv /\ exp >= 0 /\ m \in 0..left_bits /\ i + m = exp /\ i + m <= exp
        /\ pc' = "first" /\ UNCHANGED <<buf, bigit_index>> /\ i' = exp
        /\ bigits' = IF i # exp THEN ShiftLeft(bigits, m) ELSE bigits
        /\ fraction_start' = Len(bigits') /\ UNCHANGED <<value, v, exp>>
    BY <1>1, <1>2, <1>3, <1>6 DEF LeftRest, output
  <2>2. ShiftInv'
    <3>1. CASE i # exp
      <4>1. i' = i + m /\ bigits' = ShiftLeft(bigits, m)
        BY <2>1, <3>1
      <4> HIDE DEF m
      <4> QED BY <2>1, <4>1, LeftStep
    <3>2. CASE i = exp
      <4>1. UNCHANGED <<value, decimal>>
        BY <2>1, <3>2 DEF decimal, ShiftInv
      <4> QED BY <2>1, <3>2, <4>1, SameDecimal
    <3> QED BY <3>1, <3>2
  <2> QED BY <1>1, <2>1, <2>2 DEF Inv
<1>7. CASE Right
  <2>1. /\ ShiftInv /\ exp < 0 /\ i - right_bits >= exp /\ right_bits \in 0..right_bits
        /\ pc' = "shift" /\ UNCHANGED <<buf, bigit_index>> /\ i' = i - right_bits
        /\ shift_right(right_bits) /\ UNCHANGED <<value, v, exp>>
    BY <1>1, <1>2, <1>3, <1>7 DEF Right, output
  <2>2. ShiftInv'
    BY <2>1, RightStep
  <2> QED BY <1>1, <2>1, <2>2 DEF Inv
<1>8. CASE RightRest
  <2> DEFINE m == i - exp
  <2>1. /\ ShiftInv /\ exp < 0 /\ m \in 0..right_bits /\ i - m = exp /\ i - m >= exp
        /\ pc' = "first" /\ UNCHANGED <<buf, bigit_index>> /\ i' = exp
        /\ IF i # exp THEN shift_right(m) ELSE UNCHANGED <<bigits, fraction_start>>
        /\ UNCHANGED <<value, v, exp>>
    BY <1>1, <1>2, <1>3, <1>8 DEF RightRest, output
  <2>2. ShiftInv'
    <3>1. CASE i # exp
      <4>1. i' = i - m /\ shift_right(m)
        BY <2>1, <3>1
      <4> HIDE DEF m
      <4> QED BY <2>1, <4>1, RightStep
    <3>2. CASE i = exp
      <4>1. UNCHANGED <<value, decimal>>
        BY <2>1, <3>2 DEF decimal
      <4> QED BY <2>1, <3>2, <4>1, SameDecimal
    <3> QED BY <3>1, <3>2
  <2> QED BY <1>1, <2>1, <2>2 DEF Inv
<1>9. ASSUME pc # "idle", pc # "shift", pc' # "idle", UNCHANGED <<value, decimal>>
      PROVE  ShiftInv'
  <2>1. ShiftInv /\ i = exp
    BY <1>1, <1>9 DEF ShiftInv, Argument
  <2> QED BY <1>9, <2>1, SameDecimal
<1>10. CASE WriteFirst
  <2>1. /\ pc = "first" /\ pc' = "blocks" /\ UNCHANGED <<value, decimal>>
        /\ bigit_index' \in Nat \ {0}
    BY <1>10 DEF WriteFirst
  <2>2. ShiftInv' /\ buf' \in Seq(0..9)
    BY <1>1, <1>9, <1>10, <2>1, WriteFirstDigits
  <2> QED BY <2>1, <2>2 DEF Inv
<1>11. CASE WriteBlock
  <2>1. /\ pc = "blocks" /\ pc' = "blocks" /\ UNCHANGED <<value, decimal>>
        /\ bigit_index <= Len(bigits)
        /\ buf' = buf \o Block(bigits[bigit_index], bigit_digits)
        /\ bigit_index' = bigit_index + 1
    BY <1>11 DEF WriteBlock
  <2>2. ShiftInv /\ ShiftInv'
    BY <1>1, <1>9, <2>1
  <2>3. bigit_index \in 1 .. Len(bigits)
    BY <1>1, <2>1, <2>2, BigitsAre DEF ShiftInv
  <2>4. buf' \in Seq(0..9)
    BY <1>1, <2>1, <2>2, <2>3, WriteBlockDigits
  <2> QED BY <1>1, <2>1, <2>2, <2>4 DEF Inv
<1>12. CASE Keep
  BY <1>1, <1>9, <1>12 DEF Keep, Inv, output
<1>13. CASE Round
  <2>1. pc = "blocks" /\ pc' = "write" /\ UNCHANGED <<value, decimal, bigit_index>>
    BY <1>13 DEF Round
  <2>2. buf' \in Seq(0..9)
    BY <1>1, <1>13, RoundDigits
  <2> QED BY <1>1, <1>9, <2>1, <2>2 DEF Inv
<1>14. CASE Write
  <2>1. pc = "write" /\ pc' = "done" /\ UNCHANGED <<value, decimal, bigit_index>>
    BY <1>14 DEF Write
  <2>2. buf' \in Seq(0..9)
    BY <1>1, <1>14, WriteDigits
  <2> QED BY <1>1, <1>9, <2>1, <2>2 DEF Inv
<1>15. CASE Return
  <2>1. <<>> \in Seq(0..9)
    OBVIOUS
  <2> QED BY <1>15, <2>1 DEF Return, Inv, IdleInv
<1>16. CASE UNCHANGED vars
  <2>1. pc' = pc /\ UNCHANGED <<value, decimal, buf, bigit_index>>
    BY <1>16 DEF vars, output
  <2>2. CASE pc = "idle"
    BY <2>1, <2>2 DEF Inv, IdleInv, decimal
  <2>3. CASE pc # "idle"
    <3>1. pc' # "shift" => i = exp
      BY <1>1, <2>1, <2>3 DEF ShiftInv, Argument
    <3> QED BY <1>1, <2>1, <2>3, <3>1, SameDecimal DEF Inv
  <2> QED BY <2>2, <2>3
<1> QED BY <1>4, <1>5, <1>6, <1>7, <1>8, <1>10, <1>11, <1>12, <1>13, <1>14, <1>15, <1>16 DEF Next

(* Inv holds in every state.                                               *)
LEMMA InvHolds == Spec => []Inv
<1>1. Inv /\ [Next]_vars => Inv'
  BY NextInv
<1> QED BY <1>1, InitInv, PTL DEF Spec

(* TypeOK: in particular every digit that is written is one, although the  *)
(* bigits come from shifts, borrows and carries, and the first one may     *)
(* come from memory that nobody wrote.                                     *)
THEOREM TypeCorrect == Spec => []TypeOK
<1>1. Inv => TypeOK
  <2> SUFFICES ASSUME Inv PROVE TypeOK
    OBVIOUS
  <2>1. CASE pc = "idle"
    <3>1. <<>> \in Seq(0 .. bigit_bound - 1)
      OBVIOUS
    <3> QED BY <2>1, <3>1 DEF Inv, IdleInv, TypeOK
  <2>2. CASE pc # "idle"
    <3>1. ShiftInv
      BY <2>2 DEF Inv
    <3>2. value \in Double /\ v \in Nat /\ exp \in Int /\ i \in Int
      BY <3>1, WholeAndUnit, FormatAssumption DEF ShiftInv, Argument
    <3> QED BY <3>1, <3>2 DEF Inv, ShiftInv, Bigits, TypeOK
  <2> QED BY <2>1, <2>2
<1> QED BY <1>1, InvHolds, PTL

(* Exact: at every iteration of the loops, and at every power of           *)
(* bigit_bound, the bigits are those of v * 2^i.                           *)
THEOREM AlwaysExact == Spec => []Exact
<1>1. Inv => Exact
  <2> SUFFICES ASSUME Inv, pc \in {"shift", "first"}, NEW w \in Weights
               PROVE  LET n == fraction_start - w
                      IN Coefficient(v, i, w) = IF n \in DOMAIN bigits THEN bigits[n] ELSE 0
    BY DEF Exact
  <2>1. ShiftInv /\ w \in Int
    BY FormatAssumption DEF Inv
  <2>2. Coefficient(v, i, w) = Long(Whole, Unit, w)
    BY <2>1, WholeAndUnit DEF ShiftInv
  <2>3. Long(Whole, Unit, w) = At(bigits, fraction_start, w)
    BY <2>1 DEF ShiftInv, HasFraction
  <2>4. DOMAIN bigits = 1 .. Len(bigits)
    BY <2>1, BigitsAre DEF ShiftInv
  <2> QED BY <2>2, <2>3, <2>4 DEF At
<1> QED BY <1>1, InvHolds, PTL

-----------------------------------------------------------------------------
(* The numbers the digits stand for.                                       *)
LEMMA TextHorner ==
  ASSUME PowersAreProducts, NEW s \in Seq(0..9)
  PROVE  /\ Len(s) \in Nat /\ DOMAIN s = 1 .. Len(s)
         /\ \A j \in 1 .. Len(s) : s[j] \in 0 .. 10 - 1 /\ s[j] \in Nat
         /\ HasHorner(s, Len(s), 10)
         /\ PowerLaw(10)
         /\ DigitsValue(s) \in Nat /\ DigitsValue(s) < 10^Len(s)
<1> DEFINE n == Len(s)
<1>1. n \in Nat /\ DOMAIN s = 1..n /\ \A j \in 1..n : s[j] \in 0..9
  BY LenProperties
<1>2. \A j \in 1..n : s[j] \in 0 .. 10 - 1 /\ s[j] \in Nat
  BY <1>1
<1>3. PowerLaw(10)
  BY TenIsTwoFive
<1>4. HasHorner(s, n, 10)
  BY <1>1, <1>2, HornerExists
<1>5. PICK g : Horner(s, n, 10, g)
  BY <1>4 DEF HasHorner
<1>6. DigitsValue(s) = g[n]
  BY <1>1, <1>5, ValueByHorner
<1>7. g[n] \in 0 .. 10^n - 1
  <2>1. n \in 0..n
    BY <1>1
  <2> HIDE DEF n
  <2> QED BY <1>1, <1>2, <1>3, <1>5, <2>1, HornerBound
<1>8. g[n] \in Nat /\ g[n] < 10^n
  <2> DEFINE t == 10^n
             x == g[n]
  <2>1. t \in Nat /\ x \in 0 .. t - 1
    BY <1>1, <1>3, <1>7 DEF PowerLaw
  <2> HIDE DEF t, x
  <2>2. x \in Nat /\ x < t
    BY <2>1
  <2> QED BY <2>2 DEF x, t
<1> QED BY <1>1, <1>2, <1>3, <1>4, <1>6, <1>8

LEMMA NextQuotient ==
  ASSUME PowersAreProducts, NEW x \in Nat, NEW a \in Nat
  PROVE  /\ x \div 10^a \in Nat
         /\ x \div 10^a = 10 * (x \div 10^(a + 1)) + ((x \div 10^a) % 10)
<1> DEFINE t == 10^a
           u == 10^(a + 1)
           q == x \div t
<1>1. t \in Nat \ {0} /\ u = 10 * t
  BY TenIsTwoFive DEF PowerLaw
<1> HIDE DEF t, u
<1>2. q \in Nat
  BY <1>1, Division
<1>3. q \div 10 = x \div (t * 10)
  BY <1>1, DivisionTwice
<1>4. t * 10 = u
  BY <1>1
<1> HIDE DEF q
<1>5. q = 10 * (q \div 10) + (q % 10)
  BY <1>2
<1>6. q \div 10 = x \div u
  BY <1>3, <1>4, Zenon
<1>7. q = 10 * (x \div u) + (q % 10)
  BY <1>5, <1>6
<1> QED BY <1>2, <1>7 DEF q, t, u

LEMMA AppendedValue ==
  ASSUME PowersAreProducts, NEW s \in Seq(0..9), NEW w \in Nat, NEW x \in Nat, x < 10^w
  PROVE  /\ s \o Block(x, w) \in Seq(0..9)
         /\ Len(s \o Block(x, w)) = Len(s) + w
         /\ DigitsValue(s \o Block(x, w)) = 10^w * DigitsValue(s) + x
<1> DEFINE n == Len(s)
           b == Block(x, w)
           r == s \o b
           q(l) == x \div 10^(w - l)
<1>1. /\ n \in Nat /\ HasHorner(s, n, 10) /\ PowerLaw(10)
      /\ 10^0 = 1 /\ \A k \in Nat : 10^k \in Nat \ {0} /\ 10^(k + 1) = 10 * 10^k
  <2>1. n \in Nat /\ HasHorner(s, n, 10) /\ PowerLaw(10)
    BY TextHorner
  <2>2. 10^0 = 1 /\ \A k \in Nat : 10^k \in Nat \ {0} /\ 10^(k + 1) = 10 * 10^k
    BY <2>1, Zenon DEF PowerLaw
  <2> QED BY <2>1, <2>2
<1>2. b \in Seq(0..9) /\ Len(b) = w /\ \A l \in 1..w : b[l] = q(l) % 10
  <2>1. TenPowers(w)
    BY <1>1 DEF TenPowers
  <2> QED BY <2>1, BlockIs
<1> HIDE DEF b
<1>3. /\ r \in Seq(0..9) /\ Len(r) = n + w
      /\ \A j \in 1 .. n + w : r[j] = IF j <= n THEN s[j] ELSE b[j - n]
  BY <1>2, ConcatProperties
<1>4. PICK g : Horner(s, n, 10, g)
  BY <1>1 DEF HasHorner
<1>5. /\ g \in [0..n -> Nat] /\ g[0] = 0
      /\ \A j \in 1..n : g[j] = 10 * g[j - 1] + s[j]
      /\ DigitsValue(s) = g[n]
  BY <1>1, <1>4, ValueByHorner DEF Horner
<1> DEFINE D == g[n]
           F(l) == 10^l * D + q(l)
           h == [j \in 0 .. n + w |-> IF j <= n THEN g[j] ELSE F(j - n)]
<1>6. D \in Nat
  BY <1>1, <1>5
<1>7. \A l \in 0..w : q(l) \in Nat /\ F(l) \in Nat
  <2> SUFFICES ASSUME NEW l \in 0..w PROVE q(l) \in Nat /\ F(l) \in Nat
    OBVIOUS
  <2>1. w - l \in Nat /\ 10^l \in Nat
    BY <1>1
  <2>2. q(l) \in Nat
    BY <2>1, NextQuotient
  <2> DEFINE y == q(l)
             p == 10^l
  <2>3. y \in Nat /\ p \in Nat
    BY <2>1, <2>2
  <2> HIDE DEF y, p, D
  <2>4. p * D + y \in Nat
    BY <1>6, <2>3
  <2> QED BY <2>2, <2>4 DEF y, p
<1>8. F(0) = D
  <2> DEFINE t == 10^w
  <2>1. x \div t = 0
    <3>1. t \in Nat \ {0} /\ x \in 0 .. t - 1
      BY <1>1
    <3> HIDE DEF t
    <3>2. t * 0 + x = x /\ (t * 0 + x) \div t = 0
      BY <3>1, DivisionUnique
    <3> QED BY <3>2
  <2>2. w - 0 = w /\ q(0) = 0
    BY <2>1
  <2> HIDE DEF D
  <2> QED BY <1>1, <1>6, <2>2
<1>9. ASSUME NEW l \in 1..w PROVE F(l) = 10 * F(l - 1) + b[l]
  <2> DEFINE p == 10^(l - 1)
             y == q(l)
             z == q(l - 1)
             d == b[l]
  <2>1. w - l \in Nat /\ w - (l - 1) = (w - l) + 1 /\ l - 1 \in Nat /\ l = (l - 1) + 1
        /\ l - 1 \in 0..w
    OBVIOUS
  <2>2. p \in Nat /\ 10^l = 10 * p
    <3>1. 10^((l - 1) + 1) = 10 * 10^(l - 1) /\ 10^(l - 1) \in Nat
      BY <1>1, <2>1
    <3> QED BY <2>1, <3>1
  <2>a. y \in Nat /\ z \in Nat
    <3> HIDE DEF q, F
    <3> QED BY <1>7, <2>1
  <2>3. y = 10 * z + d
    <3> DEFINE a == w - l
    <3>1. a \in Nat /\ w - (l - 1) = a + 1
      BY <2>1
    <3> HIDE DEF a
    <3>2. x \div 10^a = 10 * (x \div 10^(a + 1)) + ((x \div 10^a) % 10)
      BY <3>1, NextQuotient
    <3>3. y = x \div 10^a
      BY DEF a
    <3>4. z = x \div 10^(a + 1)
      BY <3>1
    <3>5. d = y % 10
      BY <1>2
    <3> HIDE DEF y, z, d
    <3>6. x \div 10^a = y /\ x \div 10^(a + 1) = z
      BY <3>3, <3>4
    <3> QED BY <3>2, <3>5, <3>6, Zenon
  <2>4. F(l) = (10 * p) * D + y /\ F(l - 1) = p * D + z
    <3>1. F(l) = 10^l * D + y
      OBVIOUS
    <3> HIDE DEF y, D
    <3> QED BY <2>2, <3>1
  <2>5. d \in Int
    BY <1>2
  <2> HIDE DEF p, y, z, d, D, F
  <2>6. (10 * p) * D + y = 10 * (p * D + z) + d
    <3> DEFINE g1 == (10 * p) * D
               g2 == p * D
    <3>1. g1 = 10 * g2 /\ g2 \in Nat
      BY <1>6, <2>2
    <3> HIDE DEF g1, g2
    <3>2. g1 + (10 * z + d) = 10 * (g2 + z) + d
      BY <2>a, <2>5, <3>1
    <3> QED BY <2>3, <3>2 DEF g1, g2
  <2> QED BY <2>3, <2>4, <2>6 DEF d
<1> HIDE DEF F, D, r, q
<1>10. h \in [0 .. n + w -> Nat] /\ h[0] = 0
  <2>1. \A j \in 0 .. n + w : (IF j <= n THEN g[j] ELSE F(j - n)) \in Nat
    <3> SUFFICES ASSUME NEW j \in 0 .. n + w PROVE (IF j <= n THEN g[j] ELSE F(j - n)) \in Nat
      OBVIOUS
    <3>1. CASE j <= n
      BY <1>1, <1>5, <3>1
    <3>2. CASE ~(j <= n)
      <4>1. j - n \in 0..w
        BY <1>1, <3>2
      <4> QED BY <1>7, <3>2, <4>1
    <3> QED BY <3>1, <3>2
  <2> QED BY <1>1, <1>5, <2>1
<1>11. ASSUME NEW j \in 1 .. n + w PROVE h[j] = 10 * h[j - 1] + r[j]
  <2>1. j \in 0 .. n + w /\ j - 1 \in 0 .. n + w
    BY <1>1
  <2>2. CASE j <= n
    <3>1. j \in 1..n /\ j - 1 <= n
      BY <1>1, <2>2
    <3>2. h[j] = g[j] /\ h[j - 1] = g[j - 1] /\ r[j] = s[j]
      BY <1>3, <2>1, <2>2, <3>1
    <3> QED BY <1>5, <3>1, <3>2
  <2>3. CASE ~(j <= n)
    <3> DEFINE l == j - n
    <3>1. l \in 1..w /\ (j - 1) - n = l - 1
      BY <1>1, <2>3
    <3>2. h[j] = F(l) /\ r[j] = b[l]
      BY <1>3, <2>1, <2>3
    <3>3. h[j - 1] = F(l - 1)
      <4>1. CASE j - 1 <= n
        <5>1. j - 1 = n /\ l - 1 = 0
          BY <1>1, <2>3, <4>1
        <5>2. h[j - 1] = g[n]
          BY <2>1, <4>1, <5>1
        <5> QED BY <1>8, <5>1, <5>2 DEF D
      <4>2. CASE ~(j - 1 <= n)
        <5>1. h[j - 1] = F((j - 1) - n)
          BY <2>1, <4>2
        <5> QED BY <3>1, <5>1
      <4> QED BY <4>1, <4>2
    <3> HIDE DEF l, h
    <3> QED BY <1>9, <3>1, <3>2, <3>3
  <2> QED BY <2>2, <2>3
<1>12. Horner(r, n + w, 10, h)
  <2> HIDE DEF h
  <2> QED BY <1>10, <1>11 DEF Horner
<1>13. DigitsValue(r) = h[n + w]
  <2> HIDE DEF h
  <2>1. n + w \in Nat
    BY <1>1
  <2> QED BY <1>3, <1>12, <2>1, ValueByHorner DEF r
<1>14. h[n + w] = F(w)
  <2>1. CASE w = 0
    <3>1. h[n + w] = D
      BY <1>1, <2>1 DEF D
    <3> QED BY <1>8, <2>1, <3>1
  <2>2. CASE w # 0
    BY <1>1, <2>2
  <2> QED BY <2>1, <2>2
<1>15. F(w) = 10^w * D + x
  <2>1. w - w = 0 /\ q(w) = x
    BY <1>1 DEF q
  <2> QED BY <2>1 DEF F
<1> QED BY <1>3, <1>5, <1>13, <1>14, <1>15 DEF r, b, D

LEMMA FirstValue ==
  ASSUME PowersAreProducts, NEW w \in Nat, NEW x \in Nat, x < 10^w
  PROVE  DigitsValue(Block(x, w)) = x
<1>1. <<>> \in Seq(0..9) /\ Len(<<>>) = 0
  OBVIOUS
<1>2. DigitsValue(<<>> \o Block(x, w)) = 10^w * DigitsValue(<<>>) + x
  BY <1>1, AppendedValue
<1>3. TenPowers(w) /\ 10^w \in Nat
  <2>1. PowerLaw(10)
    BY TenIsTwoFive
  <2>2. \A k \in Nat : 10^k \in Nat \ {0} /\ 10^(k + 1) = 10 * 10^k
    BY <2>1, Zenon DEF PowerLaw
  <2>3. 10^0 = 1
    BY <2>1, Zenon DEF PowerLaw
  <2> QED BY <2>2, <2>3 DEF TenPowers
<1>4. Block(x, w) \in Seq(0..9)
  BY <1>3, BlockIs
<1>5. <<>> \o Block(x, w) = Block(x, w)
  BY <1>4, ConcatEmptySeq
<1>6. DigitsValue(<<>>) = 0
  <2>1. HasHorner(<<>>, 0, 10)
    BY <1>1, TextHorner
  <2>2. PICK g : Horner(<<>>, 0, 10, g)
    BY <2>1 DEF HasHorner
  <2>3. DigitsValue(<<>>) = g[0]
    BY <1>1, <2>2, ValueByHorner
  <2> QED BY <2>2, <2>3 DEF Horner
<1> QED BY <1>2, <1>3, <1>5, <1>6

-----------------------------------------------------------------------------
(* The number in front of a weight: the digits of n / unit from weight w   *)
(* on, as one number.                                                      *)
Prefix(n, unit, w) ==
  IF w >= 0 THEN Quotients(n \div unit)[w] ELSE (n * bigit_bound^(0 - w)) \div unit

LEMMA BoundLaw ==
  ASSUME PowersAreProducts
  PROVE  PowerLaw(bigit_bound)
BY Bound, PowerLaws

LEMMA BoundPower ==
  ASSUME PowersAreProducts
  PROVE  /\ bigit_bound^0 = 1
         /\ \A k \in Nat : /\ bigit_bound^k \in Nat \ {0}
                           /\ bigit_bound^(k + 1) = bigit_bound * bigit_bound^k
<1>1. PowerLaw(bigit_bound)
  BY BoundLaw
<1> QED BY <1>1, Zenon DEF PowerLaw

LEMMA RemainderTimes ==
  ASSUME NEW b \in Nat, NEW u \in Nat \ {0}, NEW x \in Nat
  PROVE  /\ (b * x) \div u = b * (x \div u) + (((x % u) * b) \div u)
         /\ (b * x) % u = ((x % u) * b) % u
<1> DEFINE y == x \div u
           r == x % u
           z == (r * b) \div u
           e == (r * b) % u
           rb == r * b
<1>1. y \in Nat /\ r \in Nat /\ x = u * y + r
  <2>1. r \in 0 .. u - 1 /\ y \in Nat /\ x = u * y + r
    BY Division
  <2> HIDE DEF y, r
  <2>2. r \in Nat
    BY <2>1
  <2> QED BY <2>1, <2>2
<1> HIDE DEF y, r
<1>2. rb \in Nat
  BY <1>1
<1>3. z \in Nat /\ e \in 0 .. u - 1 /\ rb = u * z + e
  <2>1. z = rb \div u /\ e = rb % u
    OBVIOUS
  <2> HIDE DEF rb, z, e
  <2> QED BY <1>2, <2>1, Division
<1> HIDE DEF z, e
<1>4. b * x = u * (b * y + z) + e
  <2> DEFINE by == b * y
             uy == u * y
             ub == u * by
  <2>1. b * uy = ub /\ uy \in Nat /\ by \in Nat
    BY <1>1
  <2>2. b * r = rb
    BY <1>1
  <2>3. b * x = b * uy + b * r
    <3>1. x = uy + r
      BY <1>1
    <3> HIDE DEF uy
    <3> QED BY <1>1, <2>1, <3>1
  <2>4. u * (by + z) = ub + u * z
    <3> HIDE DEF by
    <3>1. u * (by + z) = u * by + u * z
      BY <1>3, <2>1
    <3> QED BY <3>1
  <2> DEFINE uz == u * z
  <2>5. uz \in Nat /\ ub \in Nat /\ rb = uz + e
    BY <1>3, <2>1
  <2> HIDE DEF ub, uy, uz, rb
  <2>6. ub + rb = (ub + uz) + e
    BY <1>3, <2>5
  <2> QED BY <2>1, <2>2, <2>3, <2>4, <2>6 DEF uz, by
<1> DEFINE q == b * y + z
<1>5. q \in Nat
  BY <1>1, <1>3
<1> HIDE DEF q
<1>6. (u * q + e) \div u = q /\ (u * q + e) % u = e
  BY <1>3, <1>5, DivisionUnique
<1>7. b * x = u * q + e
  BY <1>4 DEF q
<1>8. (b * x) \div u = q /\ (b * x) % u = e
  <2> DEFINE p == b * x
             g == u * q + e
  <2> HIDE DEF p, g
  <2>1. p = g /\ g \div u = q /\ g % u = e
    BY <1>6, <1>7 DEF p, g
  <2>2. p \div u = q /\ p % u = e
    BY <2>1
  <2> QED BY <2>2 DEF p
<1> QED BY <1>8 DEF q, y, z, r, e

LEMMA RemaindersPower ==
  ASSUME PowersAreProducts, NEW n \in Nat, NEW u \in Nat \ {0}
  PROVE  \A k \in Nat : Remainders(n, u)[k] = (n * bigit_bound^k) % u
<1> DEFINE f == Remainders(n, u)
           p(k) == n * bigit_bound^k
           S == {k \in Nat : f[k] = p(k) % u}
<1>0. f[0] = n % u /\ \A j \in Nat : f[j + 1] = (f[j] * bigit_bound) % u
  BY RemaindersAre
<1> HIDE DEF f
<1>1. 0 \in S
  <2>1. bigit_bound^0 = 1
    BY BoundPower
  <2>2. p(0) = n
    BY <2>1
  <2> QED BY <1>0, <2>2
<1>2. ASSUME NEW k \in Nat, k \in S PROVE k + 1 \in S
  <2>1. bigit_bound^k \in Nat /\ bigit_bound^(k + 1) = bigit_bound * bigit_bound^k
    BY BoundPower
  <2> DEFINE x == p(k)
             t == bigit_bound^k
  <2>2. x \in Nat /\ p(k + 1) = bigit_bound * x
    <3>1. p(k + 1) = n * (bigit_bound * t) /\ t \in Nat /\ x = n * t
      BY <2>1
    <3>2. bigit_bound \in Nat
      BY Bound
    <3> HIDE DEF t, x, p
    <3>3. n * (bigit_bound * t) = bigit_bound * (n * t) /\ n * t \in Nat
      BY <3>1, <3>2
    <3> QED BY <3>1, <3>3
  <2> HIDE DEF p, x
  <2>3. (bigit_bound * x) % u = ((x % u) * bigit_bound) % u
    BY <2>2, Bound, RemainderTimes
  <2>4. f[k] = x % u
    BY <1>2 DEF x
  <2>5. f[k + 1] = p(k + 1) % u
    BY <1>0, <2>2, <2>3, <2>4, Zenon
  <2> QED BY <2>5
<1> HIDE DEF S
<1>3. \A k \in Nat : k \in S
  BY <1>1, <1>2, SetInduction
<1> QED BY <1>3 DEF S, f

LEMMA PrefixStep ==
  ASSUME PowersAreProducts, NEW n \in Nat, NEW u \in Nat \ {0}, NEW w \in Int
  PROVE  /\ Prefix(n, u, w) \in Nat
         /\ Prefix(n, u, w) = bigit_bound * Prefix(n, u, w + 1) + Long(n, u, w)
<1>0. bigit_bound \in Nat \ {0}
  BY Bound
<1>1. CASE w >= 0
  <2> DEFINE m == n \div u
             x == Quotients(m)[w]
             y == Quotients(m)[w + 1]
  <2>1. m \in Nat /\ w \in Nat
    BY <1>1, Division
  <2> HIDE DEF m
  <2>2. x \in Nat /\ y = x \div bigit_bound
    BY <2>1, QuotientsAre
  <2> HIDE DEF x, y
  <2>3. x = bigit_bound * y + (x % bigit_bound)
    BY <1>0, <2>2, Division
  <2>4. Prefix(n, u, w) = x /\ Prefix(n, u, w + 1) = y /\ Long(n, u, w) = x % bigit_bound
    BY <1>1 DEF Prefix, Long, x, y, m
  <2> QED BY <2>2, <2>3, <2>4
<1>2. CASE w < 0
  <2> DEFINE k == -w - 1
             t == bigit_bound^k
             x == n * t
  <2>1. k \in Nat /\ 0 - w = k + 1 /\ w + 1 = 0 - k
    BY <1>2
  <2>2. t \in Nat /\ bigit_bound^(k + 1) = bigit_bound * t
    BY <2>1, BoundPower
  <2>3. x \in Nat /\ n * bigit_bound^(k + 1) = bigit_bound * x
    <3> HIDE DEF t
    <3>1. n * (bigit_bound * t) = bigit_bound * (n * t) /\ n * t \in Nat
      BY <1>0, <2>2
    <3> QED BY <2>2, <3>1
  <2>4. Prefix(n, u, w) = (bigit_bound * x) \div u
    <3>1. Prefix(n, u, w) = (n * bigit_bound^(k + 1)) \div u
      BY <1>2, <2>1 DEF Prefix
    <3> HIDE DEF x
    <3> QED BY <2>3, <3>1, Zenon
  <2>5. Prefix(n, u, w + 1) = x \div u
    <3>1. CASE k = 0
      <4>1. t = 1
        BY <3>1, BoundPower
      <4>2. x = n
        BY <4>1
      <4>3. n \div u \in Nat
        BY Division
      <4> DEFINE m == n \div u
      <4> HIDE DEF m
      <4>4. Quotients(m)[0] = m
        BY <4>3, QuotientsAre DEF m
      <4>5. Prefix(n, u, w + 1) = Quotients(m)[0]
        BY <2>1, <3>1 DEF Prefix, m
      <4> QED BY <4>2, <4>4, <4>5 DEF m
    <3>2. CASE k # 0
      <4>1. ~(w + 1 >= 0) /\ 0 - (w + 1) = k
        BY <2>1, <3>2
      <4> QED BY <4>1, Zenon DEF Prefix, x, t
    <3> QED BY <3>1, <3>2
  <2>6. Long(n, u, w) = ((x % u) * bigit_bound) \div u
    <3>1. Remainders(n, u)[k] = x % u
      BY <2>1, RemaindersPower
    <3>2. Long(n, u, w) = (Remainders(n, u)[k] * bigit_bound) \div u
      BY <1>2 DEF Long
    <3> QED BY <3>1, <3>2, Zenon
  <2> HIDE DEF x
  <2>7. (bigit_bound * x) \div u = bigit_bound * (x \div u) + (((x % u) * bigit_bound) \div u)
    BY <1>0, <2>3, RemainderTimes
  <2>8. bigit_bound * x \in Nat
    BY <1>0, <2>3
  <2>9. (bigit_bound * x) \div u \in Nat
    BY <2>8, Division
  <2> QED BY <2>4, <2>5, <2>6, <2>7, <2>9, Zenon
<1> QED BY <1>1, <1>2

(* Nothing stands in front of the first bigit.                             *)
LEMMA PrefixTop ==
  ASSUME PowersAreProducts, NEW n \in Nat, NEW u \in Nat \ {0}, NEW point \in Int,
         \A w \in Int : w >= point => Long(n, u, w) = 0
  PROVE  Prefix(n, u, point) = 0
<1> DEFINE f(w) == Prefix(n, u, w)
           T == {x \in Nat \ {0} : \E w \in Int : w >= point /\ x = f(w)}
<1>0. \A w \in Int : f(w) \in Nat /\ (w >= point => f(w) = bigit_bound * f(w + 1))
  <2> SUFFICES ASSUME NEW w \in Int
               PROVE  f(w) \in Nat /\ (w >= point => f(w) = bigit_bound * f(w + 1))
    OBVIOUS
  <2>1. f(w) \in Nat /\ f(w + 1) \in Nat /\ f(w) = bigit_bound * f(w + 1) + Long(n, u, w)
    BY PrefixStep
  <2>2. bigit_bound * f(w + 1) \in Nat
    BY <2>1, Bound
  <2> QED BY <2>1, <2>2
<1> HIDE DEF f
<1>1. T = {}
  <2> SUFFICES ASSUME T # {} PROVE FALSE
    OBVIOUS
  <2>1. PICK x \in T : \A y \in T : x <= y
    BY LeastNatural
  <2>2. PICK w \in Int : w >= point /\ x = f(w)
    OBVIOUS
  <2> DEFINE y == f(w + 1)
  <2>3. y \in Nat /\ x = bigit_bound * y /\ x # 0
    BY <1>0, <2>2
  <2>4. y # 0 /\ y < x
    BY <2>3, Bound
  <2>5. y \in T
    BY <2>2, <2>3, <2>4
  <2> QED BY <2>1, <2>3, <2>4, <2>5
<1>2. f(point) \in Nat
  BY <1>0
<1>3. f(point) = 0
  BY <1>1, <1>2
<1> QED BY <1>3 DEF f

(* The bigits up to one of them, as one number, are a prefix.              *)
PrefixesOf(b, point, n, u) == [j \in 0 .. Len(b) |-> Prefix(n, u, point - j)]

LEMMA BigitsHorner ==
  ASSUME PowersAreProducts, NEW b \in Bigits, NEW n \in Nat, NEW u \in Nat \ {0},
         NEW point \in Int, HasFraction(b, point, n, u)
  PROVE  Horner(b, Len(b), bigit_bound, PrefixesOf(b, point, n, u))
<1> DEFINE K == Len(b)
           g == PrefixesOf(b, point, n, u)
           f(w) == Prefix(n, u, w)
<1>1. K \in Nat
  BY BigitsAre
<1>2. \A w \in Int : f(w) \in Nat
  BY PrefixStep
<1>3. g \in [0..K -> Nat]
  <2> HIDE DEF f
  <2>1. \A j \in 0..K : f(point - j) \in Nat
    <3> SUFFICES ASSUME NEW j \in 0..K PROVE f(point - j) \in Nat
      OBVIOUS
    <3>1. point - j \in Int
      BY <1>1
    <3> QED BY <1>2, <3>1
  <2>2. g = [j \in 0..K |-> f(point - j)]
    BY DEF PrefixesOf, f
  <2> QED BY <2>1, <2>2
<1>4. g[0] = 0
  <2>1. \A w \in Int : w >= point => Long(n, u, w) = 0
    <3> SUFFICES ASSUME NEW w \in Int, w >= point PROVE Long(n, u, w) = 0
      OBVIOUS
    <3>1. ~(point - w \in 1 .. Len(b))
      BY <1>1
    <3> QED BY <3>1 DEF HasFraction, At
  <2>2. f(point) = 0
    BY <2>1, PrefixTop
  <2>3. 0 \in 0..K /\ point - 0 = point
    BY <1>1
  <2> QED BY <2>2, <2>3 DEF PrefixesOf
<1>5. ASSUME NEW j \in 1..K PROVE g[j] = bigit_bound * g[j - 1] + b[j]
  <2> DEFINE w == point - j
  <2>1. j \in 0..K /\ j - 1 \in 0..K /\ w \in Int /\ point - (j - 1) = w + 1 /\ point - w = j
    BY <1>1
  <2>2. g[j] = f(w) /\ g[j - 1] = f(w + 1)
    BY <2>1 DEF PrefixesOf
  <2>3. Long(n, u, w) = b[j]
    BY <1>1, <2>1 DEF HasFraction, At
  <2>4. f(w) = bigit_bound * f(w + 1) + Long(n, u, w)
    BY <2>1, PrefixStep
  <2> QED BY <2>2, <2>3, <2>4, Zenon
<1> QED BY <1>3, <1>4, <1>5 DEF Horner

(* All of them are the whole number.                                       *)
LEMMA BigitsNumber ==
  ASSUME PowersAreProducts, NEW b \in Bigits, NEW n \in Nat, NEW u \in Nat \ {0},
         NEW point \in Int, Exhausted(b, point, n, u)
  PROVE  /\ Len(b) - point \in Nat
         /\ Prefix(n, u, point - Len(b)) * u = n * bigit_bound^(Len(b) - point)
<1> DEFINE k == Len(b) - point
           t == bigit_bound^k
           x == n * t
           y == Prefix(n, u, point - Len(b))
<1>1. k \in Nat /\ Len(b) \in Nat /\ point - Len(b) = 0 - k /\ Remainders(n, u)[k] = 0
  BY BigitsAre DEF Exhausted
<1>2. t \in Nat /\ (k = 0 => t = 1)
  BY <1>1, BoundPower
<1>3. x \in Nat
  <2> HIDE DEF t
  <2> QED BY <1>2
<1>4. y = x \div u
  <2>1. CASE k = 0
    <3>1. x = n
      BY <1>2, <2>1
    <3> DEFINE m == n \div u
    <3>2. m \in Nat
      BY Division
    <3>3. y = Quotients(m)[0]
      BY <1>1, <2>1 DEF Prefix
    <3> HIDE DEF m
    <3>4. y = m
      BY <3>2, <3>3, QuotientsAre
    <3> QED BY <3>1, <3>4 DEF m
  <2>2. CASE k # 0
    <3>1. ~(point - Len(b) >= 0) /\ 0 - (point - Len(b)) = k
      BY <1>1, <2>2
    <3> QED BY <3>1, Zenon DEF Prefix
  <2> QED BY <2>1, <2>2
<1>5. x % u = 0
  BY <1>1, RemaindersPower
<1> HIDE DEF x
<1>6. x = u * (x \div u) + (x % u) /\ x \div u \in Nat
  BY <1>3, Division
<1> HIDE DEF y
<1>7. y * u = x
  <2>1. y \in Nat /\ x = u * y + 0
    BY <1>4, <1>5, <1>6, Zenon
  <2> QED BY <2>1
<1> QED BY <1>1, <1>7 DEF x, y

(* What stands behind a prefix, and when that is nothing.                  *)
HasRest(b, j, whole, front) ==
  \E r \in 0 .. bigit_bound^(Len(b) - j) - 1 :
    /\ whole = bigit_bound^(Len(b) - j) * front + r
    /\ r = 0 <=> \A m \in j + 1 .. Len(b) : b[m] = 0

LEMMA BigitsRest ==
  ASSUME PowersAreProducts, NEW b \in Bigits, NEW n \in Nat, NEW u \in Nat \ {0},
         NEW point \in Int, HasFraction(b, point, n, u), NEW j \in 0 .. Len(b)
  PROVE  HasRest(b, j, Prefix(n, u, point - Len(b)), Prefix(n, u, point - j))
<1> DEFINE K == Len(b)
           g == PrefixesOf(b, point, n, u)
           k == K - j
<1>1. K \in Nat /\ k \in 0 .. K - j /\ j + k = K /\ bigit_bound \in Nat \ {0}
      /\ \A m \in 1..K : b[m] \in 0 .. bigit_bound - 1
  BY BigitsAre, Bound
<1>2. Horner(b, K, bigit_bound, g)
  BY BigitsHorner
<1>3. HasTail(b, bigit_bound, g, j, k)
  <2> HIDE DEF g, k
  <2> QED BY <1>1, <1>2, BoundLaw, HornerTail
<1>4. PICK r : TailIs(b, bigit_bound, g, j, k, r)
  BY <1>3 DEF HasTail
<1>5. g[K] = Prefix(n, u, point - K) /\ g[j] = Prefix(n, u, point - j)
  BY <1>1 DEF PrefixesOf
<1>6. /\ r \in 0 .. bigit_bound^k - 1 /\ g[j + k] = bigit_bound^k * g[j] + r
      /\ r = 0 <=> \A m \in j + 1 .. j + k : b[m] = 0
  BY <1>4, Zenon DEF TailIs
<1> HIDE DEF g
<1>7. /\ r \in 0 .. bigit_bound^(K - j) - 1 /\ g[K] = bigit_bound^(K - j) * g[j] + r
      /\ r = 0 <=> \A m \in j + 1 .. K : b[m] = 0
  BY <1>1, <1>6, Zenon
<1> QED BY <1>5, <1>7, Zenon DEF HasRest

(* A bigit has bigit_digits decimal digits.                                *)
LEMMA BoundIsTens ==
  ASSUME PowersAreProducts, NEW k \in Nat
  PROVE  bigit_digits * k \in Nat /\ bigit_bound^k = 10^(bigit_digits * k)
<1> DEFINE S == {m \in Nat : bigit_bound^m = 10^(bigit_digits * m)}
<1>0. bigit_digits \in Nat /\ bigit_digits * 0 = 0
      /\ \A m \in Nat : bigit_digits * m \in Nat /\ bigit_digits * (m + 1) = bigit_digits + bigit_digits * m
  <2>1. bigit_digits \in Nat
    BY BigitAssumption
  <2> DEFINE w == bigit_digits
  <2> HIDE DEF w
  <2>2. w \in Nat
    BY <2>1 DEF w
  <2>3. w * 0 = 0 /\ \A m \in Nat : w * m \in Nat /\ w * (m + 1) = w + w * m
    BY <2>2
  <2> QED BY <2>2, <2>3 DEF w
<1>1. PowerLaw(10)
  BY TenIsTwoFive
<1>2. 10^0 = 1 /\ \A m, n \in Nat : 10^(m + n) = 10^m * 10^n
  BY <1>1, Zenon DEF PowerLaw
<1>3. 0 \in S
  BY <1>0, <1>2, BoundPower
<1>4. ASSUME NEW m \in Nat, m \in S PROVE m + 1 \in S
  <2>1. bigit_bound^(m + 1) = bigit_bound * bigit_bound^m
    BY BoundPower
  <2>2. bigit_bound = 10^bigit_digits
    BY DEF bigit_bound
  <2>3. 10^(bigit_digits + bigit_digits * m) = 10^bigit_digits * 10^(bigit_digits * m)
    BY <1>0, <1>2
  <2>4. bigit_bound^m = 10^(bigit_digits * m)
    BY <1>4
  <2>5. bigit_digits * (m + 1) = bigit_digits + bigit_digits * m
    BY <1>0
  <2>6. bigit_bound^(m + 1) = 10^(bigit_digits * (m + 1))
    BY <2>1, <2>2, <2>3, <2>4, <2>5, Zenon
  <2> QED BY <2>6
<1> HIDE DEF S
<1>5. k \in S
  BY <1>3, <1>4, SetInduction
<1> QED BY <1>0, <1>5 DEF S

-----------------------------------------------------------------------------
(* The decimal a double is: c * 2^q = whole * 10^(-places).                *)
IsDecimal(c, q, whole, places) ==
  whole * 2^Positive(0 - q) = (c * 2^Positive(q)) * 10^places

LEMMA SevenFactors ==
  ASSUME NEW c \in Nat, NEW a \in Nat, NEW b \in Nat, NEW l2 \in Nat, NEW l5 \in Nat,
         NEW h \in Nat, NEW k \in Nat
  PROVE  (c * (l5 * h)) * ((b * l2) * k) = ((c * b) * (l2 * l5)) * (h * k)
<1> DEFINE p == c * b
           r == l2 * l5
           s == h * k
<1>1. p \in Nat /\ r \in Nat /\ s \in Nat
  OBVIOUS
<1>2. (c * (l5 * h)) * ((b * l2) * k) = (c * b) * ((l5 * h) * (l2 * k))
  OBVIOUS
<1>3. (l5 * h) * (l2 * k) = (l2 * l5) * (h * k)
  OBVIOUS
<1>4. (c * b) * ((l2 * l5) * (h * k)) = ((c * b) * (l2 * l5)) * (h * k)
  <2> HIDE DEF p, r, s
  <2>1. p * (r * s) = (p * r) * s
    BY <1>1
  <2> QED BY <2>1 DEF p, r, s
<1> QED BY <1>2, <1>3, <1>4, Zenon

LEMMA DecimalScale ==
  ASSUME PowersAreProducts, NEW c \in Nat, NEW q \in Int, NEW whole \in Nat,
         NEW places \in Nat, IsDecimal(c, q, whole, places),
         NEW t \in Int, t + places \in Nat
  PROVE  /\ Twos(q, t) \in Nat \ {0} /\ Tens(q, t) \in Nat \ {0}
         /\ 10^(t + places) \in Nat \ {0}
         /\ (c * Twos(q, t)) * 10^(t + places) = whole * Tens(q, t)
<1> DEFINE s == t + places
           a == 2^Positive(0 - q)
           b == 2^Positive(q)
           l2 == 2^places
           l5 == 5^places
           f == 5^Positive(-t)
           g == 2^Positive(q - t)
           h == 5^Positive(t)
           k == 2^Positive(t - q)
           x2 == 2^s
           x5 == 5^s
<1>0. /\ \A n \in Nat : 2^n \in Nat \ {0} /\ 5^n \in Nat \ {0} /\ 10^n \in Nat \ {0}
      /\ \A n \in Nat : 10^n = 2^n * 5^n
      /\ \A m, n \in Nat : 2^(m + n) = 2^m * 2^n
      /\ \A m, n \in Nat : 5^(m + n) = 5^m * 5^n
  <2>1. PowerLaw(2) /\ PowerLaw(5) /\ PowerLaw(10) /\ \A n \in Nat : 10^n = 2^n * 5^n
    BY TenIsTwoFive
  <2>2. \A n \in Nat : 2^n \in Nat \ {0}
    BY <2>1, Zenon DEF PowerLaw
  <2>3. \A n \in Nat : 5^n \in Nat \ {0}
    BY <2>1, Zenon DEF PowerLaw
  <2>4. \A n \in Nat : 10^n \in Nat \ {0}
    BY <2>1, Zenon DEF PowerLaw
  <2>5. \A m, n \in Nat : 2^(m + n) = 2^m * 2^n
    BY <2>1, Zenon DEF PowerLaw
  <2>6. \A m, n \in Nat : 5^(m + n) = 5^m * 5^n
    BY <2>1, Zenon DEF PowerLaw
  <2> QED BY <2>1, <2>2, <2>3, <2>4, <2>5, <2>6
<1> DEFINE pq == Positive(q)
           nq == Positive(0 - q)
           pt == Positive(t)
           nt == Positive(-t)
           qt == Positive(q - t)
           tq == Positive(t - q)
<1>1. /\ s \in Nat /\ pq \in Nat /\ nq \in Nat /\ pt \in Nat /\ nt \in Nat
      /\ qt \in Nat /\ tq \in Nat
      /\ nt + s = places + pt
      /\ (qt + s) + nq = (pq + places) + tq
  BY DEF Positive
<1> HIDE DEF s, pq, nq, pt, nt, qt, tq
<1>2. /\ a \in Nat \ {0} /\ b \in Nat \ {0} /\ l2 \in Nat \ {0} /\ l5 \in Nat \ {0}
      /\ f \in Nat \ {0} /\ g \in Nat \ {0} /\ h \in Nat \ {0} /\ k \in Nat \ {0}
      /\ x2 \in Nat \ {0} /\ x5 \in Nat \ {0} /\ 10^s \in Nat \ {0}
      /\ 10^places = l2 * l5 /\ 10^s = x2 * x5
  BY <1>0, <1>1 DEF pq, nq, pt, nt, qt, tq
<1>3. f * x5 = l5 * h
  <2>1. 5^(nt + s) = 5^nt * 5^s /\ 5^(places + pt) = 5^places * 5^pt
    BY <1>0, <1>1
  <2>2. 5^nt * 5^s = 5^places * 5^pt
    BY <1>1, <2>1, Zenon
  <2> QED BY <2>2 DEF nt, pt
<1>4. (g * x2) * a = (b * l2) * k
  <2>1. 2^((qt + s) + nq) = 2^(qt + s) * 2^nq /\ 2^(qt + s) = 2^qt * 2^s
    BY <1>0, <1>1
  <2>2. 2^((pq + places) + tq) = 2^(pq + places) * 2^tq /\ 2^(pq + places) = 2^pq * 2^places
    BY <1>0, <1>1
  <2>3. (2^qt * 2^s) * 2^nq = (2^pq * 2^places) * 2^tq
    BY <1>1, <2>1, <2>2, Zenon
  <2> QED BY <2>3 DEF qt, nq, pq, tq
<1>5. whole * a = (c * b) * (l2 * l5)
  BY <1>2, Zenon DEF IsDecimal
<1>6. Twos(q, t) = f * g /\ Tens(q, t) = h * k
  BY DEF Twos, Tens
<1> HIDE DEF a, b, l2, l5, f, g, h, k, x2, x5
<1> DEFINE left == (c * (f * g)) * (x2 * x5)
           right == whole * (h * k)
<1>7. left * a = (c * (f * x5)) * ((g * x2) * a)
  <2> DEFINE fx == f * x5
             gx == g * x2
  <2>1. fx \in Nat /\ gx \in Nat
    BY <1>2
  <2>2. left = (c * fx) * gx
    BY <1>2
  <2> HIDE DEF left, fx, gx
  <2>3. ((c * fx) * gx) * a = (c * fx) * (gx * a)
    BY <1>2, <2>1
  <2> QED BY <2>2, <2>3, Zenon DEF fx, gx
<1>8. right * a = (whole * a) * (h * k)
  <2> DEFINE hk == h * k
  <2>1. hk \in Nat
    BY <1>2
  <2> HIDE DEF hk
  <2>2. (whole * hk) * a = (whole * a) * hk
    BY <1>2, <2>1
  <2> QED BY <2>2 DEF hk
<1>9. left * a = right * a
  <2>1. (c * (l5 * h)) * ((b * l2) * k) = ((c * b) * (l2 * l5)) * (h * k)
    BY <1>2, SevenFactors
  <2> HIDE DEF left, right
  <2> QED BY <1>3, <1>4, <1>5, <1>7, <1>8, <2>1, Zenon
<1>10. left \in Nat /\ right \in Nat /\ f * g \in Nat \ {0} /\ h * k \in Nat \ {0}
  <2>1. f * g \in Nat \ {0} /\ h * k \in Nat \ {0} /\ x2 * x5 \in Nat
    BY <1>2
  <2> DEFINE fg == f * g
             hk == h * k
             xx == x2 * x5
  <2>2. fg \in Nat /\ hk \in Nat /\ xx \in Nat
    BY <2>1
  <2> HIDE DEF fg, hk, xx
  <2>3. (c * fg) * xx \in Nat /\ whole * hk \in Nat
    BY <2>2
  <2> QED BY <2>1, <2>3 DEF fg, hk, xx
<1>11. left = right
  <2> HIDE DEF left, right
  <2> QED BY <1>2, <1>9, <1>10, ProductOrder
<1> QED BY <1>2, <1>6, <1>10, <1>11 DEF s

(* m * 10^t compared with r * c * 2^q is m * 10^(t + places) compared with *)
(* r * whole.                                                              *)
LEMMA DecimalCompares ==
  ASSUME PowersAreProducts, NEW c \in Nat, NEW q \in Int, NEW whole \in Nat,
         NEW places \in Nat, IsDecimal(c, q, whole, places),
         NEW t \in Int, t + places \in Nat, NEW m \in Nat, NEW r \in Nat
  PROVE  /\ LeqProd(m, Tens(q, t), r * c, Twos(q, t)) <=> m * 10^(t + places) <= r * whole
         /\ LeqProd(r * c, Twos(q, t), m, Tens(q, t)) <=> r * whole <= m * 10^(t + places)
<1> DEFINE N == Twos(q, t)
           T == Tens(q, t)
           x == 10^(t + places)
<1>1. N \in Nat \ {0} /\ T \in Nat \ {0} /\ x \in Nat \ {0} /\ (c * N) * x = whole * T
  <2> HIDE DEF N, T, x
  <2>1. Twos(q, t) \in Nat \ {0}
    BY DecimalScale
  <2>2. Tens(q, t) \in Nat \ {0}
    BY DecimalScale
  <2>3. 10^(t + places) \in Nat \ {0}
    BY DecimalScale
  <2>4. (c * Twos(q, t)) * 10^(t + places) = whole * Tens(q, t)
    BY DecimalScale
  <2> QED BY <2>1, <2>2, <2>3, <2>4 DEF N, T, x
<1> HIDE DEF N, T, x
<1>2. r * c \in Nat
  OBVIOUS
<1>3. /\ LeqProd(m, T, r * c, N) <=> m * T <= (r * c) * N
      /\ LeqProd(r * c, N, m, T) <=> (r * c) * N <= m * T
  <2> DEFINE rc == r * c
  <2> HIDE DEF rc
  <2>1. rc \in Nat
    BY <1>2 DEF rc
  <2>2. /\ LeqProd(m, T, rc, N) <=> m * T <= rc * N
        /\ LeqProd(rc, N, m, T) <=> rc * N <= m * T
    BY <1>1, <2>1, LeqProdExact
  <2> QED BY <2>2 DEF rc
<1> DEFINE mT == m * T
           cN == c * N
           wT == whole * T
           mx == m * x
           rw == r * whole
<1>4. mT \in Nat /\ cN \in Nat /\ wT \in Nat /\ mx \in Nat /\ rw \in Nat
  BY <1>1
<1>5. (r * c) * N = r * cN
  BY <1>1
<1>6. mT * x = mx * T
  BY <1>1
<1>7. (r * cN) * x = rw * T
  <2>1. r * wT = rw * T
    BY <1>1
  <2>2. cN * x = wT
    BY <1>1
  <2> HIDE DEF cN, wT, rw
  <2>3. (r * cN) * x = r * (cN * x)
    BY <1>1, <1>4
  <2> QED BY <2>1, <2>2, <2>3, Zenon
<1> HIDE DEF mT, cN, wT, mx, rw
<1> DEFINE rcN == r * cN
<1>8. rcN \in Nat
  BY <1>4
<1> HIDE DEF rcN
<1>9. mT <= rcN <=> mT * x <= rcN * x
  BY <1>1, <1>4, <1>8, ProductOrder
<1>10. mx <= rw <=> mx * T <= rw * T
  BY <1>1, <1>4, ProductOrder
<1>11. rcN <= mT <=> rcN * x <= mT * x
  BY <1>1, <1>4, <1>8, ProductOrder
<1>12. rw <= mx <=> rw * T <= mx * T
  BY <1>1, <1>4, ProductOrder
<1>13. mT * x = mx * T /\ rcN * x = rw * T
  BY <1>6, <1>7 DEF rcN
<1>14. (mT <= rcN <=> mx <= rw) /\ (rcN <= mT <=> rw <= mx)
  BY <1>9, <1>10, <1>11, <1>12, <1>13, Zenon
<1>15. m * T = mT /\ (r * c) * N = rcN /\ m * x = mx /\ r * whole = rw
  BY <1>5 DEF mT, rcN, mx, rw
<1>16. /\ m * T <= (r * c) * N <=> m * x <= r * whole
       /\ (r * c) * N <= m * T <=> r * whole <= m * x
  BY <1>14, <1>15, Zenon
<1> QED BY <1>3, <1>16, Zenon DEF N, T, x

(* More decimal places than needed.                                        *)
LEMMA DecimalPadded ==
  ASSUME PowersAreProducts, NEW c \in Nat, NEW q \in Int, NEW whole \in Nat,
         NEW places \in Nat, IsDecimal(c, q, whole, places), NEW z \in Nat
  PROVE  IsDecimal(c, q, whole * 10^z, places + z)
<1> DEFINE a == 2^Positive(0 - q)
           b == c * 2^Positive(q)
           l == 10^places
           t == 10^z
<1>1. Positive(0 - q) \in Nat /\ Positive(q) \in Nat
  BY DEF Positive
<1>2. PowerLaw(2) /\ PowerLaw(10)
  BY TenIsTwoFive
<1>3. \A n \in Nat : 2^n \in Nat
  BY <1>2, Zenon DEF PowerLaw
<1>4. \A n \in Nat : 10^n \in Nat
  BY <1>2, Zenon DEF PowerLaw
<1>5. \A m, n \in Nat : 10^(m + n) = 10^m * 10^n
  BY <1>2, Zenon DEF PowerLaw
<1>6. a \in Nat /\ b \in Nat /\ l \in Nat /\ t \in Nat /\ 10^(places + z) = l * t
  BY <1>1, <1>3, <1>4, <1>5
<1>7. whole * a = b * l
  BY Zenon DEF IsDecimal
<1> HIDE DEF a, b, l, t
<1>8. (whole * t) * a = (whole * a) * t /\ (b * l) * t = b * (l * t)
  BY <1>6
<1>9. (whole * t) * a = b * 10^(places + z)
  BY <1>6, <1>7, <1>8, Zenon
<1> QED BY <1>9, Zenon DEF IsDecimal, a, b, t

(* All the bigits are the decimal the argument is.                         *)
Digits == bigit_digits * (Len(bigits) - fraction_start)
Integer == Prefix(Whole, Unit, fraction_start - Len(bigits))

LEMMA BigitsDecimal ==
  ASSUME PowersAreProducts, ShiftInv, pc # "shift", ~IsZero(value)
  PROVE  /\ Len(bigits) - fraction_start \in Nat
         /\ Digits \in Nat /\ Integer \in Nat
         /\ BinSig(value) \in Nat /\ BinExp(value) \in Int
         /\ IsDecimal(BinSig(value), BinExp(value), Integer, Digits)
<1> DEFINE c == BinSig(value)
           q == BinExp(value)
           k == Len(bigits) - fraction_start
           x == bigit_bound^k
           E == Integer
           p == Positive(q)
           m == Positive(0 - q)
<1>1. Whole \in Nat /\ Unit \in Nat \ {0}
  BY WholeAndUnit DEF ShiftInv
<1>2. fraction_start \in Int /\ bigits \in Bigits /\ Len(bigits) \in Nat
  BY BigitsAre DEF ShiftInv
<1>3. k \in Nat /\ E * Unit = Whole * x
  <2>1. Exhausted(bigits, fraction_start, Whole, Unit)
    BY DEF ShiftInv
  <2> QED BY <1>1, <1>2, <2>1, BigitsNumber DEF Integer
<1>4. E \in Nat
  <2>1. fraction_start - Len(bigits) \in Int
    BY <1>2
  <2> QED BY <1>1, <2>1, PrefixStep DEF Integer
<1>5. Digits \in Nat /\ x = 10^Digits /\ x \in Nat
  BY <1>3, BoundIsTens, BoundPower DEF Digits
<1>6. PICK s \in 0..num_sig_bits : v = c * 2^s /\ exp = q - s
  BY SignificandIs DEF ShiftInv, Argument
<1>7. c \in Nat /\ q \in Int
  <2>1. value \in Double
    BY SignificandIs DEF ShiftInv, Argument
  <2>2. num_sig_bits \in Nat /\ exp_mask \in Nat
    BY FormatAssumption
  <2>3. PowerLaw(2)
    BY TenIsTwoFive
  <2>4. implicit_bit \in Nat
    BY <2>2, <2>3, Zenon DEF PowerLaw, implicit_bit
  <2>5. exp_offset \in Int
    BY <2>2 DEF exp_offset
  <2>6. value.exp \in Nat /\ value.sig \in Nat
    BY <2>1, <2>2, <2>4 DEF Double
  <2> QED BY <2>4, <2>5, <2>6 DEF BinSig, BinExp
<1>8. s \in Nat
  BY FormatAssumption
<1>9. p \in Nat /\ m \in Nat /\ q = p - m
  BY <1>7 DEF Positive
<1>10. /\ \A n \in Nat : 2^n \in Nat \ {0}
       /\ \A n1, n2 \in Nat : 2^(n1 + n2) = 2^n1 * 2^n2
       /\ 2^0 = 1
  <2>1. PowerLaw(2)
    BY TenIsTwoFive
  <2>2. \A n \in Nat : 2^n \in Nat \ {0}
    BY <2>1, Zenon DEF PowerLaw
  <2>3. \A n1, n2 \in Nat : 2^(n1 + n2) = 2^n1 * 2^n2
    BY <2>1, Zenon DEF PowerLaw
  <2>4. 2^0 = 1
    BY <2>1, Zenon DEF PowerLaw
  <2> QED BY <2>2, <2>3, <2>4
<1>11. i = exp
  BY DEF ShiftInv, Argument
<1>12. E * 2^m = (c * 2^p) * x
  <2>1. CASE exp >= 0
    <3>1. p = s + exp /\ m = 0 /\ exp \in Nat
      BY <1>6, <1>7, <1>8, <2>1 DEF Positive
    <3>2. Unit = 1 /\ Whole = v * 2^exp
      BY <1>11, <2>1 DEF Unit, Whole
    <3> DEFINE a == 2^s
               b == 2^exp
    <3>3. 2^p = a * b /\ 2^m = 1 /\ a \in Nat /\ b \in Nat
      BY <1>8, <1>10, <3>1
    <3> HIDE DEF a, b, c, x, E, m, p
    <3>4. E * 1 = ((c * a) * b) * x
      BY <1>3, <1>6, <3>2 DEF a, b
    <3>5. (c * a) * b = c * (a * b)
      BY <1>7, <3>3
    <3> QED BY <3>3, <3>4, <3>5, Zenon
  <2>2. CASE exp < 0
    <3> DEFINE n == s - p
    <3>1. n \in Nat /\ s = n + p /\ 0 - exp = n + m
      BY <1>6, <1>7, <1>8, <2>2 DEF Positive
    <3> HIDE DEF n
    <3>2. Unit = 2^(n + m) /\ Whole = c * 2^(n + p)
      BY <1>6, <1>11, <2>2, <3>1 DEF Unit, Whole
    <3> DEFINE a == 2^n
               b == 2^m
               d == 2^p
    <3>3. 2^(n + m) = a * b /\ 2^(n + p) = a * d
          /\ a \in Nat \ {0} /\ b \in Nat /\ d \in Nat
      BY <1>9, <1>10, <3>1
    <3> HIDE DEF a, b, d, c, x, E, m, p
    <3>4. E * (a * b) = (c * (a * d)) * x
      BY <1>3, <3>2, <3>3
    <3> DEFINE l == E * b
               r == (c * d) * x
    <3>5. l \in Nat /\ r \in Nat /\ l * a = r * a
      <4>1. E * (a * b) = (E * b) * a
        BY <1>4, <3>3
      <4>2. (c * (a * d)) * x = ((c * d) * x) * a
        <5>1. c * (a * d) = (c * d) * a /\ c * d \in Nat
          BY <1>7, <3>3
        <5> DEFINE cd == c * d
        <5> HIDE DEF cd
        <5>2. (cd * a) * x = (cd * x) * a
          BY <1>5, <3>3, <5>1 DEF cd
        <5> QED BY <5>1, <5>2 DEF cd
      <4>3. E * b \in Nat /\ (c * d) * x \in Nat
        <5>1. c * d \in Nat
          BY <1>7, <3>3
        <5> DEFINE cd == c * d
        <5> HIDE DEF cd
        <5>2. cd * x \in Nat
          BY <1>5, <5>1 DEF cd
        <5> QED BY <1>4, <3>3, <5>2 DEF cd
      <4> QED BY <3>4, <4>1, <4>2, <4>3, Zenon
    <3> HIDE DEF l, r
    <3>6. l = r
      BY <3>3, <3>5, ProductOrder
    <3> QED BY <3>6 DEF l, r, b, d
  <2> QED BY <1>6, <1>7, <1>8, <2>1, <2>2
<1>13. IsDecimal(c, q, E, Digits)
  BY <1>5, <1>12, Zenon DEF IsDecimal
<1> QED BY <1>3, <1>4, <1>5, <1>7, <1>13

-----------------------------------------------------------------------------
(* What the digits kept and those behind them stand for.                   *)
LEMMA TenFacts ==
  ASSUME PowersAreProducts
  PROVE  /\ 10^0 = 1
         /\ \A n \in Nat : 10^n \in Nat \ {0} /\ 10^(n + 1) = 10 * 10^n
         /\ \A m, n \in Nat : 10^(m + n) = 10^m * 10^n
<1>1. PowerLaw(10)
  BY TenIsTwoFive
<1>2. 10^0 = 1
  BY <1>1, Zenon DEF PowerLaw
<1>3. \A n \in Nat : 10^n \in Nat \ {0} /\ 10^(n + 1) = 10 * 10^n
  BY <1>1, Zenon DEF PowerLaw
<1>4. \A m, n \in Nat : 10^(m + n) = 10^m * 10^n
  BY <1>1, Zenon DEF PowerLaw
<1> QED BY <1>2, <1>3, <1>4

LEMMA TextTail ==
  ASSUME PowersAreProducts, NEW s \in Seq(0..9), NEW g, Horner(s, Len(s), 10, g),
         NEW m \in 0 .. Len(s), NEW k \in 0 .. Len(s) - m
  PROVE  HasTail(s, 10, g, m, k)
<1> DEFINE n == Len(s)
           b == 10
<1>1. n \in Nat /\ b \in Nat \ {0} /\ PowerLaw(b) /\ Horner(s, n, b, g)
      /\ m \in 0..n /\ k \in 0 .. n - m
  BY TextHorner
<1>2. \A j \in 1..n : s[j] \in 0 .. b - 1
  BY TextHorner
<1> HIDE DEF n, b
<1>3. \A e \in 0 .. n - m : HasTail(s, b, g, m, e)
  BY <1>1, <1>2, HornerTail
<1> QED BY <1>1, <1>3 DEF b

IsCut(s, p, front, r) ==
  /\ r \in 0 .. 10^(Len(s) - (p + 1)) - 1
  /\ DigitsValue(s) = 10^(Len(s) - (p + 1)) * (10 * front + s[p + 1]) + r
  /\ r = 0 <=> \A j \in p + 2 .. Len(s) : s[j] = 0

HasCut(s, p, front) == \E r : IsCut(s, p, front, r)

LEMMA KeptValue ==
  ASSUME PowersAreProducts, NEW s \in Seq(0..9), NEW p \in Nat \ {0}, p < Len(s),
         NEW kept \in Seq(0..9), Len(kept) = p, \A j \in 1..p : kept[j] = s[j]
  PROVE  /\ HasCut(s, p, DigitsValue(kept))
         /\ DigitsValue(kept) % 2 = s[p] % 2
<1> DEFINE n == Len(s)
           k == n - (p + 1)
<1>1. /\ n \in Nat /\ HasHorner(s, n, 10) /\ PowerLaw(10)
      /\ \A j \in 1..n : s[j] \in 0 .. 10 - 1 /\ s[j] \in Nat
  BY TextHorner
<1>2. PICK g : Horner(s, n, 10, g)
  BY <1>1 DEF HasHorner
<1>3. /\ g \in [0..n -> Nat] /\ g[0] = 0
      /\ \A j \in 1..n : g[j] = 10 * g[j - 1] + s[j]
  BY <1>2 DEF Horner
<1>4. DigitsValue(s) = g[n]
  BY <1>1, <1>2, ValueByHorner
<1>5. k \in 0 .. n - (p + 1) /\ p + 1 \in 0..n /\ (p + 1) + k = n /\ p + 1 \in 1..n
      /\ (p + 1) + 1 = p + 2 /\ (p + 1) - 1 = p
  BY <1>1
<1>6. HasTail(s, 10, g, p + 1, k)
  BY <1>2, <1>5, TextTail
<1>7. PICK r : TailIs(s, 10, g, p + 1, k, r)
  BY <1>6 DEF HasTail
<1>8. /\ r \in 0 .. 10^k - 1 /\ g[n] = 10^k * g[p + 1] + r
      /\ r = 0 <=> \A j \in p + 2 .. n : s[j] = 0
  <2>1. /\ r \in 0 .. 10^k - 1 /\ g[(p + 1) + k] = 10^k * g[p + 1] + r
        /\ r = 0 <=> \A j \in (p + 1) + 1 .. (p + 1) + k : s[j] = 0
    BY <1>7, Zenon DEF TailIs
  <2> HIDE DEF n, k
  <2> QED BY <1>5, <2>1, Zenon
<1>9. g[p + 1] = 10 * g[p] + s[p + 1]
  BY <1>3, <1>5
<1> DEFINE h == [j \in 0..p |-> g[j]]
<1>10. DigitsValue(kept) = h[p]
  <2>1. h \in [0..p -> Nat] /\ h[0] = 0
    <3>1. \A j \in 0..p : j \in 0..n
      BY <1>1
    <3> HIDE DEF n
    <3>2. \A j \in 0..p : g[j] \in Nat
      BY <1>3, <3>1
    <3> QED BY <1>3, <3>2
  <2>2. ASSUME NEW j \in 1..p PROVE h[j] = 10 * h[j - 1] + kept[j]
    <3>1. j \in 1..n /\ j \in 0..p /\ j - 1 \in 0..p
      BY <1>1
    <3>2. h[j] = g[j] /\ h[j - 1] = g[j - 1] /\ kept[j] = s[j]
      BY <3>1
    <3> HIDE DEF h, n
    <3> QED BY <1>3, <3>1, <3>2
  <2> HIDE DEF h
  <2>3. Horner(kept, p, 10, h)
    BY <2>1, <2>2 DEF Horner
  <2> QED BY <2>3, ValueByHorner
<1>11. h[p] = g[p]
  OBVIOUS
<1>12. HasCut(s, p, g[p])
  <2>1. DigitsValue(s) = 10^k * (10 * g[p] + s[p + 1]) + r
    BY <1>4, <1>8, <1>9, Zenon
  <2>2. IsCut(s, p, g[p], r)
    BY <1>8, <2>1, Zenon DEF IsCut
  <2> QED BY <2>2 DEF HasCut
<1>13. g[p] % 2 = s[p] % 2
  <2> DEFINE x == g[p]
             y == g[p - 1]
             d == s[p]
  <2>1. x = 10 * y + d /\ y \in Nat /\ d \in Nat
    BY <1>1, <1>3
  <2> HIDE DEF x, y, d
  <2>2. x % 2 = d % 2
    BY <2>1
  <2> QED BY <2>2 DEF x, d
<1> QED BY <1>10, <1>11, <1>12, <1>13, Zenon

LEMMA IncrementedValue ==
  ASSUME PowersAreProducts, NEW s \in Seq(0..9), Len(s) # 0
  PROVE  IF \A j \in DOMAIN s : s[j] = 9
           THEN /\ DigitsValue(s) + 1 = 10^Len(s)
                /\ DigitsValue(Incremented(s)) = 10^(Len(s) - 1)
           ELSE DigitsValue(Incremented(s)) = DigitsValue(s) + 1
<1> DEFINE n == Len(s)
           z == Incremented(s)
<1>1. /\ n \in Nat \ {0} /\ DOMAIN s = 1..n /\ HasHorner(s, n, 10) /\ PowerLaw(10)
      /\ \A j \in 1..n : s[j] \in 0 .. 10 - 1 /\ s[j] \in Nat
  BY TextHorner
<1>2. PICK g : Horner(s, n, 10, g)
  BY <1>1 DEF HasHorner
<1>3. /\ g \in [0..n -> Nat] /\ g[0] = 0
      /\ \A j \in 1..n : g[j] = 10 * g[j - 1] + s[j]
  BY <1>2 DEF Horner
<1>4. DigitsValue(s) = g[n]
  BY <1>1, <1>2, ValueByHorner
<1>5. Len(z) = n
  BY IncrementedIs
<1>6. /\ 10^0 = 1
      /\ \A k \in Nat : 10^k \in Nat \ {0} /\ 10^(k + 1) = 10 * 10^k
  BY TenFacts
<1>7. CASE \A j \in DOMAIN s : s[j] = 9
  <2>1. g[n] + 1 = 10^n
    <3>1. HasTail(s, 10, g, 0, n)
      <4>1. 0 \in 0..n /\ n \in 0 .. n - 0
        BY <1>1
      <4> QED BY <1>2, <4>1, TextTail
    <3>2. PICK r : TailIs(s, 10, g, 0, n, r)
      BY <3>1 DEF HasTail
    <3>3. \A j \in 0 + 1 .. 0 + n : s[j] = 10 - 1
      BY <1>1, <1>7
    <3> DEFINE t == 10^n
    <3>4. g[0 + n] = t * g[0] + r /\ r = t - 1
      BY <3>2, <3>3, Zenon DEF TailIs
    <3>5. t \in Nat
      BY <1>1, <1>6
    <3> HIDE DEF t
    <3>6. t * g[0] = 0 /\ 0 + n = n
      BY <1>1, <1>3, <3>5
    <3>7. g[n] = t - 1
      BY <3>4, <3>5, <3>6
    <3>8. g[n] + 1 = t
      BY <3>5, <3>7
    <3> QED BY <3>8 DEF t
  <2> DEFINE h == [j \in 0..n |-> IF j = 0 THEN 0 ELSE 10^(j - 1)]
  <2>2. \A j \in 1..n : z[j] = IF j = 1 THEN 1 ELSE 0
    BY <1>7, IncrementedIs
  <2>3. h \in [0..n -> Nat] /\ h[0] = 0
    <3>1. \A j \in 0..n : j # 0 => j - 1 \in Nat
      BY <1>1
    <3> QED BY <1>1, <1>6, <3>1
  <2>4. ASSUME NEW j \in 1..n PROVE h[j] = 10 * h[j - 1] + z[j]
    <3>0. j \in 0..n /\ j - 1 \in 0..n /\ j # 0 /\ j \in Int
      BY <1>1
    <3>1. CASE j = 1
      BY <1>6, <2>2, <3>0, <3>1
    <3>2. CASE j # 1
      <4> DEFINE a == (j - 1) - 1
                 t == 10^a
      <4>1. a \in Nat /\ j - 1 = a + 1 /\ j - 1 # 0
        BY <3>0, <3>2
      <4>2. h[j] = 10^(j - 1) /\ h[j - 1] = t /\ z[j] = 0
        BY <2>2, <3>0, <3>2, <4>1
      <4> HIDE DEF h, a
      <4>3. t \in Nat /\ 10^(j - 1) = 10 * t
        BY <1>6, <4>1
      <4> HIDE DEF t
      <4> QED BY <4>2, <4>3
    <3> QED BY <3>1, <3>2
  <2>5. h[n] = 10^(n - 1)
    BY <1>1
  <2>6. DigitsValue(z) = h[n]
    <3> HIDE DEF h
    <3>1. Horner(z, n, 10, h)
      BY <2>3, <2>4 DEF Horner
    <3> HIDE DEF n, z
    <3> QED BY <1>1, <1>5, <3>1, ValueByHorner
  <2> QED BY <1>4, <1>7, <2>1, <2>5, <2>6, Zenon
<1>8. CASE ~(\A j \in DOMAIN s : s[j] = 9)
  <2>1. PICK last \in 1..n :
          /\ s[last] # 9 /\ \A j \in 1..n : j > last => s[j] = 9
          /\ \A j \in 1..n : z[j] = IF j < last THEN s[j] ELSE IF j = last THEN s[j] + 1 ELSE 0
    BY <1>8, IncrementedIs
  <2> DEFINE x == g[last]
             k == n - last
             h == [j \in 0..n |-> IF j < last THEN g[j] ELSE (x + 1) * 10^(j - last)]
  <2>2. k \in Nat /\ last + k = n /\ x \in Nat /\ last \in 0..n /\ k \in 0 .. n - last
    BY <1>1, <1>3
  <2>3. g[n] + 1 = (x + 1) * 10^k
    <3>1. HasTail(s, 10, g, last, k)
      BY <1>2, <2>2, TextTail
    <3>2. PICK r : TailIs(s, 10, g, last, k, r)
      BY <3>1 DEF HasTail
    <3>3. \A j \in last + 1 .. last + k : s[j] = 10 - 1
      BY <2>1, <2>2
    <3> DEFINE t == 10^k
    <3>4. g[last + k] = t * x + r /\ r = t - 1
      BY <3>2, <3>3, Zenon DEF TailIs
    <3>5. t \in Nat
      BY <1>6, <2>2
    <3> HIDE DEF t, x, k
    <3>6. g[n] = t * x + (t - 1)
      BY <2>2, <3>4
    <3>7. (x + 1) * t = t * x + t /\ t * x \in Nat
      BY <2>2, <3>5
    <3>8. g[n] + 1 = (x + 1) * t
      BY <3>5, <3>6, <3>7
    <3> QED BY <3>8 DEF t
  <2>4. h \in [0..n -> Nat] /\ h[0] = 0
    <3>1. \A j \in 0..n : (IF j < last THEN g[j] ELSE (x + 1) * 10^(j - last)) \in Nat
      <4> SUFFICES ASSUME NEW j \in 0..n
                   PROVE  (IF j < last THEN g[j] ELSE (x + 1) * 10^(j - last)) \in Nat
        OBVIOUS
      <4>1. CASE j < last
        BY <1>3, <4>1
      <4>2. CASE ~(j < last)
        <5> DEFINE t == 10^(j - last)
        <5>1. j - last \in Nat
          BY <1>1, <4>2
        <5>2. t \in Nat
          BY <1>6, <5>1
        <5> HIDE DEF t, x
        <5>3. (x + 1) * t \in Nat
          BY <2>2, <5>2
        <5> QED BY <4>2, <5>3 DEF t
      <4> QED BY <4>1, <4>2
    <3>2. 0 \in 0..n /\ 0 < last
      BY <1>1
    <3> HIDE DEF x
    <3> QED BY <1>3, <3>1, <3>2
  <2>5. ASSUME NEW j \in 1..n PROVE h[j] = 10 * h[j - 1] + z[j]
    <3>0. j \in 0..n /\ j - 1 \in 0..n /\ j \in Int /\ last \in Int
      BY <1>1
    <3>1. CASE j < last
      <4>1. h[j] = g[j] /\ h[j - 1] = g[j - 1] /\ z[j] = s[j]
        <5>1. j - 1 < last
          BY <3>0, <3>1
        <5> HIDE DEF x
        <5> QED BY <2>1, <3>0, <3>1, <5>1
      <4> QED BY <1>3, <4>1
    <3>2. CASE j = last
      <4>1. h[j] = (x + 1) * 10^0 /\ h[j - 1] = g[j - 1] /\ z[j] = s[j] + 1
        <5>1. j - 1 < last /\ ~(j < last) /\ j - last = 0
          BY <3>0, <3>2
        <5> HIDE DEF x
        <5> QED BY <2>1, <3>0, <3>2, <5>1
      <4>2. x = 10 * g[j - 1] + s[j] /\ g[j - 1] \in Nat /\ s[j] \in Nat
        BY <1>1, <1>3, <3>0, <3>2
      <4>3. h[j] = x + 1
        <5> HIDE DEF x, h
        <5> QED BY <1>6, <2>2, <4>1
      <4> HIDE DEF x, h
      <4> QED BY <4>1, <4>2, <4>3
    <3>3. CASE j > last
      <4> DEFINE a == (j - 1) - last
                 t == 10^a
      <4>1. a \in Nat /\ j - last = a + 1 /\ ~(j < last) /\ ~(j - 1 < last) /\ j # last
        BY <3>0, <3>3
      <4>2. h[j] = (x + 1) * 10^(a + 1) /\ h[j - 1] = (x + 1) * t /\ z[j] = 0
        <5> HIDE DEF x
        <5>1. h[j] = (x + 1) * 10^(j - last)
          BY <3>0, <4>1
        <5>2. h[j - 1] = (x + 1) * t
          BY <3>0, <4>1
        <5>3. z[j] = 0
          BY <2>1, <4>1
        <5> HIDE DEF h, t, a, z
        <5> QED BY <4>1, <5>1, <5>2, <5>3
      <4> HIDE DEF h, a
      <4>3. t \in Nat /\ 10^(a + 1) = 10 * t
        BY <1>6, <4>1
      <4> HIDE DEF t, x
      <4>4. (x + 1) * (10 * t) = 10 * ((x + 1) * t) /\ (x + 1) * t \in Nat
        BY <2>2, <4>3
      <4> QED BY <4>2, <4>3, <4>4
    <3> QED BY <3>0, <3>1, <3>2, <3>3
  <2>6. h[n] = (x + 1) * 10^k
    BY <1>1, <2>2
  <2>7. DigitsValue(z) = h[n]
    <3> HIDE DEF h
    <3>1. Horner(z, n, 10, h)
      BY <2>4, <2>5 DEF Horner
    <3> HIDE DEF n, z
    <3> QED BY <1>1, <1>5, <3>1, ValueByHorner
  <2> QED BY <1>4, <1>8, <2>3, <2>6, <2>7, Zenon
<1> QED BY <1>7, <1>8

-----------------------------------------------------------------------------
(* Rounding, in integers: front * scale is next to whole, and if two are   *)
(* equally near, front is even.                                            *)
Nearest(front, scale, whole, unseen) ==
  /\ (2 * front - 1) * scale <= 2 * whole
  /\ 2 * whole <= (2 * front + 1) * scale \/ unseen
  /\ 2 * whole <= (2 * front - 1) * scale \/ (2 * front + 1) * scale <= 2 * whole
       => front % 2 = 0

(* whole is front and a digit and a rest, which nonzero tells from nothing *)
(* unless it is unseen; up is what RoundsUp says.                          *)
Split(front, digit, rest, scale, whole) ==
  /\ scale \in Nat \ {0} /\ rest \in 0 .. scale - 1 /\ digit \in 0..9
  /\ whole = scale * (10 * front + digit) + rest

Decision(front, digit, rest, nonzero, unseen, up) ==
  /\ nonzero => rest # 0
  /\ rest # 0 => nonzero \/ unseen
  /\ up <=> digit > 5 \/ (digit = 5 /\ (front % 2 = 1 \/ nonzero))

LEMMA SplitProducts ==
  ASSUME NEW front \in Nat, NEW digit, NEW rest, NEW scale, NEW whole \in Nat,
         Split(front, digit, rest, scale, whole)
  PROVE  \E a, e \in Nat :
           /\ a = front * scale
           /\ whole = 10 * a + e + rest
           /\ digit <= 4 => e <= 4 * scale
           /\ digit = 5 => e = 5 * scale
           /\ digit > 5 => e >= 6 * scale
           /\ e <= 9 * scale
<1> DEFINE a == front * scale
           e == digit * scale
<1>1. scale \in Nat \ {0} /\ digit \in 0..9 /\ rest \in Nat
  BY DEF Split
<1>2. a \in Nat /\ e \in Nat
  BY <1>1
<1>3. whole = 10 * a + e + rest
  <2>1. scale * (10 * front + digit) = 10 * a + e
    BY <1>1
  <2> HIDE DEF a, e
  <2>2. whole = scale * (10 * front + digit) + rest
    BY DEF Split
  <2> QED BY <2>1, <2>2, Zenon
<1>4. /\ digit <= 4 => e <= 4 * scale
      /\ digit = 5 => e = 5 * scale
      /\ digit > 5 => e >= 6 * scale
      /\ e <= 9 * scale
  <2>1. digit <= 4 => digit * scale <= 4 * scale
    BY <1>1, ProductOrder
  <2>2. digit > 5 => digit * scale >= 6 * scale
    <3>1. 6 <= digit <=> 6 * scale <= digit * scale
      BY <1>1, ProductOrder
    <3>2. digit > 5 => 6 <= digit
      BY <1>1
    <3> QED BY <1>1, <3>1, <3>2
  <2>3. digit * scale <= 9 * scale
    BY <1>1, ProductOrder
  <2> QED BY <2>1, <2>2, <2>3
<1> HIDE DEF a, e
<1>5. a = front * scale
  BY DEF a
<1> QED BY <1>2, <1>3, <1>4, <1>5

LEMMA RoundDown ==
  ASSUME NEW front \in Nat, NEW digit, NEW rest, NEW scale, NEW whole \in Nat,
         Split(front, digit, rest, scale, whole), NEW nonzero, NEW unseen, NEW up,
         Decision(front, digit, rest, nonzero, unseen, up), ~up
  PROVE  Nearest(front, 10 * scale, whole, unseen)
<1>1. PICK a \in Nat, e \in Nat :
        /\ a = front * scale
        /\ whole = 10 * a + e + rest
        /\ digit <= 4 => e <= 4 * scale
        /\ digit = 5 => e = 5 * scale
  BY SplitProducts
<1>2. scale \in Nat \ {0} /\ rest \in 0 .. scale - 1 /\ digit \in 0..9
  BY DEF Split
<1>3. /\ (2 * front - 1) * (10 * scale) = 20 * a - 10 * scale
      /\ (2 * front + 1) * (10 * scale) = 20 * a + 10 * scale
  BY <1>1, <1>2
<1>4. digit <= 4 \/ digit = 5
  BY <1>2 DEF Decision
<1>5. digit = 5 => front % 2 # 1 /\ (rest = 0 \/ unseen)
  BY <1>2 DEF Decision
<1>6. digit = 5 => front % 2 = 0
  BY <1>5
<1> DEFINE lo == (2 * front - 1) * (10 * scale)
           hi == (2 * front + 1) * (10 * scale)
<1> HIDE DEF lo, hi
<1>7. lo = 20 * a - 10 * scale /\ hi = 20 * a + 10 * scale
  BY <1>3 DEF lo, hi
<1>8. lo < 2 * whole
  BY <1>1, <1>2, <1>7
<1>9. CASE digit <= 4
  <2>1. 2 * whole < hi
    BY <1>1, <1>2, <1>7, <1>9
  <2>2. 2 * whole \in Int /\ lo \in Int /\ hi \in Int
    BY <1>2, <1>7
  <2> QED BY <1>8, <2>1, <2>2 DEF Nearest, lo, hi
<1>10. CASE digit = 5
  <2>1. rest = 0 => 2 * whole = hi
    BY <1>1, <1>2, <1>7, <1>10
  <2>2. 2 * whole \in Int /\ lo \in Int /\ hi \in Int
    BY <1>2, <1>7
  <2>3. 2 * whole <= hi \/ unseen
    BY <1>5, <1>10, <2>1, <2>2
  <2>4. lo <= 2 * whole
    BY <1>8, <2>2
  <2> QED BY <1>6, <1>10, <2>3, <2>4 DEF Nearest, lo, hi
<1> QED BY <1>4, <1>9, <1>10

LEMMA RoundUp ==
  ASSUME NEW front \in Nat, NEW digit, NEW rest, NEW scale, NEW whole \in Nat,
         Split(front, digit, rest, scale, whole), NEW nonzero, NEW unseen, NEW up,
         Decision(front, digit, rest, nonzero, unseen, up), up
  PROVE  /\ Nearest(front + 1, 10 * scale, whole, unseen)
         /\ \A z \in Nat : front + 1 = 10 * z => Nearest(z, 10 * (10 * scale), whole, unseen)
<1>1. PICK a \in Nat, e \in Nat :
        /\ a = front * scale
        /\ whole = 10 * a + e + rest
        /\ digit = 5 => e = 5 * scale
        /\ digit > 5 => e >= 6 * scale
        /\ e <= 9 * scale
  BY SplitProducts
<1>2. scale \in Nat \ {0} /\ rest \in 0 .. scale - 1 /\ digit \in 0..9
  BY DEF Split
<1>3. digit > 5 \/ digit = 5
  BY <1>2 DEF Decision
<1>4. digit = 5 /\ rest = 0 => front % 2 = 1
  BY <1>2 DEF Decision
<1>5. 20 * a + 10 * scale <= 2 * whole /\ 2 * whole < 20 * a + 20 * scale
  BY <1>1, <1>2, <1>3
<1>6. 2 * whole <= 20 * a + 10 * scale => digit = 5 /\ rest = 0
  BY <1>1, <1>2, <1>3
<1>7. front % 2 = 1 => (front + 1) % 2 = 0
  OBVIOUS
<1>8. Nearest(front + 1, 10 * scale, whole, unseen)
  <2> DEFINE lo == (2 * (front + 1) - 1) * (10 * scale)
             hi == (2 * (front + 1) + 1) * (10 * scale)
  <2>1. lo = 20 * a + 10 * scale /\ hi = 20 * a + 30 * scale
    BY <1>1, <1>2
  <2> HIDE DEF lo, hi
  <2>2. lo <= 2 * whole /\ 2 * whole < hi
    BY <1>2, <1>5, <2>1
  <2>3. 2 * whole <= lo => (front + 1) % 2 = 0
    BY <1>4, <1>6, <1>7, <2>1
  <2>4. 2 * whole \in Int /\ lo \in Int /\ hi \in Int
    BY <1>2, <2>1
  <2>5. 2 * whole <= hi /\ ~(hi <= 2 * whole)
    BY <2>2, <2>4
  <2> QED BY <2>2, <2>3, <2>5 DEF Nearest, lo, hi
<1>9. ASSUME NEW z \in Nat, front + 1 = 10 * z
      PROVE  Nearest(z, 10 * (10 * scale), whole, unseen)
  <2> DEFINE lo == (2 * z - 1) * (10 * (10 * scale))
             hi == (2 * z + 1) * (10 * (10 * scale))
             b == z * scale
  <2>1. lo = 200 * b - 100 * scale /\ hi = 200 * b + 100 * scale /\ b \in Nat
    BY <1>2
  <2>2. a + scale = 10 * b
    <3>1. (front + 1) * scale = (10 * z) * scale
      BY <1>9
    <3>2. (front + 1) * scale = front * scale + scale /\ (10 * z) * scale = 10 * b
      BY <1>2
    <3> QED BY <1>1, <3>1, <3>2
  <2> HIDE DEF lo, hi, b
  <2>3. lo < 2 * whole /\ 2 * whole < hi
    BY <1>2, <1>5, <2>1, <2>2
  <2>4. 2 * whole \in Int /\ lo \in Int /\ hi \in Int
    BY <1>2, <2>1
  <2>5. lo <= 2 * whole /\ ~(2 * whole <= lo) /\ 2 * whole <= hi /\ ~(hi <= 2 * whole)
    BY <2>3, <2>4
  <2> QED BY <2>5 DEF Nearest, lo, hi
<1> QED BY <1>8, <1>9

-----------------------------------------------------------------------------
(* The text while the bigits are written: text has the digits of the first *)
(* j bigits, none in front of them is zero, and e is the exponent of the   *)
(* first digit.                                                            *)
IsBlocks(text, j, e) ==
  /\ j \in 1 .. Len(bigits)
  /\ text \in Seq(0..9) /\ Len(text) \in Nat \ {0} /\ e \in Int
  /\ DigitsValue(text) = Prefix(Whole, Unit, fraction_start - j)
  /\ e - (Len(text) - 1) = (fraction_start - j) * bigit_digits
  /\ 10^(Len(text) - 1) <= DigitsValue(text)

LEMMA PrefixAt ==
  ASSUME PowersAreProducts, ShiftInv
  PROVE  /\ Len(bigits) \in Nat /\ fraction_start \in Int /\ bigit_digits \in Nat \ {0}
         /\ Whole \in Nat /\ Unit \in Nat \ {0}
         /\ Prefix(Whole, Unit, fraction_start) = 0
         /\ \A j \in 1 .. Len(bigits) :
              /\ bigits[j] \in 0 .. bigit_bound - 1
              /\ Prefix(Whole, Unit, fraction_start - j) \in Nat
              /\ Prefix(Whole, Unit, fraction_start - j) =
                   bigit_bound * Prefix(Whole, Unit, fraction_start - (j - 1)) + bigits[j]
<1> DEFINE K == Len(bigits)
           P == fraction_start
           g == PrefixesOf(bigits, P, Whole, Unit)
<1>1. /\ K \in Nat /\ P \in Int /\ bigits \in Bigits
      /\ \A j \in 1..K : bigits[j] \in 0 .. bigit_bound - 1
  BY BigitsAre DEF ShiftInv
<1>2. Whole \in Nat /\ Unit \in Nat \ {0}
  BY WholeAndUnit DEF ShiftInv
<1>3. Horner(bigits, K, bigit_bound, g)
  <2>1. HasFraction(bigits, P, Whole, Unit)
    BY DEF ShiftInv
  <2> QED BY <1>1, <1>2, <2>1, BigitsHorner
<1>4. /\ g[0] = 0 /\ g \in [0..K -> Nat]
      /\ \A j \in 1..K : g[j] = bigit_bound * g[j - 1] + bigits[j]
  <2> HIDE DEF g
  <2> QED BY <1>3 DEF Horner
<1>5. \A j \in 0..K : g[j] = Prefix(Whole, Unit, P - j)
  BY DEF PrefixesOf
<1>6. bigit_digits \in Nat \ {0}
  BY BigitAssumption
<1>7. Prefix(Whole, Unit, P) = 0
  <2>1. 0 \in 0..K /\ P - 0 = P
    BY <1>1
  <2> HIDE DEF g
  <2>2. g[0] = Prefix(Whole, Unit, P - 0)
    BY <1>5, <2>1
  <2> QED BY <1>4, <2>1, <2>2
<1> HIDE DEF g
<1>8. ASSUME NEW j \in 1..K
      PROVE  /\ Prefix(Whole, Unit, P - j) \in Nat
             /\ Prefix(Whole, Unit, P - j) =
                  bigit_bound * Prefix(Whole, Unit, P - (j - 1)) + bigits[j]
  <2>1. j \in 0..K /\ j - 1 \in 0..K
    BY <1>1
  <2>2. g[j] = Prefix(Whole, Unit, P - j) /\ g[j - 1] = Prefix(Whole, Unit, P - (j - 1))
    BY <1>5, <2>1
  <2>3. g[j] \in Nat /\ g[j] = bigit_bound * g[j - 1] + bigits[j]
    BY <1>4, <2>1
  <2> QED BY <2>2, <2>3, Zenon
<1> QED BY <1>1, <1>2, <1>6, <1>7, <1>8

LEMMA FirstText ==
  ASSUME PowersAreProducts, ShiftInv, v # 0, WriteFirst
  PROVE  IsBlocks(buf', bigit_index' - 1, dec_exp')
<1> DEFINE first == IF bigits[1] > 0 THEN 1 ELSE 2
           x == bigits[first]
           P == fraction_start
           n == Len(buf')
<1>1. /\ Len(bigits) \in Nat /\ P \in Int /\ bigit_digits \in Nat \ {0}
      /\ \A j \in 1 .. Len(bigits) : bigits[j] \in 0 .. bigit_bound - 1
  BY PrefixAt
<1>2. first \in 1 .. Len(bigits) /\ x # 0 /\ (first = 2 => bigits[1] = 0) /\ first \in {1, 2}
  <2>1. Leading(bigits) /\ Len(bigits) >= 1
    BY DEF ShiftInv, LeadingBigit
  <2>2. 1 \in 1 .. Len(bigits) /\ bigits[1] \in Nat
    <3>1. 1 \in 1 .. Len(bigits)
      BY <1>1, <2>1
    <3>2. bigits[1] \in 0 .. bigit_bound - 1
      BY <1>1, <3>1
    <3> QED BY <3>1, <3>2, Bound
  <2>3. CASE bigits[1] > 0
    BY <2>2, <2>3
  <2>4. CASE ~(bigits[1] > 0)
    <3>1. bigits[1] = 0 /\ first = 2
      BY <2>2, <2>4
    <3>2. Len(bigits) > 1 /\ bigits[2] # 0
      BY <2>1, <3>1 DEF Leading
    <3>3. 2 \in 1 .. Len(bigits)
      BY <1>1, <3>2
    <3> QED BY <3>1, <3>2, <3>3
  <2> QED BY <2>3, <2>4
<1>3. buf' = FirstBlock(x) /\ bigit_index' = first + 1
      /\ dec_exp' = (P - first) * bigit_digits + n - 1
  BY <1>1, <1>2 DEF WriteFirst
<1>4. x \in 0 .. bigit_bound - 1
  BY <1>1, <1>2
<1> HIDE DEF first
<1>5. x \in Nat /\ x # 0 /\ x \in 0 .. 10^(bigit_digits + 1) - 1
  <2>1. 10^bigit_digits \in Nat \ {0} /\ 10^(bigit_digits + 1) = 10 * 10^bigit_digits
    BY <1>1, TenFacts
  <2> DEFINE t == 10^bigit_digits
  <2>2. x \in 0 .. t - 1
    BY <1>4 DEF bigit_bound
  <2> HIDE DEF t, x
  <2>3. x \in Nat /\ x \in 0 .. (10 * t) - 1
    BY <2>1, <2>2 DEF t
  <2> QED BY <1>2, <2>1, <2>3 DEF t, x
<1> HIDE DEF x
<1>6. buf' \in Seq(0..9) /\ n >= 1 /\ FirstDigits(buf', x)
  BY <1>3, <1>5, FirstBlockIs
<1>7. PICK w \in 1 .. bigit_digits + 1 : buf' = Block(x, w) /\ n = w /\ x < 10^w /\ 10^(w - 1) <= x
  BY <1>5, <1>6 DEF FirstDigits
<1>8. DigitsValue(buf') = x
  <2>1. w \in Nat
    BY <1>1
  <2> QED BY <1>5, <1>7, <2>1, FirstValue
<1>9. Prefix(Whole, Unit, P - first) = x
  <2> DEFINE f(j) == Prefix(Whole, Unit, P - j)
  <2>1. f(0) = 0
    BY PrefixAt, <1>1
  <2>2. \A j \in 1 .. Len(bigits) : f(j) = bigit_bound * f(j - 1) + bigits[j]
    BY PrefixAt
  <2> HIDE DEF f
  <2>3. 1 \in 1 .. Len(bigits) /\ 1 - 1 = 0
    BY <1>1, <1>2
  <2>4. f(1) = bigits[1]
    <3>1. f(1) = bigit_bound * 0 + bigits[1]
      BY <2>1, <2>2, <2>3
    <3>2. bigits[1] \in Int
      BY <1>1, <2>3
    <3> QED BY <3>1, <3>2, Bound
  <2>5. f(first) = bigits[first]
    <3>1. CASE first = 1
      BY <2>4, <3>1
    <3>2. CASE first = 2
      <4>1. 2 \in 1 .. Len(bigits) /\ 2 - 1 = 1 /\ f(1) = 0
        BY <1>2, <2>4, <3>2
      <4>2. f(2) = bigit_bound * 0 + bigits[2]
        BY <2>2, <4>1
      <4>3. bigits[2] \in Int
        BY <1>1, <4>1
      <4> QED BY <3>2, <4>2, <4>3, Bound
    <3> QED BY <1>2, <3>1, <3>2
  <2> QED BY <2>5 DEF f, x
<1>10. n \in Nat \ {0} /\ dec_exp' \in Int
       /\ dec_exp' - (n - 1) = (P - first) * bigit_digits
  <2> DEFINE z == (P - first) * bigit_digits
  <2>1. n \in Nat \ {0}
    BY <1>1, <1>7
  <2>2. z \in Int
    BY <1>1, <1>2
  <2>3. dec_exp' = z + n - 1
    BY <1>3
  <2> HIDE DEF z, n
  <2> QED BY <2>1, <2>2, <2>3 DEF z
<1>11. bigit_index' - 1 = first
  BY <1>2, <1>3
<1>12. 10^(n - 1) <= DigitsValue(buf')
  BY <1>7, <1>8
<1>13. DigitsValue(buf') = Prefix(Whole, Unit, P - first)
  BY <1>8, <1>9
<1> HIDE DEF n
<1>14. IsBlocks(buf', first, dec_exp')
  BY <1>2, <1>6, <1>10, <1>12, <1>13 DEF IsBlocks, n
<1> QED BY <1>11, <1>14

LEMMA BlockText ==
  ASSUME PowersAreProducts, ShiftInv, WriteBlock,
         IsBlocks(buf, bigit_index - 1, dec_exp), bigit_index \in Nat
  PROVE  IsBlocks(buf', bigit_index' - 1, dec_exp')
<1> DEFINE j == bigit_index - 1
           k == bigit_index
           P == fraction_start
           x == bigits[k]
           n == Len(buf)
           D == DigitsValue(buf)
           t == 10^bigit_digits
           f(m) == Prefix(Whole, Unit, P - m)
<1>1. /\ Len(bigits) \in Nat /\ P \in Int /\ bigit_digits \in Nat \ {0}
      /\ \A m \in 1 .. Len(bigits) : bigits[m] \in 0 .. bigit_bound - 1
      /\ \A m \in 1 .. Len(bigits) : f(m) = bigit_bound * f(m - 1) + bigits[m]
  BY PrefixAt
<1>2. /\ j \in 1 .. Len(bigits) /\ buf \in Seq(0..9) /\ n \in Nat \ {0} /\ dec_exp \in Int
      /\ D = f(j) /\ dec_exp - (n - 1) = (P - j) * bigit_digits /\ 10^(n - 1) <= D
  BY DEF IsBlocks
<1>3. /\ k \in 1 .. Len(bigits) /\ buf' = buf \o Block(x, bigit_digits)
      /\ bigit_index' - 1 = k /\ dec_exp' = dec_exp /\ k - 1 = j
  BY <1>1, <1>2 DEF WriteBlock
<1>4. t \in Nat \ {0} /\ x \in Nat /\ x < t /\ bigit_bound = t
  <2>1. t \in Nat \ {0}
    BY <1>1, TenFacts
  <2>2. x \in 0 .. t - 1
    BY <1>1, <1>3 DEF bigit_bound
  <2> HIDE DEF t, x
  <2>3. x \in Nat /\ x < t
    BY <2>1, <2>2
  <2> QED BY <2>1, <2>3 DEF bigit_bound, t
<1> HIDE DEF f
<1>5. /\ buf' \in Seq(0..9) /\ Len(buf') = n + bigit_digits
      /\ DigitsValue(buf') = t * D + x
  <2> HIDE DEF x
  <2>1. bigit_digits \in Nat /\ x < 10^bigit_digits /\ x \in Nat
    BY <1>1, <1>4 DEF t
  <2> QED BY <1>2, <1>3, <2>1, AppendedValue
<1>6. f(k) = t * D + x
  <2>1. f(k) = bigit_bound * f(k - 1) + bigits[k]
    BY <1>1, <1>3
  <2>2. f(k - 1) = D
    BY <1>2, <1>3
  <2> HIDE DEF t, k, D, j
  <2> QED BY <1>4, <2>1, <2>2, Zenon DEF x
<1>7. D \in Nat
  BY <1>2, TextHorner
<1>8. Len(buf') \in Nat \ {0} /\ dec_exp' - (Len(buf') - 1) = (P - k) * bigit_digits
  <2> DEFINE w == bigit_digits
             a == (P - j) * w
             b == (P - k) * w
  <2>1. b = a - w /\ a \in Int /\ b \in Int
    <3>1. P - k = (P - j) - 1 /\ P - j \in Int /\ w \in Int
      BY <1>1, <1>2
    <3> DEFINE y == P - j
    <3> HIDE DEF y, w
    <3>2. (y - 1) * w = y * w - w /\ y * w \in Int /\ (y - 1) * w \in Int
      BY <3>1 DEF y
    <3> QED BY <3>1, <3>2 DEF y
  <2>2. dec_exp - (n - 1) = a /\ w \in Nat
    BY <1>1, <1>2
  <2> HIDE DEF a, b, w, n
  <2>3. Len(buf') = n + w /\ n \in Nat \ {0} /\ dec_exp \in Int
    BY <1>2, <1>5 DEF w, n
  <2>4. dec_exp' - (Len(buf') - 1) = b /\ Len(buf') \in Nat \ {0}
    BY <1>3, <2>1, <2>2, <2>3
  <2> QED BY <2>4 DEF b, w
<1>9. 10^(Len(buf') - 1) <= DigitsValue(buf')
  <2> DEFINE p == 10^(n - 1)
  <2>1. Len(buf') - 1 = bigit_digits + (n - 1) /\ n - 1 \in Nat
    BY <1>1, <1>2, <1>5
  <2>2. 10^(bigit_digits + (n - 1)) = t * p /\ p \in Nat
    BY <1>1, <2>1, TenFacts
  <2>3. p <= D
    BY <1>2
  <2> HIDE DEF t, p, D, x, n
  <2>4. t * p <= t * D
    <3>1. p * t <= D * t
      BY <1>4, <1>7, <2>2, <2>3, ProductOrder
    <3>2. p * t = t * p /\ D * t = t * D
      BY <1>4, <1>7, <2>2
    <3> QED BY <3>1, <3>2
  <2>5. t * p <= t * D + x
    <3> DEFINE y == t * p
               z == t * D
    <3>1. y <= z /\ y \in Nat /\ z \in Nat
      BY <1>4, <1>7, <2>2, <2>4
    <3> HIDE DEF y, z
    <3>2. y <= z + x
      BY <1>4, <3>1
    <3> QED BY <3>2 DEF y, z
  <2>6. 10^(Len(buf') - 1) = t * p
    BY <2>1, <2>2, Zenon
  <2> QED BY <1>5, <2>5, <2>6
<1>10. DigitsValue(buf') = f(k)
  BY <1>5, <1>6, Zenon
<1> HIDE DEF k
<1>11. IsBlocks(buf', k, dec_exp')
  BY <1>2, <1>3, <1>5, <1>8, <1>9, <1>10 DEF IsBlocks, f
<1> QED BY <1>3, <1>11, Zenon

-----------------------------------------------------------------------------
(* The finished text: the argument is whole * 10^(-places), and the text   *)
(* is that decimal or the nearest one with enough digits.                  *)
Behind(text, e, places) == (e - (Len(text) - 1)) + places

IsExactly(text, e, whole, places) ==
  DigitsValue(text) = whole /\ Behind(text, e, places) = 0

IsText(text, e, whole, places) ==
  /\ whole \in Nat /\ places \in Nat
  /\ IsDecimal(BinSig(value), BinExp(value), whole, places)
  /\ text \in Seq(0..9) /\ Len(text) \in Nat /\ e \in Int
  /\ DigitsValue(text) \in Nat \ {0}
  /\ Behind(text, e, places) \in Nat
  /\ Nearest(DigitsValue(text), 10^Behind(text, e, places), whole, TailUnseen)
  /\ IsExactly(text, e, whole, places) \/ 10^(precision - 1) <= DigitsValue(text)

LEMMA ExactText ==
  ASSUME PowersAreProducts, NEW text \in Seq(0..9), NEW e \in Int,
         NEW whole \in Nat \ {0}, NEW places \in Nat,
         IsDecimal(BinSig(value), BinExp(value), whole, places),
         IsExactly(text, e, whole, places)
  PROVE  IsText(text, e, whole, places)
<1> DEFINE D == DigitsValue(text)
           n == Behind(text, e, places)
<1>1. D = whole /\ n = 0
  BY DEF IsExactly
<1>2. 10^n = 1
  <2> HIDE DEF n
  <2> QED BY <1>1, TenFacts
<1>3. Len(text) \in Nat
  BY TextHorner
<1>4. Nearest(D, 1, whole, TailUnseen)
  <2>1. /\ (2 * whole - 1) * 1 <= 2 * whole /\ 2 * whole <= (2 * whole + 1) * 1
        /\ ~(2 * whole <= (2 * whole - 1) * 1) /\ ~((2 * whole + 1) * 1 <= 2 * whole)
    OBVIOUS
  <2> HIDE DEF D
  <2> QED BY <1>1, <2>1 DEF Nearest
<1> HIDE DEF D, n
<1>5. D \in Nat \ {0} /\ n \in Nat /\ Nearest(D, 10^n, whole, TailUnseen)
  BY <1>1, <1>2, <1>4
<1> QED BY <1>3, <1>5 DEF IsText, D, n

LEMMA KeepText ==
  ASSUME PowersAreProducts, ShiftInv, pc # "shift", ~IsZero(value), Keep,
         IsBlocks(buf, bigit_index - 1, dec_exp), bigit_index \in Nat
  PROVE  IsText(buf, dec_exp, Integer, Digits) /\ IsExactly(buf, dec_exp, Integer, Digits)
<1> DEFINE j == bigit_index - 1
           K == Len(bigits)
           P == fraction_start
           n == Len(buf)
<1>1. K \in Nat /\ P \in Int /\ bigit_digits \in Nat
  BY PrefixAt
<1>2. /\ j \in 1..K /\ buf \in Seq(0..9) /\ n \in Nat \ {0} /\ dec_exp \in Int
      /\ DigitsValue(buf) = Prefix(Whole, Unit, P - j)
      /\ dec_exp - (n - 1) = (P - j) * bigit_digits
      /\ 10^(n - 1) <= DigitsValue(buf)
  BY DEF IsBlocks
<1>3. j = K
  <2>1. precision \in Nat
    BY BigitAssumption
  <2>2. bigit_index > K
    BY <1>2, <2>1 DEF Keep, Finished
  <2> QED BY <1>1, <1>2, <2>2
<1>4. /\ K - P \in Nat /\ Digits \in Nat /\ Integer \in Nat
      /\ IsDecimal(BinSig(value), BinExp(value), Integer, Digits)
  BY BigitsDecimal
<1>5. DigitsValue(buf) = Integer
  BY <1>2, <1>3 DEF Integer
<1>6. Behind(buf, dec_exp, Digits) = 0
  <2> DEFINE w == bigit_digits
             y == K - P
             a == (P - j) * w
  <2>1. P - j = 0 - y /\ y \in Nat
    BY <1>1, <1>3, <1>4
  <2> HIDE DEF w, y
  <2>2. (0 - y) * w = 0 - w * y /\ w * y \in Int
    BY <1>1, <2>1 DEF w
  <2>3. a = 0 - w * y
    BY <2>1, <2>2
  <2>4. Digits = w * y
    BY DEF Digits, w, y
  <2>5. Behind(buf, dec_exp, Digits) = a + Digits
    BY <1>2 DEF Behind, w
  <2> HIDE DEF a
  <2> QED BY <1>4, <2>3, <2>4, <2>5
<1>7. Integer \in Nat \ {0}
  <2> DEFINE t == 10^(n - 1)
  <2>1. t \in Nat \ {0}
    <3>1. n - 1 \in Nat
      BY <1>2
    <3> QED BY <3>1, TenFacts
  <2>2. t <= Integer
    BY <1>2, <1>5
  <2> HIDE DEF t
  <2> QED BY <1>4, <2>1, <2>2
<1>8. IsExactly(buf, dec_exp, Integer, Digits)
  BY <1>5, <1>6 DEF IsExactly
<1> QED BY <1>2, <1>4, <1>7, <1>8, ExactText

LEMMA ZerosAppended ==
  ASSUME PowersAreProducts, NEW s \in Seq(0..9), NEW z \in Nat
  PROVE  /\ s \o [j \in 1..z |-> 0] \in Seq(0..9)
         /\ Len(s \o [j \in 1..z |-> 0]) = Len(s) + z
         /\ DigitsValue(s \o [j \in 1..z |-> 0]) = DigitsValue(s) * 10^z
<1> DEFINE b == Block(0, z)
           t == 10^z
<1>1. b = [j \in 1..z |-> 0]
  <2>1. \A j \in 1..z : (0 \div 10^(z - j)) % 10 = 0
    <3> SUFFICES ASSUME NEW j \in 1..z PROVE (0 \div 10^(z - j)) % 10 = 0
      OBVIOUS
    <3> DEFINE u == 10^(z - j)
    <3>1. u \in Nat \ {0}
      <4>1. z - j \in Nat
        OBVIOUS
      <4> QED BY <4>1, TenFacts
    <3> HIDE DEF u
    <3>2. 0 \div u = 0
      BY <3>1
    <3>3. (0 \div u) % 10 = 0
      BY <3>2
    <3> QED BY <3>3 DEF u
  <2> QED BY <2>1 DEF Block
<1>2. t \in Nat \ {0}
  BY TenFacts
<1> DEFINE D == DigitsValue(s)
<1>3. D \in Nat
  BY TextHorner
<1> HIDE DEF b
<1>4. /\ s \o b \in Seq(0..9) /\ Len(s \o b) = Len(s) + z
      /\ DigitsValue(s \o b) = t * D + 0
  <2>1. 0 < 10^z /\ 0 \in Nat
    BY <1>2
  <2> QED BY <2>1, AppendedValue DEF b
<1> HIDE DEF t, D
<1>5. t * D + 0 = D * t
  BY <1>2, <1>3
<1>6. DigitsValue(s \o b) = D * t
  BY <1>4, <1>5
<1> QED BY <1>1, <1>4, <1>6 DEF t, D

HasText(text, e) == \E whole, places \in Nat : IsText(text, e, whole, places)

LEMMA WriteText ==
  ASSUME PowersAreProducts, buf \in Seq(0..9), Write,
         NEW whole \in Nat, NEW places \in Nat, IsText(buf, dec_exp, whole, places),
         BinSig(value) \in Nat, BinExp(value) \in Int,
         Len(buf) = precision \/ IsExactly(buf, dec_exp, whole, places)
  PROVE  HasText(buf', dec_exp)
<1>1. CASE buf' = buf
  BY <1>1 DEF HasText
<1>2. CASE buf' # buf
  <2>1. PICK z \in Nat : /\ Len(buf) + z <= precision /\ z # 0
                         /\ buf' = buf \o [j \in 1..z |-> 0]
    BY <1>2, WriteDigits
  <2> DEFINE n == Len(buf)
             D == DigitsValue(buf)
             t == 10^z
             x == whole * t
             y == places + z
  <2>2. n \in Nat /\ precision \in Nat /\ dec_exp \in Int
    BY BigitAssumption DEF IsText
  <2>3. IsExactly(buf, dec_exp, whole, places)
    BY <2>1, <2>2
  <2>4. D = whole /\ Behind(buf, dec_exp, places) = 0 /\ D \in Nat \ {0}
    BY <2>3 DEF IsExactly, IsText
  <2>5. t \in Nat \ {0}
    BY TenFacts
  <2>6. buf' \in Seq(0..9) /\ Len(buf') = n + z /\ DigitsValue(buf') = D * t
    BY <2>1, ZerosAppended
  <2>7. IsDecimal(BinSig(value), BinExp(value), x, y)
    BY DecimalPadded DEF IsText
  <2>8. x \in Nat \ {0} /\ y \in Nat /\ DigitsValue(buf') = x
    <3> HIDE DEF t, D
    <3>1. whole \in Nat \ {0}
      BY <2>4
    <3> QED BY <2>4, <2>5, <2>6, <3>1
  <2> HIDE DEF x, y
  <2>9. Behind(buf', dec_exp, y) = 0
    <3>1. (dec_exp - (n - 1)) + places = 0
      BY <2>4 DEF Behind
    <3>2. Behind(buf', dec_exp, y) = (dec_exp - ((n + z) - 1)) + y
      BY <2>6 DEF Behind
    <3> HIDE DEF n
    <3> QED BY <2>2, <3>1, <3>2 DEF y, n
  <2>10. IsText(buf', dec_exp, x, y)
    <3>1. IsExactly(buf', dec_exp, x, y)
      BY <2>8, <2>9 DEF IsExactly
    <3> QED BY <2>2, <2>6, <2>7, <2>8, <3>1, ExactText
  <2> QED BY <2>8, <2>10 DEF HasText
<1> QED BY <1>1, <1>2

(* Rounding keeps precision digits of the blocks.                          *)
Parts(x, size, front, rest) == x = size * front + rest
CutParts(x, size, front, digit, rest) == x = size * (10 * front + digit) + rest

LEMMA KeptSplit ==
  ASSUME PowersAreProducts, NEW a \in Nat \ {0}, NEW b \in Nat \ {0}, NEW front \in Nat,
         NEW digit \in 0..9, NEW x \in Nat, NEW r1 \in 0 .. a - 1, NEW r2 \in 0 .. b - 1,
         CutParts(x, a, front, digit, r1), NEW whole, Parts(whole, b, x, r2)
  PROVE  Split(front, digit, b * r1 + r2, b * a, whole)
<1> DEFINE f == 10 * front + digit
           af == a * f
           br == b * r1
           baf == b * af
<1>1. f \in Nat /\ af \in Nat /\ br \in Nat /\ baf \in Nat /\ b * a \in Nat \ {0}
  <2>1. f \in Nat
    OBVIOUS
  <2> HIDE DEF f
  <2>2. af \in Nat
    BY <2>1
  <2> HIDE DEF af
  <2> QED BY <2>1, <2>2
<1>2. baf = (b * a) * f
  <2>1. f \in Nat
    OBVIOUS
  <2> HIDE DEF f
  <2> QED BY <2>1
<1>3. whole = (b * a) * f + (br + r2)
  <2>1. x = af + r1 /\ whole = b * x + r2
    BY Zenon DEF Parts, CutParts
  <2> HIDE DEF f, af
  <2>2. b * (af + r1) = baf + br
    BY <1>1
  <2>3. whole = (baf + br) + r2
    BY <2>1, <2>2
  <2> HIDE DEF baf, br
  <2>4. whole = baf + (br + r2)
    BY <1>1, <2>3
  <2> QED BY <1>2, <2>4, Zenon
<1>4. br + r2 \in 0 .. (b * a) - 1
  BY NestedRange
<1>5. Split(front, digit, br + r2, b * a, whole)
  <2> DEFINE ba == b * a
             rr == br + r2
  <2>1. whole = ba * f + rr /\ rr \in 0 .. ba - 1 /\ ba \in Nat \ {0}
    BY <1>1, <1>3, <1>4
  <2> HIDE DEF ba, rr
  <2>2. Split(front, digit, rr, ba, whole)
    BY <2>1 DEF Split
  <2> QED BY <2>2 DEF ba, rr
<1> QED BY <1>5

(* The digits kept are as many as the text had, less those cut off.        *)
LEMMA KeptSize ==
  ASSUME PowersAreProducts, NEW s \in Seq(0..9), NEW p \in Nat \ {0}, p < Len(s),
         10^(Len(s) - 1) <= DigitsValue(s), NEW front \in Nat, s[p + 1] \in 0..9,
         HasCut(s, p, front)
  PROVE  10^(p - 1) <= front
<1> DEFINE n == Len(s)
           k == n - (p + 1)
           a == 10^k
           q == 10^(p - 1)
           h == s[p + 1]
           x == DigitsValue(s)
<1>1. n \in Nat /\ k \in Nat /\ p - 1 \in Nat /\ n - 1 = (k + 1) + (p - 1)
  BY LenProperties
<1>2. a \in Nat \ {0} /\ q \in Nat /\ 10^(n - 1) = (10 * a) * q
  <2>1. 10^(k + 1) = 10 * 10^k /\ 10^((k + 1) + (p - 1)) = 10^(k + 1) * 10^(p - 1)
        /\ 10^k \in Nat \ {0} /\ 10^(p - 1) \in Nat
    <3> HIDE DEF k
    <3>1. 10^k \in Nat \ {0} /\ 10^(p - 1) \in Nat /\ 10^(k + 1) = 10 * 10^k
      BY <1>1, TenFacts
    <3>2. k + 1 \in Nat
      BY <1>1
    <3>3. 10^((k + 1) + (p - 1)) = 10^(k + 1) * 10^(p - 1)
      BY <1>1, <3>2, TenFacts
    <3> QED BY <3>1, <3>3
  <2> QED BY <1>1, <2>1, Zenon
<1>3. PICK r : r \in 0 .. a - 1 /\ x = a * (10 * front + h) + r
  BY DEF HasCut, IsCut
<1> HIDE DEF a, q, h, x
<1>4. x < (10 * a) * (front + 1)
  <2> DEFINE f == a * front
             ah == a * h
  <2>1. a * (10 * front + h) = 10 * f + ah /\ f \in Nat /\ ah <= 9 * a /\ ah \in Nat
    <3>1. h \in 0..9
      BY DEF h
    <3>2. h * a <= 9 * a /\ h * a = a * h
      BY <1>2, <3>1, ProductOrder
    <3> QED BY <1>2, <3>1, <3>2
  <2>2. (10 * a) * (front + 1) = 10 * f + 10 * a
    BY <1>2
  <2> HIDE DEF f, ah
  <2> QED BY <1>2, <1>3, <2>1, <2>2
<1>5. (10 * a) * q <= x
  BY <1>2 DEF x
<1> DEFINE t == 10 * a
<1>6. t \in Nat \ {0} /\ t * q \in Nat /\ x \in Int
  <2>1. x \in Nat
    BY TextHorner DEF x
  <2> QED BY <1>2, <2>1
<1>7. t * q < t * (front + 1)
  <2> DEFINE l == t * q
             r1 == t * (front + 1)
  <2>1. l <= x /\ x < r1 /\ l \in Int /\ r1 \in Int
    BY <1>4, <1>5, <1>6
  <2> HIDE DEF l, r1
  <2>2. l < r1
    BY <1>6, <2>1
  <2> QED BY <2>2 DEF l, r1
<1> HIDE DEF t
<1>8. q * t < (front + 1) * t
  <2>1. q * t = t * q /\ (front + 1) * t = t * (front + 1)
    BY <1>2, <1>6
  <2> QED BY <1>7, <2>1
<1>9. q < front + 1
  BY <1>2, <1>6, <1>8, ProductOrder
<1>10. q <= front
  BY <1>2, <1>9
<1> QED BY <1>10 DEF q

Kept == SubSeq(buf, 1, precision)

RoundsTo(rest, scale) ==
  /\ Split(DigitsValue(Kept), buf[precision + 1], rest, scale, Integer)
  /\ Decision(DigitsValue(Kept), buf[precision + 1], rest, has_nonzero, TailUnseen, RoundsUp)
  /\ Behind(Kept, dec_exp, Digits) \in Nat
  /\ 10^Behind(Kept, dec_exp, Digits) = 10 * scale

HasRounding == \E rest, scale : RoundsTo(rest, scale)

LEMMA RoundParts ==
  ASSUME PowersAreProducts, ShiftInv, pc # "shift", ~IsZero(value), Round,
         IsBlocks(buf, bigit_index - 1, dec_exp), bigit_index \in Nat
  PROVE  /\ HasRounding
         /\ 10^(precision - 1) <= DigitsValue(Kept)
<1> DEFINE j == bigit_index - 1
           K == Len(bigits)
           P == fraction_start
           n == Len(buf)
           p == precision
           h == buf[p + 1]
           D0 == DigitsValue(Kept)
           x == DigitsValue(buf)
           k == n - (p + 1)
           a == 10^k
           m == K - j
           b == bigit_bound^m
           y == b * a
<1>1. K \in Nat /\ P \in Int /\ bigit_digits \in Nat /\ p \in Nat \ {0}
      /\ Whole \in Nat /\ Unit \in Nat \ {0}
  BY PrefixAt, BigitAssumption
<1>2. /\ j \in 1..K /\ buf \in Seq(0..9) /\ n \in Nat \ {0} /\ dec_exp \in Int
      /\ x = Prefix(Whole, Unit, P - j)
      /\ dec_exp - (n - 1) = (P - j) * bigit_digits
      /\ 10^(n - 1) <= x
  BY DEF IsBlocks
<1>3. p < n /\ k \in Nat /\ m \in Nat /\ h \in 0..9 /\ p + 1 \in 1..n
  <2>1. n > p
    BY DEF Round
  <2>2. p + 1 \in 1..n
    BY <1>1, <1>2, <2>1
  <2>3. h \in 0..9
    BY <1>2, <2>2, LenProperties
  <2> QED BY <1>1, <1>2, <2>1, <2>2, <2>3
<1>4. /\ Kept \in Seq(0..9) /\ Len(Kept) = p
      /\ \A l \in 1..p : Kept[l] = buf[l]
  BY <1>2, RoundDigits DEF Kept
<1>5. HasCut(buf, p, D0) /\ D0 % 2 = buf[p] % 2 /\ D0 \in Nat
  BY <1>1, <1>2, <1>3, <1>4, KeptValue, TextHorner
<1>6. 10^(p - 1) <= D0
  BY <1>1, <1>2, <1>3, <1>5, KeptSize
<1>7. /\ K - P \in Nat /\ Digits \in Nat /\ Integer \in Nat
  BY BigitsDecimal
<1>8. HasRest(bigits, j, Integer, x)
  <2>1. j \in 0..K /\ bigits \in Bigits /\ HasFraction(bigits, P, Whole, Unit)
    BY <1>1, <1>2 DEF ShiftInv
  <2>2. HasRest(bigits, j, Prefix(Whole, Unit, P - K), Prefix(Whole, Unit, P - j))
    BY <1>1, <2>1, BigitsRest
  <2> QED BY <1>2, <2>2, Zenon DEF Integer
<1>9. PICK r1 : IsCut(buf, p, D0, r1)
  BY <1>5 DEF HasCut
<1>10. /\ r1 \in 0 .. a - 1 /\ CutParts(x, a, D0, h, r1)
       /\ r1 = 0 <=> \A l \in p + 2 .. n : buf[l] = 0
  BY <1>9, Zenon DEF IsCut, CutParts
<1>11. PICK r2 \in 0 .. b - 1 :
         /\ Parts(Integer, b, x, r2)
         /\ r2 = 0 <=> \A l \in j + 1 .. K : bigits[l] = 0
  BY <1>8, Zenon DEF HasRest, Parts
<1>12. a \in Nat \ {0} /\ b \in Nat \ {0} /\ x \in Nat
  BY <1>2, <1>3, TenFacts, BoundPower, TextHorner
<1> DEFINE rest == b * r1 + r2
<1>13. /\ Split(D0, h, rest, y, Integer)
       /\ rest = 0 <=> r1 = 0 /\ r2 = 0
  <2> HIDE DEF a, b, x, D0, h
  <2>1. /\ a \in Nat \ {0} /\ b \in Nat \ {0} /\ D0 \in Nat /\ h \in 0..9 /\ x \in Nat
        /\ r1 \in 0 .. a - 1 /\ r2 \in 0 .. b - 1
        /\ CutParts(x, a, D0, h, r1) /\ Parts(Integer, b, x, r2)
    BY <1>3, <1>5, <1>10, <1>11, <1>12
  <2>2. Split(D0, h, b * r1 + r2, b * a, Integer)
    BY <2>1, KeptSplit
  <2>3. b * r1 + r2 = 0 <=> r1 = 0 /\ r2 = 0
    <3>1. r1 \in Nat /\ r2 \in Nat /\ b \in Nat \ {0}
      BY <2>1
    <3> DEFINE br == b * r1
    <3>2. br \in Nat /\ (r1 = 0 <=> br = 0)
      BY <3>1
    <3> HIDE DEF br
    <3>3. br + r2 = 0 <=> br = 0 /\ r2 = 0
      BY <3>1, <3>2
    <3> QED BY <3>2, <3>3 DEF br
  <2> QED BY <2>2, <2>3
<1> HIDE DEF rest
<1>14. Decision(D0, h, rest, has_nonzero, TailUnseen, RoundsUp)
  <2>1. has_nonzero => rest # 0
    <3> SUFFICES ASSUME has_nonzero PROVE rest # 0
      OBVIOUS
    <3>1. CASE \E l \in p + 2 .. Len(buf) : buf[l] # 0
      BY <1>10, <1>13, <3>1
    <3>2. CASE \E l \in bigit_index + 1 .. K : bigits[l] # 0
      <4>1. PICK l \in bigit_index + 1 .. K : bigits[l] # 0
        BY <3>2
      <4>2. l \in j + 1 .. K
        BY <1>1, <1>2
      <4> QED BY <1>11, <1>13, <4>1, <4>2
    <3> QED BY <3>1, <3>2 DEF has_nonzero
  <2>2. rest # 0 => has_nonzero \/ TailUnseen
    <3> SUFFICES ASSUME rest # 0, ~has_nonzero PROVE TailUnseen
      OBVIOUS
    <3>1. \A l \in p + 2 .. n : buf[l] = 0
      BY DEF has_nonzero
    <3>2. \A l \in bigit_index + 1 .. K : bigits[l] = 0
      BY DEF has_nonzero
    <3>3. r2 # 0
      BY <1>10, <1>13, <3>1
    <3>4. PICK l \in j + 1 .. K : bigits[l] # 0
      BY <1>11, <3>3
    <3>5. l = bigit_index
      <4>1. ~(l \in bigit_index + 1 .. K)
        BY <3>2, <3>4
      <4> QED BY <1>1, <1>2, <4>1
    <3>6. l \in DOMAIN bigits
      <4>1. l \in 1..K
        BY <1>1, <1>2
      <4>2. DOMAIN bigits = 1..K
        BY BigitsAre DEF ShiftInv
      <4> QED BY <4>1, <4>2
    <3> QED BY <3>2, <3>4, <3>5, <3>6 DEF TailUnseen
  <2>3. RoundsUp <=> h > 5 \/ (h = 5 /\ (D0 % 2 = 1 \/ has_nonzero))
    BY <1>5, Zenon DEF RoundsUp
  <2> QED BY <2>1, <2>2, <2>3 DEF Decision
<1>15. Behind(Kept, dec_exp, Digits) = bigit_digits * m + (k + 1)
  <2> DEFINE w == bigit_digits
             u == P - j
             z == K - P
  <2>1. m = u + z /\ u \in Int /\ z \in Int /\ n = (k + 1) + p
    BY <1>1, <1>2, <1>3
  <2>2. Digits = w * z /\ dec_exp = u * w + (n - 1)
    <3> DEFINE uw == u * w
    <3>1. uw \in Int /\ dec_exp - (n - 1) = uw
      BY <1>1, <1>2
    <3> HIDE DEF uw, n, u
    <3>2. dec_exp = uw + (n - 1)
      BY <1>2, <3>1 DEF n
    <3> QED BY <3>2 DEF Digits, uw
  <2>3. Behind(Kept, dec_exp, Digits) = (dec_exp - (p - 1)) + Digits
    BY <1>4 DEF Behind
  <2> HIDE DEF w, u, z, n, k, m
  <2>4. w * m = u * w + w * z /\ u * w \in Int /\ w * z \in Int
    BY <1>1, <2>1 DEF w
  <2> DEFINE uw == u * w
             wz == w * z
             wm == w * m
  <2>5. /\ Digits = wz /\ dec_exp = uw + (n - 1) /\ wm = uw + wz
        /\ uw \in Int /\ wz \in Int /\ n \in Int /\ k \in Int /\ p \in Int
    BY <1>1, <1>2, <1>3, <2>2, <2>4 DEF n, k
  <2> HIDE DEF uw, wz, wm
  <2>6. Behind(Kept, dec_exp, Digits) = wm + (k + 1)
    BY <2>1, <2>3, <2>5
  <2> QED BY <2>6 DEF wm, w
<1>16. 10^(bigit_digits * m + (k + 1)) = 10 * y /\ bigit_digits * m + (k + 1) \in Nat
  <2> DEFINE wm == bigit_digits * m
  <2>1. wm \in Nat /\ b = 10^wm
    BY <1>3, BoundIsTens
  <2> HIDE DEF m, k, wm
  <2>2. k + 1 \in Nat /\ 10^(k + 1) = 10 * 10^k
    BY <1>3, TenFacts
  <2>3. 10^(wm + (k + 1)) = 10^wm * 10^(k + 1)
    BY <2>1, <2>2, TenFacts
  <2>4. 10^(wm + (k + 1)) = b * (10 * a)
    BY <2>1, <2>2, <2>3, Zenon
  <2> HIDE DEF a, b
  <2>5. b * (10 * a) = 10 * (b * a)
    BY <1>12
  <2> QED BY <2>1, <2>2, <2>4, <2>5 DEF wm
<1>17. RoundsTo(rest, y)
  <2>1. Behind(Kept, dec_exp, Digits) \in Nat /\ 10^Behind(Kept, dec_exp, Digits) = 10 * y
    <3> DEFINE e == bigit_digits * m + (k + 1)
    <3> HIDE DEF e, y
    <3>1. Behind(Kept, dec_exp, Digits) = e
      BY <1>15 DEF e
    <3>2. e \in Nat /\ 10^e = 10 * y
      BY <1>16 DEF e
    <3> QED BY <3>1, <3>2
  <2> HIDE DEF y, rest
  <2> QED BY <1>13, <1>14, <2>1 DEF RoundsTo
<1> QED BY <1>6, <1>17 DEF HasRounding

LEMMA RoundText ==
  ASSUME PowersAreProducts, ShiftInv, pc # "shift", ~IsZero(value), Round,
         IsBlocks(buf, bigit_index - 1, dec_exp), bigit_index \in Nat
  PROVE  IsText(buf', dec_exp', Integer, Digits) /\ Len(buf') = precision
<1> DEFINE p == precision
           D0 == DigitsValue(Kept)
           e == Behind(Kept, dec_exp, Digits)
           h == buf[p + 1]
           nines == \A l \in DOMAIN Kept : Kept[l] = 9
           D == DigitsValue(buf')
           E == Behind(buf', dec_exp', Digits)
           q == 10^(p - 1)
<1>1. p \in Nat \ {0} /\ buf \in Seq(0..9) /\ dec_exp \in Int
  BY BigitAssumption DEF IsBlocks
<1>2. /\ Kept \in Seq(0..9) /\ Len(Kept) = p
      /\ buf' \in Seq(0..9) /\ Len(buf') = p
  BY <1>1, RoundDigits DEF Kept
<1>3. /\ buf' = IF RoundsUp THEN Incremented(Kept) ELSE Kept
      /\ dec_exp' = IF RoundsUp /\ nines THEN dec_exp + 1 ELSE dec_exp
  BY DEF Round, Kept
<1>4. PICK rest, scale : RoundsTo(rest, scale)
  BY RoundParts DEF HasRounding
<1>5. /\ Split(D0, h, rest, scale, Integer)
      /\ Decision(D0, h, rest, has_nonzero, TailUnseen, RoundsUp)
      /\ e \in Nat /\ 10^e = 10 * scale
  BY <1>4 DEF RoundsTo
<1>6. q <= D0 /\ q \in Nat \ {0} /\ D0 \in Nat
  <2>1. p - 1 \in Nat
    BY <1>1
  <2> QED BY <1>2, <2>1, RoundParts, TenFacts, TextHorner
<1>7. /\ Digits \in Nat /\ Integer \in Nat
      /\ IsDecimal(BinSig(value), BinExp(value), Integer, Digits)
  BY BigitsDecimal
<1>8. Behind(Kept, dec_exp, Digits) = (dec_exp - (p - 1)) + Digits
  BY <1>2 DEF Behind
<1>9. Behind(buf', dec_exp', Digits) = (dec_exp' - (p - 1)) + Digits
  BY <1>2 DEF Behind
<1>10. E \in Nat /\ dec_exp' \in Int /\ q <= D /\ D \in Nat \ {0}
       /\ Nearest(D, 10^E, Integer, TailUnseen)
  <2> HIDE DEF q, e, D0, h, nines
  <2>1. CASE ~RoundsUp
    <3>1. D = D0 /\ dec_exp' = dec_exp
      BY <1>3, <2>1 DEF D0
    <3>2. E = e
      BY <1>8, <1>9, <3>1 DEF e
    <3>3. Nearest(D0, 10 * scale, Integer, TailUnseen)
      BY <1>5, <1>6, <1>7, <2>1, RoundDown
    <3>4. Nearest(D, 10^E, Integer, TailUnseen)
      <4> HIDE DEF D, E
      <4> QED BY <1>5, <3>1, <3>2, <3>3, Zenon
    <3> HIDE DEF D, E
    <3> QED BY <1>1, <1>5, <1>6, <3>1, <3>2, <3>4
  <2>2. CASE RoundsUp
    <3>1. /\ Nearest(D0 + 1, 10 * scale, Integer, TailUnseen)
          /\ \A z \in Nat : D0 + 1 = 10 * z =>
               Nearest(z, 10 * (10 * scale), Integer, TailUnseen)
      BY <1>5, <1>6, <1>7, <2>2, RoundUp
    <3>2. IF nines THEN D0 + 1 = 10^Len(Kept) /\ DigitsValue(Incremented(Kept)) = 10^(Len(Kept) - 1)
          ELSE DigitsValue(Incremented(Kept)) = D0 + 1
      <4>1. Len(Kept) # 0
        BY <1>1, <1>2
      <4> QED BY <1>2, <4>1, IncrementedValue DEF D0, nines
    <3>3. buf' = Incremented(Kept)
      BY <1>3, <2>2
    <3>4. CASE ~nines
      <4>1. D = D0 + 1 /\ dec_exp' = dec_exp
        BY <1>3, <3>2, <3>3, <3>4
      <4>2. E = e
        BY <1>8, <1>9, <4>1 DEF e
      <4>3. Nearest(D, 10^E, Integer, TailUnseen)
        <5> HIDE DEF D, E
        <5> QED BY <1>5, <3>1, <4>1, <4>2, Zenon
      <4> HIDE DEF D, E
      <4> QED BY <1>1, <1>5, <1>6, <4>1, <4>2, <4>3
    <3>5. CASE nines
      <4>1. D = q /\ dec_exp' = dec_exp + 1 /\ D0 + 1 = 10^p
        BY <1>2, <1>3, <2>2, <3>2, <3>3, <3>5 DEF q
      <4>2. E = e + 1
        <5>1. e = (dec_exp - (p - 1)) + Digits /\ E = ((dec_exp + 1) - (p - 1)) + Digits
          BY <1>8, <1>9, <4>1 DEF e
        <5> HIDE DEF E
        <5> QED BY <1>1, <1>7, <5>1
      <4>3. 10^(e + 1) = 10 * (10 * scale)
        <5>1. 10^(e + 1) = 10 * 10^e
          BY <1>5, TenFacts
        <5> QED BY <1>5, <5>1, Zenon
      <4>4. D0 + 1 = 10 * q
        <5>1. p - 1 \in Nat /\ (p - 1) + 1 = p
          BY <1>1
        <5>2. 10^((p - 1) + 1) = 10 * 10^(p - 1)
          BY <5>1, TenFacts
        <5> QED BY <4>1, <5>1, <5>2, Zenon DEF q
      <4>5. Nearest(q, 10 * (10 * scale), Integer, TailUnseen)
        BY <1>6, <3>1, <4>4
      <4>6. Nearest(D, 10^E, Integer, TailUnseen)
        <5> HIDE DEF D, E
        <5> QED BY <4>1, <4>2, <4>3, <4>5, Zenon
      <4> HIDE DEF D, E
      <4> QED BY <1>1, <1>5, <1>6, <4>1, <4>2, <4>6
    <3> QED BY <3>4, <3>5
  <2> QED BY <2>1, <2>2
<1> HIDE DEF D, E, q
<1>11. IsText(buf', dec_exp', Integer, Digits)
  BY <1>1, <1>2, <1>7, <1>10 DEF IsText, D, E, q
<1> QED BY <1>2, <1>11


-----------------------------------------------------------------------------
(* What the text stands for, at every step that writes it.                 *)
TextInv ==
  ~IsZero(value) =>
    /\ pc = "blocks" => IsBlocks(buf, bigit_index - 1, dec_exp)
    /\ pc = "write" => /\ IsText(buf, dec_exp, Integer, Digits)
                       /\ Len(buf) = precision \/ IsExactly(buf, dec_exp, Integer, Digits)
    /\ pc = "done" => HasText(buf, dec_exp)

(* The definitions above speak of the bigits as they are.                  *)
LEMMA SameUnits ==
  ASSUME UNCHANGED decimal
  PROVE  /\ Whole' = Whole /\ Unit' = Unit /\ bigits' = bigits
         /\ fraction_start' = fraction_start
         /\ Integer' = Integer /\ Digits' = Digits
<1>1. v' = v /\ exp' = exp /\ i' = i /\ bigits' = bigits /\ fraction_start' = fraction_start
  BY DEF decimal
<1>2. Whole' = Whole /\ Unit' = Unit
  BY <1>1, Zenon DEF Whole, Unit
<1> QED BY <1>1, <1>2, Zenon DEF Integer, Digits, Prefix

LEMMA SameBlocks ==
  ASSUME UNCHANGED decimal, IsBlocks(buf', bigit_index' - 1, dec_exp')
  PROVE  IsBlocks(buf, bigit_index - 1, dec_exp)'
<1>1. /\ Whole' = Whole /\ Unit' = Unit /\ bigits' = bigits
      /\ fraction_start' = fraction_start
  BY SameUnits
<1> QED BY <1>1, Zenon DEF IsBlocks

LEMMA SameText ==
  ASSUME UNCHANGED <<value, decimal, bigit_index>>
  PROVE  /\ \A whole, places \in Nat :
              IsText(buf', dec_exp', whole, places) => IsText(buf, dec_exp, whole, places)'
         /\ IsText(buf', dec_exp', Integer, Digits) => IsText(buf, dec_exp, Integer, Digits)'
         /\ IsExactly(buf', dec_exp', Integer, Digits) =>
              IsExactly(buf, dec_exp, Integer, Digits)'
<1>1. /\ value' = value /\ bigits' = bigits /\ bigit_index' = bigit_index
      /\ Integer' = Integer /\ Digits' = Digits
  BY SameUnits
<1>2. TailUnseen' <=> TailUnseen
  BY <1>1 DEF TailUnseen
<1>3. ASSUME NEW whole \in Nat, NEW places \in Nat, IsText(buf', dec_exp', whole, places)
      PROVE  IsText(buf, dec_exp, whole, places)'
  BY <1>1, <1>2, <1>3, Zenon DEF IsText, IsExactly, Behind, Nearest
<1>4. ASSUME IsText(buf', dec_exp', Integer, Digits)
      PROVE  IsText(buf, dec_exp, Integer, Digits)'
  BY <1>1, <1>2, <1>4, Zenon DEF IsText, IsExactly, Behind, Nearest
<1>5. ASSUME IsExactly(buf', dec_exp', Integer, Digits)
      PROVE  IsExactly(buf, dec_exp, Integer, Digits)'
  BY <1>1, <1>5, Zenon DEF IsExactly, Behind
<1> QED BY <1>3, <1>4, <1>5

LEMMA NextTextInv ==
  ASSUME PowersAreProducts, Inv, TextInv, [Next]_vars
  PROVE  TextInv'
<1>1. bigit_index \in Nat /\ buf \in Seq(0..9) /\ (pc # "idle" => ShiftInv)
  BY DEF Inv
<1>2. ASSUME pc' \notin {"blocks", "write", "done"}
      PROVE  TextInv'
  BY <1>2 DEF TextInv
<1>3. CASE Call \/ Left \/ LeftRest \/ Right \/ RightRest \/ Return
  <2>1. pc' \in {"shift", "first", "idle"}
    BY <1>3 DEF Call, Left, LeftRest, Right, RightRest, Return
  <2> QED BY <1>2, <2>1
<1>4. CASE WriteFirst
  <2>1. pc = "first" /\ pc' = "blocks" /\ UNCHANGED <<value, decimal>>
    BY <1>4 DEF WriteFirst
  <2>2. ASSUME ~IsZero(value) PROVE IsBlocks(buf, bigit_index - 1, dec_exp)'
    <3>1. ShiftInv /\ v = Significand(value) /\ value \in Arguments
      BY <1>1, <2>1 DEF ShiftInv, Argument
    <3>2. v # 0
      BY <2>2, <3>1, SignificandIs
    <3>3. IsBlocks(buf', bigit_index' - 1, dec_exp')
      BY <1>4, <3>1, <3>2, FirstText
    <3> QED BY <2>1, <3>3, SameBlocks
  <2> QED BY <2>1, <2>2 DEF TextInv
<1>5. CASE WriteBlock
  <2>1. pc = "blocks" /\ pc' = "blocks" /\ UNCHANGED <<value, decimal>>
    BY <1>5 DEF WriteBlock
  <2>2. ASSUME ~IsZero(value) PROVE IsBlocks(buf, bigit_index - 1, dec_exp)'
    <3>1. ShiftInv /\ IsBlocks(buf, bigit_index - 1, dec_exp)
      BY <1>1, <2>1, <2>2 DEF TextInv
    <3>2. IsBlocks(buf', bigit_index' - 1, dec_exp')
      BY <1>1, <1>5, <3>1, BlockText
    <3> QED BY <2>1, <3>2, SameBlocks
  <2> QED BY <2>1, <2>2 DEF TextInv
<1>6. CASE Keep
  <2>1. /\ pc = "blocks" /\ pc' = "write" /\ UNCHANGED <<value, decimal, bigit_index>>
        /\ buf' = buf /\ dec_exp' = dec_exp
    BY <1>6 DEF Keep, output
  <2>2. ASSUME ~IsZero(value)
        PROVE  /\ IsText(buf, dec_exp, Integer, Digits)'
               /\ IsExactly(buf, dec_exp, Integer, Digits)'
    <3>1. ShiftInv /\ IsBlocks(buf, bigit_index - 1, dec_exp) /\ pc # "shift"
      BY <1>1, <2>1, <2>2 DEF TextInv
    <3>2. IsText(buf', dec_exp', Integer, Digits) /\ IsExactly(buf', dec_exp', Integer, Digits)
      BY <1>1, <1>6, <2>1, <2>2, <3>1, KeepText
    <3> QED BY <2>1, <3>2, SameText
  <2> QED BY <2>1, <2>2 DEF TextInv
<1>7. CASE Round
  <2>1. pc = "blocks" /\ pc' = "write" /\ UNCHANGED <<value, decimal, bigit_index>>
    BY <1>7 DEF Round
  <2>2. ASSUME ~IsZero(value)
        PROVE  IsText(buf, dec_exp, Integer, Digits)' /\ Len(buf)' = precision
    <3>1. ShiftInv /\ IsBlocks(buf, bigit_index - 1, dec_exp) /\ pc # "shift"
      BY <1>1, <2>1, <2>2 DEF TextInv
    <3>2. IsText(buf', dec_exp', Integer, Digits) /\ Len(buf') = precision
      BY <1>1, <1>7, <2>2, <3>1, RoundText
    <3> QED BY <2>1, <3>2, SameText
  <2> QED BY <2>1, <2>2 DEF TextInv
<1>8. CASE Write
  <2>1. /\ pc = "write" /\ pc' = "done" /\ UNCHANGED <<value, decimal, bigit_index>>
        /\ dec_exp' = dec_exp
    BY <1>8 DEF Write
  <2>2. ASSUME ~IsZero(value) PROVE HasText(buf, dec_exp)'
    <3>1. /\ ShiftInv /\ pc # "shift" /\ IsText(buf, dec_exp, Integer, Digits)
          /\ Len(buf) = precision \/ IsExactly(buf, dec_exp, Integer, Digits)
      BY <1>1, <2>1, <2>2 DEF TextInv
    <3>2. /\ Integer \in Nat /\ Digits \in Nat
          /\ BinSig(value) \in Nat /\ BinExp(value) \in Int
      BY <2>2, <3>1, BigitsDecimal
    <3>3. HasText(buf', dec_exp')
      <4>1. HasText(buf', dec_exp)
        BY <1>1, <1>8, <3>1, <3>2, WriteText
      <4> QED BY <2>1, <4>1
    <3>4. PICK whole \in Nat, places \in Nat : IsText(buf', dec_exp', whole, places)
      BY <3>3 DEF HasText
    <3>5. IsText(buf, dec_exp, whole, places)'
      BY <2>1, <3>4, SameText
    <3> QED BY <3>5 DEF HasText
  <2> QED BY <2>1, <2>2 DEF TextInv
<1>9. CASE UNCHANGED vars
  <2>1. /\ pc' = pc /\ value' = value /\ buf' = buf /\ dec_exp' = dec_exp
        /\ bigit_index' = bigit_index /\ UNCHANGED decimal
        /\ UNCHANGED <<value, decimal, bigit_index>>
    BY <1>9 DEF vars, output
  <2>2. IsBlocks(buf, bigit_index - 1, dec_exp) => IsBlocks(buf, bigit_index - 1, dec_exp)'
    BY <2>1, SameBlocks
  <2>3. /\ IsText(buf, dec_exp, Integer, Digits) => IsText(buf, dec_exp, Integer, Digits)'
        /\ IsExactly(buf, dec_exp, Integer, Digits) => IsExactly(buf, dec_exp, Integer, Digits)'
    BY <2>1, SameText
  <2>4. HasText(buf, dec_exp) => HasText(buf, dec_exp)'
    BY <2>1, SameText DEF HasText
  <2> QED BY <2>1, <2>2, <2>3, <2>4 DEF TextInv
<1> QED BY <1>3, <1>4, <1>5, <1>6, <1>7, <1>8, <1>9 DEF Next

LEMMA TextInvHolds ==
  ASSUME PowersAreProducts
  PROVE  Spec => [](Inv /\ TextInv)
<1>1. Init => Inv /\ TextInv
  BY InitInv DEF Init, TextInv
<1>2. Inv /\ TextInv /\ [Next]_vars => (Inv /\ TextInv)'
  BY NextInv, NextTextInv
<1> QED BY <1>1, <1>2, PTL DEF Spec

(* What the finished text is, in the terms of the properties.              *)
LEMMA FinishedText ==
  ASSUME PowersAreProducts, Inv, TextInv, pc = "done", ~IsZero(value)
  PROVE  /\ HasText(buf, dec_exp)
         /\ value \in Arguments /\ BinSig(value) \in Nat /\ BinExp(value) \in Int
         /\ TextExp = dec_exp - (Len(buf) - 1)
<1>1. ShiftInv /\ HasText(buf, dec_exp)
  BY DEF Inv, TextInv
<1>2. value \in Arguments
  BY <1>1 DEF ShiftInv, Argument
<1>3. BinSig(value) \in Nat /\ BinExp(value) \in Int
  BY <1>1, BigitsDecimal
<1> QED BY <1>1, <1>2, <1>3 DEF TextExp

(* RoundedToEven: the digits are those of the exact decimal of the         *)
(* argument, rounded half to even - by RoundsUp, which looks at one digit, *)
(* at the parity of the one in front and at has_nonzero - unless all that  *)
(* breaks the tie is the bigit has_nonzero skips.  The hypothesis is the   *)
(* definition of ^.                                                        *)
THEOREM AlwaysRoundedToEven ==
  ASSUME PowersAreProducts
  PROVE  Spec => []RoundedToEven
<1>1. Inv /\ TextInv => RoundedToEven
  <2> SUFFICES ASSUME Inv, TextInv, pc = "done", ~IsZero(value)
               PROVE  LET d == DigitsValue(buf)
                      IN /\ HalvesLeq(2 * d - 1)
                         /\ HalvesGeq(2 * d + 1) \/ TailUnseen
                         /\ HalvesGeq(2 * d - 1) \/ HalvesLeq(2 * d + 1) => d % 2 = 0
    BY DEF RoundedToEven
  <2> DEFINE d == DigitsValue(buf)
             c == BinSig(value)
             q == BinExp(value)
             t == TextExp
  <2>1. /\ HasText(buf, dec_exp) /\ c \in Nat /\ q \in Int
        /\ t = dec_exp - (Len(buf) - 1)
    BY FinishedText
  <2>2. PICK whole \in Nat, places \in Nat : IsText(buf, dec_exp, whole, places)
    BY <2>1 DEF HasText
  <2> DEFINE x == 10^(t + places)
  <2>3. Behind(buf, dec_exp, places) = t + places
    BY <2>1 DEF Behind
  <2>4. /\ IsDecimal(c, q, whole, places) /\ d \in Nat \ {0}
        /\ t \in Int /\ t + places \in Nat
        /\ Nearest(d, x, whole, TailUnseen)
    BY <2>1, <2>2, <2>3 DEF IsText
  <2> HIDE DEF d, c, q, t, x
  <2>5. ASSUME NEW m \in Nat
        PROVE  /\ HalvesLeq(m) <=> m * x <= 2 * whole
               /\ HalvesGeq(m) <=> 2 * whole <= m * x
    <3>1. c \in Nat /\ q \in Int /\ IsDecimal(c, q, whole, places) /\ t \in Int
          /\ t + places \in Nat
      BY <2>1, <2>4
    <3> DEFINE r == 2
    <3>2. r \in Nat
      OBVIOUS
    <3> HIDE DEF r
    <3>3. /\ LeqProd(m, Tens(q, t), r * c, Twos(q, t)) <=> m * 10^(t + places) <= r * whole
          /\ LeqProd(r * c, Twos(q, t), m, Tens(q, t)) <=> r * whole <= m * 10^(t + places)
      BY ONLY <3>1, <3>2, PowersAreProducts, DecimalCompares
    <3> QED BY <3>3, Zenon DEF HalvesLeq, HalvesGeq, c, q, t, x, r
  <2>6. 2 * d - 1 \in Nat /\ 2 * d + 1 \in Nat
    BY <2>4
  <2>7. /\ HalvesLeq(2 * d - 1) <=> (2 * d - 1) * x <= 2 * whole
        /\ HalvesGeq(2 * d - 1) <=> 2 * whole <= (2 * d - 1) * x
        /\ HalvesLeq(2 * d + 1) <=> (2 * d + 1) * x <= 2 * whole
        /\ HalvesGeq(2 * d + 1) <=> 2 * whole <= (2 * d + 1) * x
    BY <2>5, <2>6
  <2>8. /\ HalvesLeq(2 * d - 1)
        /\ HalvesGeq(2 * d + 1) \/ TailUnseen
        /\ HalvesGeq(2 * d - 1) \/ HalvesLeq(2 * d + 1) => d % 2 = 0
    BY <2>4, <2>7, Zenon DEF Nearest
  <2> QED BY <2>8 DEF d
<1> QED BY <1>1, TextInvHolds, PTL


-----------------------------------------------------------------------------
(* Rounded to more digits than the significand can have bits for, the      *)
(* decimal is closer to the argument than any midpoint.                    *)
LEMMA SignificandBound ==
  ASSUME PowersAreProducts, NEW d \in Arguments, ~IsZero(d)
  PROVE  /\ 2^num_bits \in Nat
         /\ BinSig(d) \in Nat \ {0} /\ BinSig(d) <= 2^num_bits
         /\ HalfGapBelow(d) => 2 * BinSig(d) <= 2^num_bits
<1> DEFINE I == implicit_bit
           P == 2^num_bits
<1>1. num_sig_bits \in Nat \ {0} /\ exp_mask \in Nat \ {0} /\ d \in Double
  BY FormatAssumption
<1>2. PowerLaw(2)
  BY TenIsTwoFive
<1>3. \A n \in Nat : 2^n \in Nat \ {0} /\ 2^(n + 1) = 2 * 2^n
  BY <1>2, Zenon DEF PowerLaw
<1>4. I \in Nat \ {0} /\ P = 2 * I
  BY <1>1, <1>3 DEF implicit_bit, num_bits
<1>5. d.exp \in Nat /\ d.sig \in 0 .. I - 1
  BY <1>1 DEF Double
<1> HIDE DEF I, P
<1>6. BinSig(d) \in Nat \ {0} /\ BinSig(d) <= P
  BY <1>4, <1>5 DEF BinSig, IsZero, I
<1>7. HalfGapBelow(d) => 2 * BinSig(d) <= P
  BY <1>4, <1>5 DEF BinSig, HalfGapBelow, I
<1> QED BY <1>4, <1>6, <1>7 DEF P

LEMMA NearestIsInside ==
  ASSUME NEW c \in Nat, NEW n \in Nat \ {0}, NEW d \in Nat \ {0}, NEW t \in Nat \ {0},
         NEW p \in Nat, NEW g \in {1, 2}, 2 * c <= g * p, p < d,
         (2 * d - 1) * t <= (2 * c) * n, (2 * c) * n <= (2 * d + 1) * t
  PROVE  (4 * c - g) * n < (4 * d) * t /\ (4 * d) * t < (4 * c + 2) * n
<1> DEFINE cn == c * n
           dt == d * t
           gn == g * n
           m  == 2 * d - 1
           a  == 2 * c
           gp == g * p
<1>1. cn \in Nat /\ dt \in Nat /\ gn \in Nat /\ gn <= 2 * n /\ gp \in Nat /\ m \in Nat /\ a \in Nat
  <2>1. g = 1 \/ g = 2
    OBVIOUS
  <2> QED BY <2>1
<1>2. /\ (2 * d - 1) * t = 2 * dt - t /\ (2 * d + 1) * t = 2 * dt + t
      /\ (2 * c) * n = 2 * cn /\ (4 * d) * t = 4 * dt
      /\ (4 * c + 2) * n = 4 * cn + 2 * n
  OBVIOUS
<1>3. (4 * c - g) * n = 4 * cn - gn
  <2>1. g = 1 \/ g = 2
    OBVIOUS
  <2> QED BY <2>1
<1>4. 2 * t < gn
  <2> SUFFICES ASSUME gn <= 2 * t PROVE FALSE
    BY <1>1
  <2>1. gp * n = p * gn
    <3>1. g \in Nat
      OBVIOUS
    <3> QED BY <3>1
  <2>2. a * n <= gp * n
    BY <1>1, ProductOrder
  <2>3. gn * p <= (2 * t) * p
    BY <1>1, MonotoneProduct
  <2>4. (2 * t) * p = (2 * p) * t
    OBVIOUS
  <2>5. gn * p = p * gn
    BY <1>1
  <2>6. m * t <= a * n
    OBVIOUS
  <2> DEFINE x1 == m * t
             x2 == a * n
             x3 == gp * n
             x4 == p * gn
             x5 == (2 * p) * t
  <2>7. x1 \in Int /\ x2 \in Int /\ x3 \in Int /\ x4 \in Int /\ x5 \in Int
    BY <1>1
  <2>8. x1 <= x2 /\ x2 <= x3 /\ x3 = x4 /\ x4 <= x5
    BY <2>1, <2>2, <2>3, <2>4, <2>5, <2>6
  <2> HIDE DEF x1, x2, x3, x4, x5
  <2>9. x1 <= x5
    BY <2>7, <2>8
  <2>10. m <= 2 * p
    <3> DEFINE y == 2 * p
    <3>1. y \in Nat /\ m * t <= y * t
      BY <2>9 DEF x1, x5
    <3> HIDE DEF y, m
    <3>2. m <= y
      BY <1>1, <3>1, ProductOrder
    <3> QED BY <3>2 DEF y
  <2> QED BY <2>10
<1> HIDE DEF cn, dt, gn, m, a, gp
<1>5. 2 * dt - t <= 2 * cn /\ 2 * cn <= 2 * dt + t
  BY <1>2
<1>6. 4 * cn - gn < 4 * dt /\ 4 * dt < 4 * cn + 2 * n
  BY <1>1, <1>4, <1>5
<1> QED BY <1>2, <1>3, <1>6

LEMMA InsideReadsBack ==
  ASSUME NEW d \in Arguments, ~IsZero(d), NEW n \in Nat \ {0}, NEW k \in Int,
         Twos(BinExp(d), k) \in Nat \ {0}, Tens(BinExp(d), k) \in Nat \ {0},
         BinSig(d) \in Nat \ {0},
         LowerQuarters(d) * Twos(BinExp(d), k) < (4 * n) * Tens(BinExp(d), k),
         (4 * n) * Tens(BinExp(d), k) < UpperQuarters(d) * Twos(BinExp(d), k)
  PROVE  RoundTrips(d, n, k)
<1> DEFINE c == BinSig(d)
           q == BinExp(d)
           N == Twos(q, k)
           T == Tens(q, k)
           l == LowerQuarters(d)
           u == UpperQuarters(d)
           m == 4 * n
<1>1. l \in Nat /\ u \in Nat /\ m \in Nat
  <2>1. c \in Nat \ {0}
    OBVIOUS
  <2> HIDE DEF c
  <2>2. l = 4 * c - (IF HalfGapBelow(d) THEN 1 ELSE 2) /\ u = 4 * c + 2
    BY DEF LowerQuarters, UpperQuarters, c
  <2> HIDE DEF l, u
  <2> QED BY <2>1, <2>2
<1>2. N \in Nat \ {0} /\ T \in Nat \ {0} /\ l * N < m * T /\ m * T < u * N
  OBVIOUS
<1> HIDE DEF c, q, N, T, l, u, m
<1>3. /\ LeqProd(l, N, m, T) <=> l * N <= m * T
      /\ LeqProd(m, T, l, N) <=> m * T <= l * N
      /\ LeqProd(m, T, u, N) <=> m * T <= u * N
      /\ LeqProd(u, N, m, T) <=> u * N <= m * T
  BY <1>1, <1>2, LeqProdExact
<1> DEFINE a == l * N
           b == m * T
           e == u * N
<1>4. a \in Int /\ b \in Int /\ e \in Int /\ a < b /\ b < e
  BY <1>1, <1>2
<1> HIDE DEF a, b, e
<1>5. a <= b /\ ~(b <= a) /\ b <= e /\ ~(e <= b)
  BY <1>4
<1>6. /\ LeqProd(l, N, m, T) /\ ~LeqProd(m, T, l, N)
      /\ LeqProd(m, T, u, N) /\ ~LeqProd(u, N, m, T)
  BY <1>3, <1>5, Zenon DEF a, b, e
<1>7. /\ DecimalGeq(n, k, l, q) /\ ~DecimalLeq(n, k, l, q)
      /\ DecimalLeq(n, k, u, q) /\ ~DecimalGeq(n, k, u, q)
  BY <1>6, Zenon DEF DecimalGeq, DecimalLeq, N, T, m
<1> QED BY <1>7 DEF RoundTrips, l, u, q

LEMMA TextReadsBack ==
  ASSUME PowersAreProducts, value \in Arguments, ~IsZero(value), BinExp(value) \in Int,
         ~TailUnseen, NEW whole \in Nat, NEW places \in Nat,
         IsText(buf, dec_exp, whole, places)
  PROVE  RoundTrips(value, DigitsValue(buf), dec_exp - (Len(buf) - 1))
<1> DEFINE c == BinSig(value)
           q == BinExp(value)
           k == dec_exp - (Len(buf) - 1)
           N == Twos(q, k)
           T == Tens(q, k)
           D == DigitsValue(buf)
           s == k + places
           x == 10^s
           g == IF HalfGapBelow(value) THEN 1 ELSE 2
           P == 2^num_bits
           l == LowerQuarters(value)
           u == UpperQuarters(value)
<1>1. /\ IsDecimal(c, q, whole, places) /\ D \in Nat \ {0} /\ k \in Int /\ s \in Nat
      /\ Nearest(D, x, whole, TailUnseen) /\ q \in Int
      /\ IsExactly(buf, dec_exp, whole, places) \/ 10^(precision - 1) <= D
  BY DEF IsText, Behind
<1>2. P \in Nat /\ c \in Nat \ {0} /\ 2 * c <= g * P /\ g \in {1, 2}
  <2>1. /\ P \in Nat /\ c \in Nat \ {0} /\ c <= P
        /\ HalfGapBelow(value) => 2 * c <= P
    BY SignificandBound
  <2> HIDE DEF P, c
  <2> QED BY <2>1
<1>3. l = 4 * c - g /\ u = 4 * c + 2
  BY DEF LowerQuarters, UpperQuarters
<1> HIDE DEF c, q, k, D, g, P, l, u
<1>4. N \in Nat \ {0} /\ T \in Nat \ {0} /\ x \in Nat \ {0} /\ (c * N) * x = whole * T
  <2>1. c \in Nat /\ k + places \in Nat
    BY <1>1, <1>2
  <2> HIDE DEF N, T, x
  <2>2. Twos(q, k) \in Nat \ {0}
    BY <1>1, <2>1, DecimalScale
  <2>3. Tens(q, k) \in Nat \ {0}
    BY <1>1, <2>1, DecimalScale
  <2>4. 10^(k + places) \in Nat \ {0}
    BY <1>1, <2>1, DecimalScale
  <2>5. (c * Twos(q, k)) * 10^(k + places) = whole * Tens(q, k)
    BY <1>1, <2>1, DecimalScale
  <2> QED BY <2>2, <2>3, <2>4, <2>5 DEF N, T, x
<1> HIDE DEF N, T, s, x
<1>5. (4 * c - g) * N < (4 * D) * T /\ (4 * D) * T < (4 * c + 2) * N
  <2>1. CASE IsExactly(buf, dec_exp, whole, places)
    <3>1. D = whole /\ s = 0
      BY <2>1 DEF IsExactly, Behind, D, s, k
    <3>2. x = 1
      BY <3>1, TenFacts DEF x
    <3> DEFINE z == c * N
    <3>3. z \in Nat /\ z = D * T
      BY <1>1, <1>2, <1>4, <3>1, <3>2
    <3>4. (4 * c - g) * N = 4 * z - g * N /\ (4 * c + 2) * N = 4 * z + 2 * N
      <4>1. g = 1 \/ g = 2
        BY <1>2
      <4> QED BY <1>2, <1>4, <4>1
    <3>5. (4 * D) * T = 4 * (D * T)
      BY <1>1, <1>4
    <3>6. g * N > 0 /\ g * N \in Nat
      BY <1>2, <1>4
    <3> DEFINE gn == g * N
    <3> HIDE DEF z, gn
    <3>7. 4 * z - gn < 4 * z /\ 4 * z < 4 * z + 2 * N
      BY <1>4, <3>3, <3>6 DEF gn
    <3> QED BY <3>3, <3>4, <3>5, <3>7 DEF gn
  <2>2. CASE 10^(precision - 1) <= D
    <3>1. P < D
      <4> DEFINE t == 10^(precision - 1)
      <4>1. t \in Nat
        <5>1. precision - 1 \in Nat
          BY BigitAssumption
        <5> QED BY <5>1, TenFacts
      <4>2. P < t
        BY PrecisionAssumption DEF P
      <4> HIDE DEF t
      <4> QED BY <1>1, <1>2, <2>2, <4>1, <4>2 DEF t
    <3>2. (2 * D - 1) * x <= 2 * whole /\ 2 * whole <= (2 * D + 1) * x
      BY <1>1 DEF Nearest
    <3>3. (2 * D - 1) * T <= (2 * c) * N /\ (2 * c) * N <= (2 * D + 1) * T
      <4>1. 2 * D - 1 \in Nat /\ 2 * D + 1 \in Nat
        BY <1>1
      <4> DEFINE a == (2 * D - 1) * T
                 b == (2 * c) * N
                 e == (2 * D + 1) * T
                 ax == (2 * D - 1) * x
                 ex == (2 * D + 1) * x
      <4>2. a \in Nat /\ b \in Nat /\ e \in Nat /\ ax \in Nat /\ ex \in Nat
        BY <1>2, <1>4, <4>1
      <4>3. a * x = ax * T /\ e * x = ex * T
        BY <1>4, <4>1
      <4>4. b * x = (2 * whole) * T
        <5>1. b * x = 2 * ((c * N) * x)
          BY <1>2, <1>4
        <5>2. (2 * whole) * T = 2 * (whole * T)
          BY <1>4
        <5> QED BY <1>4, <5>1, <5>2, Zenon
      <4> DEFINE w == 2 * whole
      <4>5. w \in Nat /\ ax <= w /\ w <= ex
        BY <3>2
      <4> HIDE DEF a, b, e, ax, ex, w
      <4>6. ax * T <= w * T /\ w * T <= ex * T
        BY <1>4, <4>2, <4>5, ProductOrder
      <4>7. a * x <= b * x /\ b * x <= e * x
        BY <4>3, <4>4, <4>6 DEF w
      <4>8. a <= b /\ b <= e
        BY <1>4, <4>2, <4>7, ProductOrder
      <4> QED BY <4>8 DEF a, b, e
    <3> QED BY <1>1, <1>2, <1>4, <3>1, <3>3, NearestIsInside
  <2> QED BY <1>1, <2>1, <2>2
<1>6. l * N < (4 * D) * T /\ (4 * D) * T < u * N
  BY <1>3, <1>5
<1>7. RoundTrips(value, D, k)
  BY <1>1, <1>2, <1>4, <1>6, InsideReadsBack DEF N, T, c, q, l, u
<1> QED BY <1>7 DEF D, k

(* ReadsBack: what the converter prints, read by a correct strtod, is the  *)
(* argument.  Zero is left out, for which it prints memory nobody wrote    *)
(* (MCPuffZero), and so are the texts whose rounding did not look at the   *)
(* one bigit that is not zero: for those the widths do not decide it.  The *)
(* hypothesis is the definition of ^.                                      *)
THEOREM AlwaysReadsBack ==
  ASSUME PowersAreProducts
  PROVE  Spec => [](IsZero(value) \/ TailUnseen \/ ReadsBack)
<1>1. Inv /\ TextInv => IsZero(value) \/ TailUnseen \/ ReadsBack
  <2> SUFFICES ASSUME Inv, TextInv, pc = "done", ~IsZero(value), ~TailUnseen
               PROVE  RoundTrips(value, DigitsValue(buf), TextExp)
    BY DEF ReadsBack
  <2>1. /\ HasText(buf, dec_exp) /\ value \in Arguments /\ BinExp(value) \in Int
        /\ TextExp = dec_exp - (Len(buf) - 1)
    BY FinishedText
  <2>2. PICK whole \in Nat, places \in Nat : IsText(buf, dec_exp, whole, places)
    BY <2>1 DEF HasText
  <2>3. RoundTrips(value, DigitsValue(buf), dec_exp - (Len(buf) - 1))
    BY <2>1, <2>2, TextReadsBack
  <2> QED BY <2>1, <2>3
<1> QED BY <1>1, TextInvHolds, PTL
=============================================================================
