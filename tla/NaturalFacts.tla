----------------------------- MODULE NaturalFacts ----------------------------
(***************************************************************************)
(* Induction over the natural numbers, and what the proofs of the          *)
(* converters need to know of powers, quotients and digits.  The induction *)
(* theorems of the library take a predicate as a parameter; here the       *)
(* predicate is a set, so that a proof can cite SetInduction as a fact.    *)
(***************************************************************************)
EXTENDS Integers, WellFoundedInduction, TLAPS

Less == {p \in Nat \X Nat : p[1] < p[2]}

LEMMA LessWellFounded == IsWellFoundedOn(Less, Nat)
BY NatLessThanWellFounded DEF OpToRel, Less

LEMMA LeastNatural ==
  ASSUME NEW T, T \subseteq Nat, T # {}
  PROVE  \E x \in T : \A y \in T : x <= y
<1>1. PICK x \in T : \A y \in T : <<y, x>> \notin Less
  BY LessWellFounded, WFMin
<1>2. \A y \in T : ~(y < x)
  BY <1>1 DEF Less
<1> QED BY <1>2

(* A set that holds zero and with every number the next one holds them     *)
(* all.                                                                    *)
LEMMA SetInduction ==
  ASSUME NEW S, 0 \in S, \A n \in Nat : n \in S => n + 1 \in S
  PROVE  \A n \in Nat : n \in S
<1> DEFINE T == Nat \ S
<1> SUFFICES ASSUME T # {} PROVE FALSE
  OBVIOUS
<1>1. PICK x \in T : \A y \in T : x <= y
  BY LeastNatural
<1>2. x # 0 /\ x - 1 \in Nat
  OBVIOUS
<1>3. x - 1 \in S
  BY <1>1, <1>2
<1> QED BY <1>2, <1>3

(* The same on an interval.                                                *)
LEMMA IntervalInduction ==
  ASSUME NEW M \in Nat, NEW S, 0 \in S,
         \A n \in 0 .. M - 1 : n \in S => n + 1 \in S
  PROVE  \A n \in 0..M : n \in S
<1> DEFINE T == {n \in Nat : n \in 0..M => n \in S}
<1>1. 0 \in T
  OBVIOUS
<1>2. \A n \in Nat : n \in T => n + 1 \in T
  OBVIOUS
<1> HIDE DEF T
<1>3. \A n \in Nat : n \in T
  BY <1>1, <1>2, SetInduction
<1> QED BY <1>3 DEF T

(* A set of numbers with an upper bound has a greatest one.                *)
LEMMA GreatestNatural ==
  ASSUME NEW M \in Nat, NEW T, T \subseteq 0..M, T # {}
  PROVE  \E x \in T : \A y \in T : y <= x
<1> DEFINE U == {n \in Nat : \A y \in T : y <= n}
<1>1. U \subseteq Nat /\ M \in U
  OBVIOUS
<1>2. PICK x \in U : \A y \in U : x <= y
  BY <1>1, LeastNatural
<1>3. CASE x \in T
  BY <1>3
<1>4. CASE x \notin T
  <2>1. x # 0
    <3> SUFFICES ASSUME x = 0 PROVE FALSE
      OBVIOUS
    <3>1. PICK y \in T : TRUE
      OBVIOUS
    <3> QED BY <3>1, <1>4
  <2>2. x - 1 \in Nat /\ \A y \in T : y <= x - 1
    BY <2>1, <1>4
  <2> QED BY <1>2, <2>2
<1> QED BY <1>3, <1>4

-----------------------------------------------------------------------------
(* f starts with c, and each value follows from the one before by G.       *)
IsRecursive(f, S, c, G, M) ==
  /\ f \in [0..M -> S]
  /\ f[0] = c
  /\ \A n \in 1..M : f[n] = G[<<f[n - 1], n>>]

(* A recursive function exists: for every start and every step.            *)
LEMMA Recursion ==
  ASSUME NEW S, NEW c \in S, NEW G \in [S \X Nat -> S], NEW M \in Nat
  PROVE  \E f : IsRecursive(f, S, c, G, M)
<1> DEFINE Good(m) == \E f \in [0..m -> S] :
                        /\ f[0] = c
                        /\ \A n \in 1..m : f[n] = G[<<f[n - 1], n>>]
           T == {m \in Nat : Good(m)}
<1>1. 0 \in T
  <2>1. [n \in 0..0 |-> c] \in [0..0 -> S]
    OBVIOUS
  <2>2. [n \in 0..0 |-> c][0] = c /\ 1..0 = {}
    OBVIOUS
  <2> QED BY <2>1, <2>2
<1>2. ASSUME NEW m \in Nat, m \in T PROVE m + 1 \in T
  <2>1. PICK f \in [0..m -> S] :
          /\ f[0] = c
          /\ \A n \in 1..m : f[n] = G[<<f[n - 1], n>>]
    BY <1>2
  <2> DEFINE g == [n \in 0 .. m + 1 |-> IF n <= m THEN f[n] ELSE G[<<f[m], m + 1>>]]
  <2>2. f[m] \in S /\ G[<<f[m], m + 1>>] \in S
    OBVIOUS
  <2>3. g \in [0 .. m + 1 -> S]
    BY <2>2
  <2>4. g[0] = c
    BY <2>1
  <2>5. \A n \in 1 .. m + 1 : g[n] = G[<<g[n - 1], n>>]
    <3> SUFFICES ASSUME NEW n \in 1 .. m + 1 PROVE g[n] = G[<<g[n - 1], n>>]
      OBVIOUS
    <3>1. CASE n <= m
      <4>1. g[n] = f[n] /\ g[n - 1] = f[n - 1]
        BY <3>1
      <4> QED BY <2>1, <3>1, <4>1
    <3>2. CASE n = m + 1
      <4>1. g[n] = G[<<f[m], m + 1>>] /\ g[n - 1] = f[m]
        BY <3>2
      <4> QED BY <3>2, <4>1
    <3> QED BY <3>1, <3>2
  <2> HIDE DEF g
  <2> QED BY <2>3, <2>4, <2>5
<1> HIDE DEF T
<1>3. \A m \in Nat : m \in T
  BY <1>1, <1>2, SetInduction
<1>4. M \in T
  BY <1>3
<1>5. PICK f \in [0..M -> S] : f[0] = c /\ \A n \in 1..M : f[n] = G[<<f[n - 1], n>>]
  BY <1>4 DEF T
<1> QED BY <1>5 DEF IsRecursive

(* The same on all numbers: the functions up to each number agree.         *)
IsRecursiveOnNat(f, S, c, G) ==
  /\ f \in [Nat -> S]
  /\ f[0] = c
  /\ \A n \in Nat : f[n + 1] = G[<<f[n], n + 1>>]

LEMMA RecursionOnNat ==
  ASSUME NEW S, NEW c \in S, NEW G \in [S \X Nat -> S]
  PROVE  \E f : IsRecursiveOnNat(f, S, c, G)
<1> DEFINE F(m) == CHOOSE f : IsRecursive(f, S, c, G, m)
           h    == [m \in Nat |-> F(m)[m]]
<1>1. \A m \in Nat : IsRecursive(F(m), S, c, G, m)
  BY Recursion
<1> HIDE DEF F
<1>2. ASSUME NEW m \in Nat
      PROVE  \A n \in 0..m : F(m + 1)[n] = F(m)[n]
  <2> DEFINE f == F(m)
             g == F(m + 1)
             T == {n \in Nat : g[n] = f[n]}
  <2>1. IsRecursive(f, S, c, G, m) /\ IsRecursive(g, S, c, G, m + 1)
    BY <1>1
  <2> HIDE DEF f, g
  <2>2. 0 \in T
    BY <2>1 DEF IsRecursive
  <2>3. ASSUME NEW n \in 0 .. m - 1, n \in T PROVE n + 1 \in T
    <3>1. n + 1 \in 1..m /\ n + 1 \in 1 .. m + 1 /\ (n + 1) - 1 = n
      OBVIOUS
    <3>2. f[n + 1] = G[<<f[n], n + 1>>] /\ g[n + 1] = G[<<g[n], n + 1>>]
      BY <2>1, <3>1 DEF IsRecursive
    <3> QED BY <2>3, <3>2
  <2> HIDE DEF T
  <2>4. \A n \in 0..m : n \in T
    BY <2>2, <2>3, IntervalInduction
  <2> QED BY <2>4 DEF T, f, g
<1>3. \A m \in Nat : h[m] = F(m)[m]
  OBVIOUS
<1>4. h \in [Nat -> S]
  <2> SUFFICES ASSUME NEW m \in Nat PROVE F(m)[m] \in S
    OBVIOUS
  <2> QED BY <1>1 DEF IsRecursive
<1>5. h[0] = c
  BY <1>1, <1>3 DEF IsRecursive
<1>6. ASSUME NEW m \in Nat PROVE h[m + 1] = G[<<h[m], m + 1>>]
  <2>1. IsRecursive(F(m + 1), S, c, G, m + 1) /\ m + 1 \in 1 .. m + 1 /\ (m + 1) - 1 = m
    BY <1>1
  <2>2. F(m + 1)[m + 1] = G[<<F(m + 1)[m], m + 1>>]
    BY <2>1 DEF IsRecursive
  <2>3. F(m + 1)[m] = F(m)[m]
    BY <1>2
  <2> QED BY <1>3, <2>2, <2>3
<1> HIDE DEF h
<1>7. IsRecursiveOnNat(h, S, c, G)
  BY <1>4, <1>5, <1>6 DEF IsRecursiveOnNat
<1> QED BY <1>7

-----------------------------------------------------------------------------
(* Powers.  The provers know nothing of ^ with a variable exponent: a      *)
(* proof brings the two equations that define it, up to the exponent it    *)
(* needs.                                                                  *)
PowersUpTo(b, M) == b^0 = 1 /\ \A n \in 0 .. M - 1 : b^(n + 1) = b * b^n

LEMMA PowerPositive ==
  ASSUME NEW b \in Nat \ {0}, NEW M \in Nat, PowersUpTo(b, M)
  PROVE  \A n \in 0..M : b^n \in Nat \ {0}
<1> DEFINE S == {n \in Nat : b^n \in Nat \ {0}}
<1>1. 0 \in S
  BY DEF PowersUpTo
<1>2. ASSUME NEW n \in 0 .. M - 1, n \in S PROVE n + 1 \in S
  <2>1. b^(n + 1) = b * b^n
    BY DEF PowersUpTo
  <2> DEFINE p == b^n
             r == b^(n + 1)
  <2>2. p \in Nat \ {0} /\ r = b * p
    BY <1>2, <2>1
  <2> HIDE DEF p, r
  <2>3. r \in Nat \ {0}
    BY <2>2
  <2> QED BY <2>3 DEF r
<1> HIDE DEF S
<1>3. \A n \in 0..M : n \in S
  BY <1>1, <1>2, IntervalInduction
<1> QED BY <1>3 DEF S

LEMMA PowerSum ==
  ASSUME NEW b \in Nat \ {0}, NEW M \in Nat, PowersUpTo(b, M)
  PROVE  \A m, n \in 0..M : m + n <= M => b^(m + n) = b^m * b^n
<1> SUFFICES ASSUME NEW m \in 0..M
             PROVE  \A n \in 0..M : m + n <= M => b^(m + n) = b^m * b^n
  OBVIOUS
<1> DEFINE S == {n \in Nat : m + n <= M => b^(m + n) = b^m * b^n}
<1>0. \A n \in 0..M : b^n \in Nat \ {0}
  BY PowerPositive
<1>1. 0 \in S
  <2>1. b^0 = 1 /\ m + 0 = m /\ b^m \in Nat
    BY <1>0 DEF PowersUpTo
  <2>2. b^(m + 0) = b^m
    BY <2>1
  <2> QED BY <2>1, <2>2
<1>2. ASSUME NEW n \in 0 .. M - 1, n \in S PROVE n + 1 \in S
  <2> SUFFICES ASSUME m + (n + 1) <= M
               PROVE  b^(m + (n + 1)) = b^m * b^(n + 1)
    OBVIOUS
  <2>1. b^(n + 1) = b * b^n /\ b^((m + n) + 1) = b * b^(m + n)
    BY DEF PowersUpTo
  <2>2. b^(m + n) = b^m * b^n /\ m + (n + 1) = (m + n) + 1
    BY <1>2
  <2>3. b^m \in Nat /\ b^n \in Nat
    BY <1>0
  <2> DEFINE x == b^m
             y == b^n
  <2>4. b^(m + (n + 1)) = b * (x * y) /\ b^(n + 1) = b * y
    BY <2>1, <2>2
  <2> HIDE DEF x, y
  <2>5. b * (x * y) = x * (b * y)
    BY <2>3 DEF x, y
  <2> QED BY <2>4, <2>5 DEF x
<1> HIDE DEF S
<1>3. \A n \in 0..M : n \in S
  BY <1>1, <1>2, IntervalInduction
<1> QED BY <1>3 DEF S

LEMMA PowerOrder ==
  ASSUME NEW b \in Nat, b >= 2, NEW M \in Nat, PowersUpTo(b, M)
  PROVE  \A m, n \in 0..M : m < n => b * b^m <= b^n /\ b^m < b^n
<1> SUFFICES ASSUME NEW m \in 0..M, NEW n \in 0..M, m < n
             PROVE  b * b^m <= b^n /\ b^m < b^n
  OBVIOUS
<1> DEFINE r == n - (m + 1)
           x == b^m
           y == b^r
<1>1. r \in 0..M /\ m + 1 \in 0..M /\ (m + 1) + r = n
  OBVIOUS
<1>2. b^n = b^(m + 1) * y
  BY <1>1, PowerSum
<1>3. b^(m + 1) = b * x
  BY <1>1 DEF PowersUpTo
<1>4. x \in Nat \ {0} /\ y \in Nat \ {0}
  BY <1>1, PowerPositive
<1> HIDE DEF x, y
<1>5. b * x <= (b * x) * y
  <2> DEFINE z == b * x
  <2>1. z \in Nat
    BY <1>4
  <2> HIDE DEF z
  <2>2. z <= z * y
    BY <2>1, <1>4
  <2> QED BY <2>2 DEF z
<1>6. x < b * x
  BY <1>4
<1>7. b * x <= b^n
  BY <1>2, <1>3, <1>5
<1>8. b^n \in Nat
  BY PowerPositive
<1> QED BY <1>4, <1>6, <1>7, <1>8 DEF x

-----------------------------------------------------------------------------
(* Quotient and remainder, for a divisor the provers do not know.          *)
LEMMA Division ==
  ASSUME NEW a \in Nat, NEW b \in Nat \ {0}
  PROVE  /\ a \div b \in Nat
         /\ a % b \in 0 .. b - 1
         /\ a = b * (a \div b) + (a % b)
OBVIOUS

LEMMA ProductOrder ==
  ASSUME NEW a \in Nat, NEW b \in Nat, NEW c \in Nat \ {0}
  PROVE  /\ a < b <=> a * c < b * c
         /\ a <= b <=> a * c <= b * c
         /\ a = b <=> a * c = b * c
<1>1. a < b => a * c < b * c
  OBVIOUS
<1>2. b < a => b * c < a * c
  OBVIOUS
<1>3. a * c \in Nat /\ b * c \in Nat
  OBVIOUS
<1> QED BY <1>1, <1>2, <1>3

LEMMA DivisionUnique ==
  ASSUME NEW b \in Nat \ {0}, NEW q \in Nat, NEW r \in 0 .. b - 1
  PROVE  (b * q + r) \div b = q /\ (b * q + r) % b = r
<1> DEFINE a == b * q + r
           s == a \div b
           t == a % b
<1>1. a \in Nat
  OBVIOUS
<1>2. s \in Nat /\ t \in 0 .. b - 1 /\ a = b * s + t
  BY <1>1, Division
<1>3. ~(q < s)
  <2> SUFFICES ASSUME q < s PROVE FALSE
    OBVIOUS
  <2> HIDE DEF s, t
  <2>1. (q + 1) * b <= s * b
    BY <1>2, ProductOrder
  <2>2. (q + 1) * b = b * q + b /\ s * b = b * s
    BY <1>2
  <2>3. b * q \in Nat /\ b * s \in Nat
    BY <1>2
  <2> QED BY <1>2, <2>1, <2>2, <2>3
<1>4. ~(s < q)
  <2> SUFFICES ASSUME s < q PROVE FALSE
    OBVIOUS
  <2> HIDE DEF s, t
  <2>1. (s + 1) * b <= q * b
    BY <1>2, ProductOrder
  <2>2. (s + 1) * b = b * s + b /\ q * b = b * q
    BY <1>2
  <2>3. b * q \in Nat /\ b * s \in Nat
    BY <1>2
  <2> QED BY <1>2, <2>1, <2>2, <2>3
<1>5. s = q
  BY <1>2, <1>3, <1>4
<1>6. t = r
  <2>1. b * q \in Nat
    OBVIOUS
  <2> QED BY <1>2, <1>5, <2>1
<1> QED BY <1>5, <1>6

(* Dividing twice.                                                         *)
LEMMA DivisionTwice ==
  ASSUME NEW a \in Nat, NEW b \in Nat \ {0}, NEW c \in Nat \ {0}
  PROVE  (a \div b) \div c = a \div (b * c)
<1> DEFINE q == a \div b
           r == a % b
           s == q \div c
           t == q % c
<1>1. q \in Nat /\ r \in 0 .. b - 1 /\ a = b * q + r
  BY Division
<1> HIDE DEF q, r
<1>2. s \in Nat /\ t \in 0 .. c - 1 /\ q = c * s + t
  BY <1>1, Division
<1> HIDE DEF s, t
<1>3. a = (b * c) * s + (b * t + r)
  <2>1. b * (c * s + t) = (b * c) * s + b * t
    BY <1>2
  <2> DEFINE u == (b * c) * s
             w == b * t
  <2>2. u \in Nat /\ w \in Nat
    BY <1>2
  <2>3. a = (u + w) + r
    BY <1>1, <1>2, <2>1
  <2> HIDE DEF u, w
  <2>4. a = u + (w + r)
    BY <1>1, <2>2, <2>3
  <2> QED BY <2>4 DEF u, w
<1>4. b * c \in Nat \ {0}
  OBVIOUS
<1>5. b * t + r \in 0 .. (b * c) - 1
  <2>1. (t + 1) * b <= c * b
    BY <1>2, ProductOrder
  <2>2. (t + 1) * b = b * t + b /\ c * b = b * c /\ b * t \in Nat
    BY <1>2
  <2>3. b * c \in Nat
    OBVIOUS
  <2> QED BY <1>1, <2>1, <2>2, <2>3
<1> DEFINE bc == b * c
           z  == b * t + r
<1>6. bc \in Nat \ {0} /\ z \in 0 .. bc - 1 /\ a = bc * s + z
  BY <1>3, <1>4, <1>5
<1> HIDE DEF bc, z
<1>7. a \div bc = s
  BY <1>2, <1>6, DivisionUnique
<1> QED BY <1>7 DEF bc, s, q

-----------------------------------------------------------------------------
(* The definition of ^, for every base and every exponent.                 *)
PowersAreProducts ==
  \A b \in Nat \ {0} : b^0 = 1 /\ \A n \in Nat : b^(n + 1) = b * b^n

PowerLaw(b) ==
  /\ b^0 = 1
  /\ \A n \in Nat : b^n \in Nat \ {0} /\ b^(n + 1) = b * b^n
  /\ \A m, n \in Nat : b^(m + n) = b^m * b^n

LEMMA PowerLaws ==
  ASSUME PowersAreProducts, NEW b \in Nat \ {0}
  PROVE  PowerLaw(b)
<1>1. \A M \in Nat : PowersUpTo(b, M)
  BY DEF PowersAreProducts, PowersUpTo
<1>2. \A n \in Nat : b^n \in Nat \ {0}
  <2> SUFFICES ASSUME NEW n \in Nat PROVE b^n \in Nat \ {0}
    OBVIOUS
  <2>1. n \in 0..n /\ PowersUpTo(b, n)
    BY <1>1
  <2> QED BY <2>1, PowerPositive
<1>3. \A m, n \in Nat : b^(m + n) = b^m * b^n
  <2> SUFFICES ASSUME NEW m \in Nat, NEW n \in Nat PROVE b^(m + n) = b^m * b^n
    OBVIOUS
  <2> DEFINE M == m + n
  <2>1. M \in Nat /\ m \in 0..M /\ n \in 0..M /\ m + n <= M /\ PowersUpTo(b, M)
    BY <1>1
  <2> HIDE DEF M
  <2> QED BY <2>1, PowerSum
<1> QED BY <1>2, <1>3 DEF PowersAreProducts, PowerLaw

LEMMA TenIsTwoFive ==
  ASSUME PowersAreProducts
  PROVE  /\ PowerLaw(2) /\ PowerLaw(5) /\ PowerLaw(10)
         /\ \A n \in Nat : 10^n = 2^n * 5^n
<1> DEFINE S == {n \in Nat : 10^n = 2^n * 5^n}
<1>0. PowerLaw(2) /\ PowerLaw(5) /\ PowerLaw(10)
  BY PowerLaws
<1>1. 2^0 = 1 /\ 5^0 = 1 /\ 10^0 = 1
  BY <1>0, Zenon DEF PowerLaw
<1>2. \A n \in Nat : /\ 2^n \in Nat /\ 5^n \in Nat
                     /\ 2^(n + 1) = 2 * 2^n /\ 5^(n + 1) = 5 * 5^n
                     /\ 10^(n + 1) = 10 * 10^n
  <2>1. \A n \in Nat : 2^n \in Nat \ {0} /\ 2^(n + 1) = 2 * 2^n
    BY <1>0, Zenon DEF PowerLaw
  <2>2. \A n \in Nat : 5^n \in Nat \ {0} /\ 5^(n + 1) = 5 * 5^n
    BY <1>0, Zenon DEF PowerLaw
  <2>3. \A n \in Nat : 10^(n + 1) = 10 * 10^n
    BY <1>0, Zenon DEF PowerLaw
  <2> QED BY <2>1, <2>2, <2>3
<1>3. 0 \in S
  BY <1>1
<1>4. ASSUME NEW n \in Nat, n \in S PROVE n + 1 \in S
  <2> DEFINE x == 2^n
             y == 5^n
             z == 10^n
  <2>1. /\ x \in Nat /\ y \in Nat /\ z = x * y
        /\ 2^(n + 1) = 2 * x /\ 5^(n + 1) = 5 * y /\ 10^(n + 1) = 10 * z
    BY <1>2, <1>4
  <2> HIDE DEF x, y, z
  <2>2. 10 * (x * y) = (2 * x) * (5 * y)
    BY <2>1
  <2>3. 10^(n + 1) = 2^(n + 1) * 5^(n + 1)
    BY <2>1, <2>2
  <2> QED BY <2>3
<1> HIDE DEF S
<1>5. \A n \in Nat : n \in S
  BY <1>3, <1>4, SetInduction
<1> QED BY <1>0, <1>5 DEF S

-----------------------------------------------------------------------------
(* Horner's rule: g[j] is the number whose digits to the base b are the    *)
(* first j of s.                                                           *)
Horner(s, n, b, g) ==
  /\ g \in [0..n -> Nat]
  /\ g[0] = 0
  /\ \A j \in 1..n : g[j] = b * g[j - 1] + s[j]

HasHorner(s, n, b) == \E g : Horner(s, n, b, g)

LEMMA HornerExists ==
  ASSUME NEW s, NEW n \in Nat, NEW b \in Nat, \A j \in 1..n : s[j] \in Nat
  PROVE  HasHorner(s, n, b)
<1> DEFINE G == [p \in Nat \X Nat |-> b * p[1] + (IF p[2] \in 1..n THEN s[p[2]] ELSE 0)]
<1>1. G \in [Nat \X Nat -> Nat]
  <2> SUFFICES ASSUME NEW p \in Nat \X Nat
               PROVE  b * p[1] + (IF p[2] \in 1..n THEN s[p[2]] ELSE 0) \in Nat
    OBVIOUS
  <2> DEFINE x == p[1]
             z == IF p[2] \in 1..n THEN s[p[2]] ELSE 0
  <2>1. x \in Nat /\ z \in Nat
    OBVIOUS
  <2> HIDE DEF x, z
  <2>2. b * x + z \in Nat
    BY <2>1
  <2> QED BY <2>2 DEF x, z
<1>2. \A x, j \in Nat : j \in 1..n => G[<<x, j>>] = b * x + s[j]
  OBVIOUS
<1> HIDE DEF G
<1>3. PICK g : IsRecursive(g, Nat, 0, G, n)
  BY <1>1, Recursion
<1>4. /\ g \in [0..n -> Nat] /\ g[0] = 0
      /\ \A j \in 1..n : g[j] = G[<<g[j - 1], j>>]
  BY <1>3 DEF IsRecursive
<1>5. ASSUME NEW j \in 1..n PROVE g[j] = b * g[j - 1] + s[j]
  <2>1. j - 1 \in 0..n /\ j \in Nat
    OBVIOUS
  <2>2. g[j - 1] \in Nat
    BY <1>4, <2>1
  <2> QED BY <1>2, <1>4, <2>1, <2>2
<1> QED BY <1>4, <1>5 DEF Horner, HasHorner

(* What the digits behind the first m add.                                 *)
TailIs(s, b, g, m, k, r) ==
  /\ r \in 0 .. b^k - 1
  /\ g[m + k] = b^k * g[m] + r
  /\ r = 0 <=> \A j \in m + 1 .. m + k : s[j] = 0
  /\ (\A j \in m + 1 .. m + k : s[j] = b - 1) => r = b^k - 1

HasTail(s, b, g, m, k) == \E r : TailIs(s, b, g, m, k, r)

LEMMA HornerTail ==
  ASSUME NEW b \in Nat \ {0}, PowerLaw(b), NEW n \in Nat, NEW s, NEW g,
         Horner(s, n, b, g), \A j \in 1..n : s[j] \in 0 .. b - 1, NEW m \in 0..n
  PROVE  \A k \in 0 .. n - m : HasTail(s, b, g, m, k)
<1> DEFINE S == {k \in Nat : HasTail(s, b, g, m, k)}
<1>0. /\ \A j \in 0..n : g[j] \in Nat
      /\ \A j \in 1..n : g[j] = b * g[j - 1] + s[j]
      /\ b^0 = 1
      /\ \A k \in Nat : b^k \in Nat \ {0} /\ b^(k + 1) = b * b^k
  BY DEF Horner, PowerLaw
<1>1. 0 \in S
  <2>1. g[m] \in Nat /\ m + 0 = m
    BY <1>0
  <2>2. TailIs(s, b, g, m, 0, 0)
    BY <1>0, <2>1 DEF TailIs
  <2> QED BY <2>2 DEF HasTail
<1>2. ASSUME NEW k \in 0 .. (n - m) - 1, k \in S PROVE k + 1 \in S
  <2>1. PICK r : TailIs(s, b, g, m, k, r)
    BY <1>2 DEF HasTail
  <2> DEFINE i == (m + k) + 1
             t == b^k
             x == s[i]
             y == b * r + x
             a == g[m]
  <2>2. /\ i \in 1..n /\ i - 1 = m + k /\ m + (k + 1) = i /\ k \in Nat
        /\ m + k \in 0..n
    OBVIOUS
  <2>3. /\ t \in Nat \ {0} /\ b^(k + 1) = b * t /\ a \in Nat
        /\ r \in 0 .. t - 1 /\ g[m + k] = t * a + r
        /\ x \in 0 .. b - 1
    BY <1>0, <2>1, <2>2 DEF TailIs
  <2>4. g[i] = b * g[m + k] + x
    BY <1>0, <2>2
  <2>5. \A j \in m + 1 .. m + (k + 1) : j \in m + 1 .. m + k \/ j = i
    BY <2>2
  <2>6. i \in m + 1 .. m + (k + 1) /\ \A j \in m + 1 .. m + k : j \in m + 1 .. m + (k + 1)
    BY <2>2
  <2>7. r = 0 <=> \A j \in m + 1 .. m + k : s[j] = 0
    BY <2>1 DEF TailIs
  <2>8. (\A j \in m + 1 .. m + k : s[j] = b - 1) => r = t - 1
    BY <2>1 DEF TailIs
  <2>9. (\A j \in m + 1 .. m + (k + 1) : s[j] = 0) <=> r = 0 /\ x = 0
    BY <2>5, <2>6, <2>7
  <2>10. (\A j \in m + 1 .. m + (k + 1) : s[j] = b - 1) => r = t - 1 /\ x = b - 1
    BY <2>6, <2>8
  <2> HIDE DEF i, t, x, a
  <2>11. y \in 0 .. (b * t) - 1
    <3>1. b * (r + 1) <= b * t
      BY <2>3
    <3>2. b * (r + 1) = b * r + b /\ b * r \in Nat /\ b * t \in Nat
      BY <2>3
    <3> QED BY <2>3, <3>1, <3>2
  <2>12. g[i] = (b * t) * a + y
    <3>1. b * (t * a + r) = (b * t) * a + b * r
      BY <2>3
    <3>2. (b * t) * a \in Nat /\ b * r \in Nat
      BY <2>3
    <3> QED BY <2>3, <2>4, <3>1, <3>2
  <2>13. y = 0 <=> r = 0 /\ x = 0
    <3>1. b * r \in Nat /\ (b * r = 0 <=> r = 0)
      BY <2>3
    <3> QED BY <2>3, <3>1
  <2>14. r = t - 1 /\ x = b - 1 => y = (b * t) - 1
    <3>1. b * (t - 1) = b * t - b /\ b * t \in Nat
      BY <2>3
    <3> QED BY <3>1
  <2> HIDE DEF y
  <2>15. TailIs(s, b, g, m, k + 1, y)
    BY <2>2, <2>3, <2>9, <2>10, <2>11, <2>12, <2>13, <2>14 DEF TailIs, a
  <2> QED BY <2>15 DEF HasTail
<1> HIDE DEF S
<1>3. n - m \in Nat
  OBVIOUS
<1>4. \A k \in 0 .. n - m : k \in S
  BY <1>1, <1>2, <1>3, IntervalInduction
<1> QED BY <1>4 DEF S

(* The number itself is below the power of its length.                     *)
LEMMA HornerBound ==
  ASSUME NEW b \in Nat \ {0}, PowerLaw(b), NEW n \in Nat, NEW s, NEW g,
         Horner(s, n, b, g), \A j \in 1..n : s[j] \in 0 .. b - 1
  PROVE  \A j \in 0..n : g[j] \in 0 .. b^j - 1
<1> SUFFICES ASSUME NEW j \in 0..n PROVE g[j] \in 0 .. b^j - 1
  OBVIOUS
<1>1. HasTail(s, b, g, 0, j)
  <2>1. 0 \in 0..n /\ j \in 0 .. n - 0
    OBVIOUS
  <2> QED BY <2>1, HornerTail
<1>2. PICK r : TailIs(s, b, g, 0, j, r)
  BY <1>1 DEF HasTail
<1>3. b^j \in Nat /\ g[0] = 0
  BY DEF PowerLaw, Horner
<1>4. r \in 0 .. b^j - 1 /\ g[0 + j] = b^j * g[0] + r /\ 0 + j = j
  BY <1>2 DEF TailIs
<1> DEFINE t == b^j
<1>5. t \in Nat /\ r \in 0 .. t - 1 /\ g[j] = t * 0 + r
  BY <1>3, <1>4
<1> HIDE DEF t
<1>6. g[j] \in 0 .. t - 1
  BY <1>5
<1> QED BY <1>6 DEF t

(* What it is to divide exactly.                                           *)
LEMMA MultipleIs ==
  ASSUME NEW a \in Nat, NEW b \in Nat \ {0}
  PROVE  /\ a % b = 0 => \E g \in Nat : a = b * g
         /\ \A g \in Nat : a = b * g => a % b = 0
<1>1. ASSUME a % b = 0 PROVE \E g \in Nat : a = b * g
  <2> DEFINE g == a \div b
             r == a % b
             h == b * g
  <2>1. g \in Nat /\ a = h + r
    BY Division
  <2>2. h \in Nat
    BY <2>1
  <2> HIDE DEF g, r, h
  <2>3. a = h
    BY <1>1, <2>1, <2>2 DEF r
  <2> QED BY <2>1, <2>3 DEF h
<1>2. ASSUME NEW g \in Nat, a = b * g PROVE a % b = 0
  <2>1. 0 \in 0 .. b - 1
    OBVIOUS
  <2>2. (b * g + 0) % b = 0
    BY <2>1, DivisionUnique
  <2>3. b * g + 0 = a
    BY <1>2
  <2> QED BY <2>2, <2>3
<1> QED BY <1>1, <1>2

(* A quotient is compared with d as the dividend with d * P.               *)
LEMMA DivisionCompares ==
  ASSUME NEW x \in Nat, NEW P \in Nat \ {0}, NEW d \in Nat
  PROVE  /\ x \div P \in Nat
         /\ d * P <= x <=> d <= x \div P
         /\ x < d * P <=> x \div P < d
         /\ d * P = x <=> d = x \div P /\ x % P = 0
<1> DEFINE q == x \div P
           r == x % P
           f == P * q
           g == P * (q + 1)
           h == d * P
<1>1. q \in Nat /\ r \in 0 .. P - 1 /\ x = f + r /\ f \in Nat /\ g = f + P /\ h \in Nat
  <2>1. q \in Nat /\ r \in 0 .. P - 1 /\ x = P * q + r
    BY Division
  <2> HIDE DEF q, r
  <2> QED BY <2>1
<1>2. h = P * d
  BY <1>1
<1> HIDE DEF q, r
<1>3. d <= q => h <= f
  <2>1. d <= q => d * P <= q * P
    BY <1>1, ProductOrder
  <2>2. q * P = f
    BY <1>1
  <2> QED BY <2>1, <2>2
<1>4. q < d => g <= h
  <2>1. q + 1 <= d => (q + 1) * P <= d * P
    BY <1>1, ProductOrder
  <2>2. (q + 1) * P = g /\ (q < d => q + 1 <= d)
    BY <1>1
  <2> QED BY <2>1, <2>2
<1>5. d < q => h < f
  <2>1. d < q => d * P < q * P
    BY <1>1, ProductOrder
  <2>2. q * P = f
    BY <1>1
  <2> QED BY <2>1, <2>2
<1>6. d = q => h = f
  BY <1>1
<1> HIDE DEF f, g, h
<1>7. d < q \/ d = q \/ q < d
  BY <1>1
<1>8. h <= x <=> d <= q
  BY <1>1, <1>3, <1>4, <1>7
<1>9. x < h <=> q < d
  BY <1>1, <1>3, <1>4, <1>7
<1>10. h = x <=> d = q /\ r = 0
  BY <1>1, <1>4, <1>5, <1>6, <1>7
<1> QED BY <1>1, <1>8, <1>9, <1>10 DEF q, r, h

(* Division keeps the order.                                               *)
LEMMA DivisionMonotone ==
  ASSUME NEW x \in Nat, NEW y \in Nat, x <= y, NEW P \in Nat \ {0}
  PROVE  x \div P <= y \div P
<1> DEFINE d == x \div P
<1>1. d \in Nat /\ d * P \in Nat /\ d * P <= x
  <2>1. d \in Nat
    BY DivisionCompares
  <2> HIDE DEF d
  <2>2. d * P <= x <=> d <= x \div P
    BY <2>1, DivisionCompares
  <2>3. d <= x \div P
    BY <2>1 DEF d
  <2> QED BY <2>1, <2>2, <2>3
<1> HIDE DEF d
<1>2. d * P <= y
  BY <1>1
<1>3. d <= y \div P
  BY <1>1, <1>2, DivisionCompares
<1> QED BY <1>3 DEF d
=============================================================================
