---------------------------- MODULE NumbersProofs ----------------------------
(***************************************************************************)
(* The parity and the types of the numbers, for every width, every odd     *)
(* multiplier and every odd increment of the generator.                    *)
(***************************************************************************)
EXTENDS Numbers, TLAPS

(* A remainder of an even number has the parity of the dividend.           *)
LEMMA EvenRemainder ==
  ASSUME NEW n \in Nat, NEW m \in Nat \ {0}, m % 2 = 0
  PROVE  n % m \in 0 .. m - 1 /\ (n % m) % 2 = n % 2
<1> DEFINE k == m \div 2
           q == n \div m
           r == n % m
<1>1. k \in Nat /\ m = 2 * k
  BY SMT
<1>2. q \in Nat /\ r \in 0 .. m - 1 /\ n = m * q + r
  BY SMT
<1>3. m * q = 2 * (k * q) /\ k * q \in Nat
  <2> HIDE DEF k, q
  <2> QED BY <1>1, <1>2, SMT
<1>4. ASSUME NEW x \in Nat, n = 2 * x + r PROVE r % 2 = n % 2
  <2> HIDE DEF r
  <2> QED BY <1>2, <1>4, SMT
<1>5. n = 2 * (k * q) + r
  BY <1>2, <1>3
<1> HIDE DEF k, q
<1> QED BY <1>2, <1>3, <1>4, <1>5

(* Every call of the generator changes the parity of its state.            *)
LEMMA ParityChanges ==
  ASSUME NEW seed \in Nat
  PROVE  next(seed) \in Nat /\ next(seed) % 2 = (seed + 1) % 2
<1> DEFINE x == multiplier \div 2
           n == multiplier * seed + increment
<1>1. x \in Nat /\ multiplier = 2 * x + 1
  BY GeneratorAssumption, SMT
<1>2. multiplier * seed = 2 * (x * seed) + seed /\ x * seed \in Nat
  <2> HIDE DEF x
  <2> QED BY <1>1, SMT
<1>3. ASSUME NEW y \in Nat, multiplier * seed = 2 * y + seed
      PROVE  n \in Nat /\ n % 2 = (seed + 1) % 2
  BY <1>3, GeneratorAssumption, SMT
<1>4. n \in Nat /\ n % 2 = (seed + 1) % 2
  <2> HIDE DEF n, x
  <2> QED BY <1>2, <1>3
<1> HIDE DEF n
<1>5. n % 2^half_bits \in 0 .. 2^half_bits - 1 /\ (n % 2^half_bits) % 2 = n % 2
  BY <1>4, EvenRemainder, GeneratorAssumption
<1> QED BY <1>4, <1>5, GeneratorAssumption DEF next, n

(* A double whose low word is even has an even significand.                *)
LEMMA PairIsDouble ==
  ASSUME NEW high \in Nat, NEW low \in Nat
  PROVE  /\ Pair(high, low) \in Double
         /\ low % 2 = 0 => Pair(high, low).sig % 2 = 0
<1> DEFINE M == 2^half_bits
           k == M \div 2
           bits == high * M + low
<1>1. M \in Nat \ {0} /\ M % 2 = 0
  BY GeneratorAssumption
<1> HIDE DEF M
<1>2. k \in Nat /\ M = 2 * k
  BY <1>1, SMT
<1> HIDE DEF k
<1>3. high * M = 2 * (high * k) /\ high * k \in Nat
  BY <1>2, SMT
<1>4. ASSUME NEW y \in Nat
      PROVE  2 * y + low \in Nat /\ (2 * y + low) % 2 = low % 2
  BY SMT
<1>5. bits \in Nat /\ bits % 2 = low % 2
  <2>1. bits = 2 * (high * k) + low
    BY <1>3
  <2> HIDE DEF bits
  <2> QED BY <1>3, <1>4, <2>1
<1> HIDE DEF bits
<1>6. /\ bits % implicit_bit \in 0 .. implicit_bit - 1
      /\ (bits % implicit_bit) % 2 = bits % 2
  BY <1>5, EvenRemainder, GeneratorAssumption
<1>7. (bits \div implicit_bit) % (exp_mask + 1) \in 0 .. exp_mask
  <2>1. bits \div implicit_bit \in Nat
    BY <1>5, GeneratorAssumption, SMT
  <2>2. ASSUME NEW n \in Nat PROVE n % (exp_mask + 1) \in 0 .. exp_mask
    BY GeneratorAssumption, SMT
  <2> QED BY <2>1, <2>2
<1>8. Pair(high, low) =
        [negative |-> high \div 2^(half_bits - 1) = 1,
         exp |-> (bits \div implicit_bit) % (exp_mask + 1),
         sig |-> bits % implicit_bit]
  BY DEF Pair, bits, M
<1> QED BY <1>5, <1>6, <1>7, <1>8 DEF Double

-----------------------------------------------------------------------------
Even(v) == v.sig % 2 = 0

(* Between two numbers the generator's state is even, because a number     *)
(* takes two calls; what verify() has tried is even or the case in that    *)
(* place.                                                                  *)
EvenInv ==
  /\ seed_ \in Nat /\ seed_ % 2 = 0
  /\ d \in Double \cup {NoValue}
  /\ d # NoValue => Even(d)
  /\ verified \in Seq(Double)
  /\ \A n \in DOMAIN verified :
       \/ Even(verified[n])
       \/ n \in DOMAIN cases /\ verified[n] = cases[n]

LEMMA InitEven == Init => EvenInv
  BY DEF Init, EvenInv

LEMMA NextEven == EvenInv /\ [Next]_vars => EvenInv'
<1> SUFFICES ASSUME EvenInv, [Next]_vars PROVE EvenInv'
  OBVIOUS
<1> USE DEF EvenInv
<1>1. CASE Draw
  <2> DEFINE high == next(seed_)
             low  == next(high)
  <2>1. high \in Nat /\ high % 2 = (seed_ + 1) % 2
    BY ParityChanges
  <2>2. low \in Nat /\ low % 2 = (high + 1) % 2
    BY <2>1, ParityChanges
  <2>3. seed_' = low /\ d' = Pair(high, low) /\ verified' = verified
    BY <1>1 DEF Draw
  <2> HIDE DEF high, low
  <2>4. low % 2 = 0
    BY <2>1, <2>2, SMT
  <2> QED BY <2>1, <2>2, <2>3, <2>4, PairIsDouble DEF Even
<1>2. CASE VerifyValue
  <2>1. d \in Double /\ Even(d)
    BY <1>2 DEF VerifyValue, Usable
  <2>2. verified' = Append(verified, d) /\ d' = NoValue
    BY <1>2 DEF VerifyValue
  <2>3. seed_' \in Nat /\ seed_' % 2 = 0
    BY <1>2, SMT DEF VerifyValue
  <2>4. verified' \in Seq(Double)
    BY <2>1, <2>2
  <2>5. \A n \in DOMAIN verified' :
          \/ verified'[n] = d
          \/ n \in DOMAIN verified /\ verified'[n] = verified[n]
    BY <2>1, <2>2
  <2> QED BY <2>1, <2>2, <2>3, <2>4, <2>5
<1>3. CASE LimitDigits
  BY <1>3 DEF LimitDigits
<1>4. CASE VerifyCase
  <2> DEFINE k == Len(verified) + 1
  <2>1. k \in DOMAIN cases /\ cases[k] \in Double
    BY <1>4, GeneratorAssumption DEF VerifyCase
  <2>2. verified' = Append(verified, cases[k]) /\ UNCHANGED <<seed_, d>>
    BY <1>4 DEF VerifyCase
  <2>3. verified' \in Seq(Double)
    BY <2>1, <2>2
  <2>4. \A n \in DOMAIN verified' :
          \/ n = k /\ verified'[n] = cases[k]
          \/ n \in DOMAIN verified /\ verified'[n] = verified[n]
    BY <2>1, <2>2
  <2> QED BY <2>1, <2>2, <2>3, <2>4
<1>5. CASE UNCHANGED vars
  BY <1>5 DEF vars
<1> QED BY <1>1, <1>2, <1>3, <1>4, <1>5 DEF Next

(* No random double verify() tries a converter on has an odd significand,  *)
(* whatever the fixed cases and the number of random ones, for every odd   *)
(* multiplier and increment.                                               *)
THEOREM AlwaysEven == Spec => []EvenOnly
<1>1. EvenInv => EvenOnly
  <2>1. \A n \in DOMAIN verified : ~(Even(verified[n]) /\ verified[n].sig % 2 = 1)
    BY SMT DEF Even
  <2> QED BY <2>1 DEF EvenInv, EvenOnly, Even
<1> QED BY InitEven, NextEven, <1>1, PTL DEF Spec
-----------------------------------------------------------------------------
(* Limiting a number to some digits gives a number, or infinity.           *)
LEMMA LimitedIsDouble ==
  ASSUME NEW v \in Double, NEW digits \in Nat
  PROVE  Limited(v, digits) \in Double
<1>1. ASSUME NEW m, NEW k PROVE Read(v, m, k) \in Double
  <2> DEFINE near == [negative : {v.negative}, sig : 0 .. implicit_bit - 1,
                      exp : {v.exp - 1, v.exp, v.exp + 1} \cap 0 .. exp_mask - 1]
             inf  == [negative |-> v.negative, exp |-> exp_mask, sig |-> 0]
  <2>1. v.negative \in BOOLEAN
    BY DEF Double
  <2>2. near \subseteq Double
    BY <2>1, GeneratorAssumption DEF Double
  <2>3. inf \in Double
    BY <2>1, GeneratorAssumption DEF Double
  <2>4. Read(v, m, k) =
          IF \E w \in near : RoundTrips(w, m, k)
            THEN CHOOSE w \in near : RoundTrips(w, m, k) ELSE inf
    BY DEF Read
  <2> HIDE DEF near, inf
  <2>5. CASE \E w \in near : RoundTrips(w, m, k)
    BY <2>2, <2>4, <2>5, Zenon
  <2>6. CASE ~\E w \in near : RoundTrips(w, m, k)
    BY <2>3, <2>4, <2>6
  <2> QED BY <2>5, <2>6
<1> QED BY <1>1 DEF Limited

(* The blocks of the series: a number that is not the last one belongs to  *)
(* a block in front of the end.                                            *)
LEMMA BlockOf ==
  ASSUME NEW len \in Nat, NEW size \in Nat \ {0}, NEW blocks \in Nat, len < blocks * size
  PROVE  len \div size + 1 \in 1 .. blocks
<1> DEFINE q == len \div size
<1>1. q \in Nat /\ q * size <= len
  BY SMT
<1> HIDE DEF q
<1>2. ASSUME q >= blocks PROVE FALSE
  <2>1. q - blocks \in Nat /\ (q - blocks) * size \in Nat
    BY <1>1, <1>2
  <2>2. q * size = (q - blocks) * size + blocks * size
    BY <1>1, SMT
  <2> QED BY <1>1, <2>1, <2>2
<1> QED BY <1>1, <1>2 DEF q

(* The series are not longer than they should be, which keeps the digit    *)
(* count in its range.                                                     *)
NumbersInv ==
  /\ TypeOK
  /\ pc # "done" => Len(data) < max_digits * num_doubles_per_digit

LEMMA InitNumbers == Init => NumbersInv
<1>1. /\ 0 \in 0 .. 2^half_bits - 1 /\ 1 \in 1..max_digits
      /\ 0 < max_digits * num_doubles_per_digit
  BY GeneratorAssumption
<1> QED BY <1>1 DEF Init, NumbersInv, TypeOK

LEMMA NextNumbers == NumbersInv /\ [Next]_vars => NumbersInv'
<1> SUFFICES ASSUME NumbersInv, [Next]_vars PROVE NumbersInv'
  OBVIOUS
<1> USE DEF NumbersInv
<1>0. /\ pc \in {"verify", "digits", "done"}
      /\ seed_ \in 0 .. 2^half_bits - 1
      /\ d \in Double \cup {NoValue}
      /\ digit \in 1..max_digits
      /\ verified \in Seq(Double)
      /\ data \in Seq(Double)
  BY DEF TypeOK
<1>1. CASE Draw
  <2> DEFINE high == next(seed_)
             low  == next(high)
  <2>1. ASSUME NEW s \in Nat PROVE next(s) \in 0 .. 2^half_bits - 1
    <3>1. multiplier * s + increment \in Nat
      BY GeneratorAssumption
    <3> QED BY <3>1, GeneratorAssumption DEF next
  <2>2. seed_ \in Nat
    BY <1>0, GeneratorAssumption
  <2>3. high \in Nat
    BY <2>1, <2>2, GeneratorAssumption
  <2>4. low \in 0 .. 2^half_bits - 1 /\ low \in Nat
    BY <2>1, <2>3, GeneratorAssumption
  <2>5. seed_' = low /\ d' = Pair(high, low) /\ UNCHANGED <<pc, digit, verified, data>>
    BY <1>1 DEF Draw
  <2> HIDE DEF high, low
  <2> QED BY <1>0, <2>3, <2>4, <2>5, PairIsDouble DEF TypeOK
<1>2. CASE VerifyValue
  <2>1. pc = "verify" /\ d \in Double
    BY <1>0, <1>2 DEF VerifyValue, Usable
  <2>2. verified' = Append(verified, d) /\ d' = NoValue /\ UNCHANGED <<digit, data>>
    BY <1>2 DEF VerifyValue
  <2>3. pc' \in {"verify", "digits"} /\ seed_' \in {seed_, 0}
    BY <1>2, <2>1 DEF VerifyValue
  <2>4. 0 \in 0 .. 2^half_bits - 1
    BY GeneratorAssumption
  <2>5. verified' \in Seq(Double)
    BY <1>0, <2>1, <2>2
  <2> QED BY <1>0, <2>1, <2>2, <2>3, <2>4, <2>5 DEF TypeOK
<1>3. CASE LimitDigits
  <2> DEFINE all == max_digits * num_doubles_per_digit
  <2>1. pc = "digits" /\ d \in Double
    BY <1>0, <1>3 DEF LimitDigits, Usable
  <2>2. Limited(d, digit) \in Double
    BY <1>0, <2>1, LimitedIsDouble
  <2>3. data' = Append(data, Limited(d, digit)) /\ d' = NoValue /\ UNCHANGED <<seed_, verified>>
    BY <1>3 DEF LimitDigits
  <2>4. data' \in Seq(Double) /\ Len(data') = Len(data) + 1
    BY <1>0, <2>2, <2>3
  <2>5. CASE Len(data') = all
    <3>1. pc' = "done" /\ digit' = digit
      BY <1>3, <2>5 DEF LimitDigits
    <3> QED BY <1>0, <2>3, <2>4, <3>1 DEF TypeOK
  <2>6. CASE Len(data') # all
    <3>1. pc' = pc /\ digit' = Len(data') \div num_doubles_per_digit + 1
      BY <1>3, <2>6 DEF LimitDigits
    <3>2. all \in Nat /\ Len(data) \in Nat
      BY <1>0, GeneratorAssumption
    <3>3. Len(data') \in Nat /\ Len(data') < all
      BY <2>1, <2>4, <2>6, <3>2
    <3>4. digit' \in 1..max_digits
      BY <3>1, <3>3, BlockOf, GeneratorAssumption
    <3> QED BY <1>0, <2>3, <2>4, <3>1, <3>3, <3>4 DEF TypeOK
  <2> QED BY <2>5, <2>6
<1>4. CASE VerifyCase
  <2>1. /\ verified' = Append(verified, cases[Len(verified) + 1])
        /\ UNCHANGED <<pc, seed_, d, digit, data>>
    BY <1>4 DEF VerifyCase
  <2>2. cases[Len(verified) + 1] \in Double
    BY <1>0, <1>4, GeneratorAssumption DEF VerifyCase
  <2>3. verified' \in Seq(Double)
    BY <1>0, <2>1, <2>2
  <2> QED BY <1>0, <2>1, <2>3 DEF TypeOK
<1>5. CASE UNCHANGED vars
  BY <1>0, <1>5 DEF vars, TypeOK
<1> QED BY <1>1, <1>2, <1>3, <1>4, <1>5 DEF Next

(* Every number drawn and every number of the series is a double, and the  *)
(* digit count stays in the range of the series.                           *)
THEOREM TypeCorrect == Spec => []TypeOK
<1>1. NumbersInv => TypeOK
  BY DEF NumbersInv
<1> QED BY InitNumbers, NextNumbers, <1>1, PTL DEF Spec
=============================================================================
