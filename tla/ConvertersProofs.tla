-------------------------- MODULE ConvertersProofs --------------------------
(***************************************************************************)
(* uscale and ryu write the shortest and closest decimal of every ordinary *)
(* value, for every width, table and logarithm that satisfies the named    *)
(* assumptions of module Converters.  Of uscale: the end points of its     *)
(* interval are the midpoints of the value, its floors and ceilings are    *)
(* exact, and what it picks between them is the best decimal of            *)
(* BinaryFloatProofs.  Of ryu: its floors are exact, its flags say whether *)
(* they cut anything off, its loops stop at the last level at which        *)
(* something is in the interval, and what it rounds to there is the best   *)
(* decimal too.                                                            *)
(***************************************************************************)
EXTENDS Converters, BinaryFloatProofs, NaturalFacts, SequenceTheorems

(* The widths.                                                             *)
LEMMA Widths ==
  /\ num_sig_bits \in Nat \ {0} /\ uscale_bits \in Nat
  /\ U!spare_bits \in Nat /\ U!spare_bits >= 3
  /\ uscale_bits = num_sig_bits + U!spare_bits + 1
  /\ exp_mask \in Nat \ {0}
BY ConvertersAssumption, UscaleWidthAssumption DEF U!UscaleParameters, U!spare_bits

(* The powers of two of the words, and their products.                     *)
LEMMA Twos2 ==
  /\ PowersUpTo(2, U!spare_bits + uscale_bits + 1)
  /\ \A n \in 0 .. U!spare_bits + uscale_bits + 1 : 2^n \in Nat \ {0}
  /\ \A m, n \in Nat : m + n <= U!spare_bits + uscale_bits + 1 => 2^(m + n) = 2^m * 2^n
<1> DEFINE L == U!spare_bits + uscale_bits
<1>1. L \in Nat /\ L + 1 \in Nat \ {0}
  BY Widths
<1>2. 2^0 = 1
  OBVIOUS
<1>3. \A n \in 0 .. L : 2^(n + 1) = 2 * 2^n
  BY UscalePowersAssumption DEF PowerAt
<1> HIDE DEF L
<1>4. PowersUpTo(2, L + 1)
  BY <1>1, <1>2, <1>3 DEF PowersUpTo
<1>5. 2 \in Nat \ {0}
  OBVIOUS
<1>6. \A n \in 0 .. L + 1 : 2^n \in Nat \ {0}
  BY <1>1, <1>4, <1>5, PowerPositive
<1>7. \A m, n \in 0 .. L + 1 : m + n <= L + 1 => 2^(m + n) = 2^m * 2^n
  BY <1>1, <1>4, <1>5, PowerSum
<1>8. \A m, n \in Nat : m + n <= L + 1 => 2^(m + n) = 2^m * 2^n
  <2> SUFFICES ASSUME NEW m \in Nat, NEW n \in Nat, m + n <= L + 1
               PROVE  2^(m + n) = 2^m * 2^n
    OBVIOUS
  <2>1. m \in 0 .. L + 1 /\ n \in 0 .. L + 1
    BY <1>1
  <2> QED BY <1>7, <2>1
<1> QED BY <1>4, <1>6, <1>8 DEF L

(* A word is twice the significand with the implicit bit at its top.       *)
LEMMA WordIs ==
  /\ implicit_bit \in Nat \ {0} /\ implicit_bit % 2 = 0
  /\ 2^U!spare_bits \in Nat \ {0}
  /\ U!UWord = 2 * (implicit_bit * 2^U!spare_bits)
  /\ U!UWord \div 2 = implicit_bit * 2^U!spare_bits
<1> DEFINE s == U!spare_bits
           n == num_sig_bits
           I == 2^n
           W == 2^s
<1>1. n \in Nat \ {0} /\ s \in Nat /\ uscale_bits = (n + s) + 1
  BY Widths
<1> HIDE DEF s, n
<1>2. n \in 0 .. s + uscale_bits + 1 /\ s \in 0 .. s + uscale_bits + 1
      /\ n + s <= s + uscale_bits + 1 /\ (n + s) + 1 <= s + uscale_bits + 1
      /\ n - 1 \in Nat /\ (n - 1) + 1 = n /\ n <= s + uscale_bits + 1
      /\ n + s \in Nat
  BY <1>1
<1>3. I \in Nat \ {0} /\ W \in Nat \ {0}
  BY <1>2, Twos2 DEF s
<1>4. 2^(n + s) = I * W
  BY <1>1, <1>2, Twos2 DEF s
<1>5. 2^((n + s) + 1) = 2^(n + s) * 2^1
  BY <1>1, <1>2, Twos2 DEF s
<1>6. 2^1 = 2
  OBVIOUS
<1>7. 2^n = 2^(n - 1) * 2^1 /\ 2^(n - 1) \in Nat
  <2>1. n - 1 \in 0 .. s + uscale_bits + 1 /\ (n - 1) + 1 <= s + uscale_bits + 1
    BY <1>1
  <2>2. 2^((n - 1) + 1) = 2^(n - 1) * 2^1
    BY <1>2, <2>1, Twos2 DEF s
  <2>3. 2^(n - 1) \in Nat
    BY <2>1, Twos2 DEF s
  <2> QED BY <1>2, <2>2, <2>3
<1>8. I % 2 = 0
  <2> DEFINE h == 2^(n - 1)
  <2>1. I = h * 2 /\ h \in Nat
    BY <1>6, <1>7
  <2> HIDE DEF h, I
  <2> QED BY <2>1
<1> HIDE DEF I, W
<1>9. I * W \in Nat
  BY <1>3
<1>10. U!UWord = 2 * (I * W)
  <2>1. U!UWord = 2^((n + s) + 1)
    BY <1>1 DEF U!UWord
  <2> QED BY <1>4, <1>5, <1>6, <1>9, <2>1
<1>11. U!UWord \div 2 = I * W
  BY <1>9, <1>10
<1> QED BY <1>3, <1>8, <1>10, <1>11 DEF I, W, n, s, implicit_bit

(* An ordinary value: a positive significand of at most one bit more than  *)
(* is stored.                                                              *)
LEMMA OrdinaryIs ==
  ASSUME NEW v \in Ordinary
  PROVE  /\ v \in Double /\ IsOrdinary(v)
         /\ v.sig \in 0 .. implicit_bit - 1 /\ v.exp \in 0..exp_mask
         /\ v.exp = 0 => v.sig # 0
         /\ BinSig(v) \in 1 .. 2 * implicit_bit - 1
         /\ BinExp(v) \in Int
         /\ HalfGapBelow(v) => BinSig(v) = implicit_bit /\ BinSig(v) % 2 = 0
<1>1. v \in Double /\ IsOrdinary(v)
  BY UscaleWidthAssumption DEF Ordinary
<1>2. v.sig \in 0 .. implicit_bit - 1 /\ v.exp \in 0..exp_mask
  BY <1>1 DEF Double
<1>3. v.exp = 0 => v.sig # 0
  BY <1>1 DEF IsOrdinary, IsZero
<1> DEFINE I == implicit_bit
<1>4. I \in Nat \ {0} /\ I % 2 = 0
  BY WordIs
<1>5. BinSig(v) = IF v.exp = 0 THEN v.sig ELSE v.sig + I
  BY DEF BinSig
<1>6. HalfGapBelow(v) => v.sig = 0 /\ v.exp # 0
  BY <1>2 DEF HalfGapBelow
<1>7. exp_offset \in Int
  BY Widths DEF exp_offset
<1>8. BinExp(v) \in Int
  BY <1>2, <1>7, Widths DEF BinExp
<1> HIDE DEF I
<1>9. BinSig(v) \in 1 .. 2 * I - 1
  BY <1>2, <1>3, <1>4, <1>5 DEF I
<1>10. HalfGapBelow(v) => BinSig(v) = I /\ BinSig(v) % 2 = 0
  BY <1>4, <1>5, <1>6
<1> QED BY <1>1, <1>2, <1>3, <1>8, <1>9, <1>10 DEF I

(* A subnormal can be moved to the top of the word, in one way.            *)
LEMMA TopOfWord ==
  ASSUME NEW sig \in 1 .. implicit_bit - 1
  PROVE  \E n \in 0..uscale_bits :
           sig * 2^(U!spare_bits + n) \in U!UWord \div 2 .. U!UWord - 1
<1> DEFINE I == implicit_bit
           W == 2^U!spare_bits
           B == {n \in 0..num_sig_bits : sig * 2^n < 2 * I}
           L == U!spare_bits + uscale_bits + 1
<1>1. /\ I \in Nat \ {0} /\ W \in Nat \ {0}
      /\ U!UWord = 2 * (I * W) /\ U!UWord \div 2 = I * W
  BY WordIs
<1>2. num_sig_bits \in Nat /\ uscale_bits \in Nat /\ U!spare_bits \in Nat
      /\ uscale_bits = num_sig_bits + U!spare_bits + 1
  BY Widths
<1>3. \A n \in 0 .. num_sig_bits :
        /\ 2^n \in Nat \ {0} /\ 2^(n + 1) = 2^n * 2
        /\ 2^(U!spare_bits + n) = W * 2^n
  <2> SUFFICES ASSUME NEW n \in 0 .. num_sig_bits
               PROVE  /\ 2^n \in Nat \ {0} /\ 2^(n + 1) = 2^n * 2
                      /\ 2^(U!spare_bits + n) = W * 2^n
    OBVIOUS
  <2>1. n \in Nat /\ n \in 0 .. L /\ n + 1 <= L /\ U!spare_bits + n <= L
    BY <1>2
  <2>2. 2^n \in Nat \ {0} /\ 2^(n + 1) = 2^n * 2^1 /\ 2^(U!spare_bits + n) = W * 2^n
    BY <1>2, <2>1, Twos2
  <2>3. 2^1 = 2
    OBVIOUS
  <2> QED BY <2>2, <2>3
<1>4. sig \in Nat \ {0} /\ sig < I
  BY <1>1
<1>5. 0 \in B
  <2>1. 2^0 = 1 /\ 0 \in 0..num_sig_bits
    BY <1>2
  <2> HIDE DEF I
  <2>2. sig * 1 < 2 * I
    BY <1>1, <1>4
  <2> QED BY <2>1, <2>2
<1>6. PICK n \in B : \A m \in B : m <= n
  <2>1. B \subseteq 0..num_sig_bits /\ B # {}
    BY <1>5
  <2> HIDE DEF B
  <2> QED BY <1>2, <2>1, GreatestNatural
<1> DEFINE p == 2^n
<1>7. n \in 0..num_sig_bits /\ sig * p < 2 * I
  OBVIOUS
<1>8. p \in Nat \ {0} /\ 2^(n + 1) = p * 2 /\ 2^(U!spare_bits + n) = W * p
  BY <1>3, <1>7
<1>9. I <= sig * p
  <2>1. CASE n = num_sig_bits
    <3>1. p = I
      BY <2>1 DEF implicit_bit
    <3> HIDE DEF I, p
    <3>2. 1 * I <= sig * I
      BY <1>1, <1>4, MonotoneProduct
    <3> QED BY <1>1, <3>1, <3>2
  <2>2. CASE n # num_sig_bits
    <3>1. n + 1 \in 0..num_sig_bits /\ ~(n + 1 <= n)
      BY <1>2, <1>7, <2>2
    <3>2. n + 1 \notin B
      BY <1>6, <3>1
    <3>3. ~(sig * 2^(n + 1) < 2 * I)
      BY <3>1, <3>2
    <3> HIDE DEF I, p
    <3>4. sig * (p * 2) = 2 * (sig * p) /\ sig * p \in Nat
      BY <1>4, <1>8
    <3> QED BY <1>1, <1>8, <3>3, <3>4
  <2> QED BY <2>1, <2>2
<1> HIDE DEF B, p
<1>10. sig * (W * p) = (sig * p) * W
  <2> HIDE DEF W
  <2> QED BY <1>1, <1>4, <1>8
<1> DEFINE x == sig * p
<1>11. x \in Nat /\ I <= x /\ x < 2 * I
  BY <1>4, <1>7, <1>8, <1>9 DEF p
<1> HIDE DEF x, I, W
<1>12. I * W <= x * W /\ x * W < (2 * I) * W
  <2>1. I \in Int /\ x \in Int /\ 2 * I \in Int
    BY <1>1, <1>11
  <2> QED BY <1>1, <1>11, <2>1, MonotoneProduct
<1>13. (2 * I) * W = 2 * (I * W) /\ x * W \in Int /\ I * W \in Int
  BY <1>1, <1>11
<1>14. x * W \in U!UWord \div 2 .. U!UWord - 1
  BY <1>1, <1>12, <1>13
<1>15. sig * 2^(U!spare_bits + n) = x * W
  BY <1>8, <1>10 DEF x
<1> QED BY <1>2, <1>7, <1>14, <1>15

(* unpack64: m is the significand at a place b of the word, e the exponent *)
(* less that place; only a power of two that is no subnormal has just the  *)
(* top bit.                                                                *)
Place64(v) == BinExp(v) - U!unpack64(v).e

LEMMA UnpackIs ==
  ASSUME NEW v \in Ordinary
  PROVE  LET f == U!unpack64(v)
             b == Place64(v)
             least == 1 - U!exp_bias
         IN /\ f.e \in Int /\ least \in Int
            /\ b \in U!spare_bits .. U!spare_bits + uscale_bits
            /\ BinExp(v) = f.e + b
            /\ f.m = BinSig(v) * 2^b
            /\ IF v.exp = 0
                 THEN f.e < least /\ b = U!spare_bits + (least - f.e)
                 ELSE /\ f.e = least + (v.exp - 1) /\ b = U!spare_bits
                      /\ f.m = U!UWord \div 2 <=> v.sig = 0
<1> DEFINE f == U!unpack64(v)
           b == Place64(v)
           least == 1 - U!exp_bias
           s == U!spare_bits
           W == 2^s
           I == implicit_bit
<1>1. /\ v.sig \in 0 .. I - 1 /\ v.exp \in 0..exp_mask
      /\ v.exp = 0 => v.sig # 0
  BY OrdinaryIs
<1>2. /\ I \in Nat \ {0} /\ W \in Nat \ {0}
      /\ U!UWord = 2 * (I * W) /\ U!UWord \div 2 = I * W
  BY WordIs
<1>3. /\ exp_mask \in Nat /\ s \in Nat /\ num_sig_bits \in Nat /\ uscale_bits \in Nat
      /\ uscale_bits = num_sig_bits + s + 1
  BY Widths
<1>4. U!exp_bias = exp_mask \div 2 + (uscale_bits - 1)
  <2>1. exp_mask \div 2 \in Int
    BY <1>3
  <2> QED BY <1>3, <2>1 DEF U!exp_bias
<1>5. exp_offset = num_sig_bits + exp_mask \div 2
  BY DEF exp_offset
<1>6. least \in Int /\ exp_offset \in Int /\ 1 - exp_offset = least + s
  <2>1. exp_mask \div 2 \in Int
    BY <1>3
  <2> QED BY <1>3, <1>4, <1>5, <2>1
<1> HIDE DEF least, s
<1>7. CASE v.exp = 0
  <2> DEFINE n == CHOOSE n \in 0..uscale_bits :
                    v.sig * 2^(s + n) \in U!UWord \div 2 .. U!UWord - 1
  <2>1. v.sig \in 1 .. I - 1
    BY <1>1, <1>2, <1>7
  <2>2. n \in 0..uscale_bits /\ v.sig * 2^(s + n) \in U!UWord \div 2 .. U!UWord - 1
    BY <2>1, TopOfWord DEF s
  <2>3. f = [m |-> v.sig * 2^(s + n), e |-> (1 - U!exp_bias) - n]
    BY <1>7 DEF U!unpack64, s
  <2> HIDE DEF n
  <2>4. f.e = least - n /\ f.m = v.sig * 2^(s + n)
    BY <2>3 DEF least
  <2>5. BinSig(v) = v.sig /\ BinExp(v) = 1 - exp_offset
    BY <1>7 DEF BinSig, BinExp
  <2>6. n # 0
    <3> SUFFICES ASSUME n = 0 PROVE FALSE
      OBVIOUS
    <3>1. v.sig * W \in I * W .. 2 * (I * W) - 1
      <4>1. s + n = s
        BY <1>3
      <4> QED BY <1>2, <2>2, <4>1
    <3> HIDE DEF I, W
    <3>2. v.sig * W < I * W
      BY <1>2, <2>1, MonotoneProduct
    <3>3. v.sig * W \in Int /\ I * W \in Int
      BY <1>2, <2>1
    <3> QED BY <3>1, <3>2, <3>3
  <2>7. b = s + n
    BY <1>3, <1>6, <2>2, <2>4, <2>5 DEF Place64
  <2>8. f.e \in Int /\ f.e < least /\ b = s + (least - f.e) /\ BinExp(v) = f.e + b
    BY <1>3, <1>6, <2>2, <2>4, <2>5, <2>6, <2>7
  <2>9. b \in s .. s + uscale_bits /\ f.m = BinSig(v) * 2^b
    BY <1>3, <2>2, <2>4, <2>5, <2>7
  <2> QED BY <1>6, <1>7, <2>8, <2>9 DEF least, s
<1>8. CASE v.exp # 0
  <2>1. f = [m |-> U!UWord \div 2 + v.sig * W, e |-> v.exp - U!exp_bias]
    BY <1>8 DEF U!unpack64, s
  <2>2. f.m = I * W + v.sig * W /\ f.e = v.exp - U!exp_bias
    BY <1>2, <2>1
  <2>3. BinSig(v) = v.sig + I /\ BinExp(v) = v.exp - exp_offset
    BY <1>8 DEF BinSig, BinExp
  <2>4. f.e = least + (v.exp - 1) /\ f.e \in Int
    BY <1>1, <1>3, <1>4, <2>2 DEF least
  <2>5. b = s /\ BinExp(v) = f.e + b
    BY <1>1, <1>3, <1>6, <2>3, <2>4 DEF Place64
  <2>6. f.m = (v.sig + I) * W
    <3> HIDE DEF I, W
    <3> QED BY <1>1, <1>2, <2>2
  <2>7. f.m = I * W <=> v.sig = 0
    <3> HIDE DEF I, W
    <3>1. v.sig * W = 0 <=> v.sig = 0
      BY <1>1, <1>2
    <3>2. v.sig * W \in Int /\ I * W \in Int
      BY <1>1, <1>2
    <3> QED BY <2>2, <3>1, <3>2
  <2>8. b \in s .. s + uscale_bits
    BY <1>3, <2>5
  <2> QED BY <1>2, <1>6, <1>8, <2>3, <2>4, <2>5, <2>6, <2>7, <2>8 DEF least, s
<1> QED BY <1>7, <1>8

(* The end points of the code's interval are the midpoints to the          *)
(* neighbours, its p the negative of the exponent of ten.                  *)
LEMMA IntervalIs ==
  ASSUME NEW v \in Ordinary
  PROVE  LET f == U!unpack64(v)
             i == U!Interval(f.m, f.e)
             r == 2^(Place64(v) - 2)
         IN /\ r \in Nat \ {0}
            /\ i.p = -UscaleExp(v)
            /\ i.min = LowerQuarters(v) * r
            /\ f.m = (4 * BinSig(v)) * r
            /\ i.max = UpperQuarters(v) * r
            /\ i.odd = BinSig(v) % 2
<1> DEFINE f == U!unpack64(v)
           i == U!Interval(f.m, f.e)
           b == Place64(v)
           c == BinSig(v)
           r == 2^(b - 2)
           s == U!spare_bits
           least == 1 - U!exp_bias
           narrow == f.m = U!UWord \div 2 /\ f.e > least
<1>1. /\ f.e \in Int /\ least \in Int
      /\ b \in s .. s + uscale_bits
      /\ BinExp(v) = f.e + b
      /\ f.m = c * 2^b
      /\ IF v.exp = 0
           THEN f.e < least /\ b = s + (least - f.e)
           ELSE /\ f.e = least + (v.exp - 1) /\ b = s
                /\ f.m = U!UWord \div 2 <=> v.sig = 0
  BY UnpackIs
<1>2. s \in Nat /\ s >= 3 /\ uscale_bits \in Nat
  BY Widths
<1>3. v.exp \in Nat /\ c \in Nat \ {0}
  <2>1. v.exp \in 0..exp_mask /\ exp_mask \in Nat
    BY OrdinaryIs, Widths
  <2>2. c \in 1 .. 2 * implicit_bit - 1 /\ implicit_bit \in Nat
    BY OrdinaryIs, WordIs
  <2> HIDE DEF c
  <2> QED BY <2>1, <2>2
<1>4. i = [p   |-> IF narrow THEN -U!skewed(f.e + (IF ~narrow /\ f.e < least THEN s + (least - f.e) ELSE s))
                             ELSE -U!log10Pow2(f.e + (IF ~narrow /\ f.e < least THEN s + (least - f.e) ELSE s)),
           min |-> f.m - (IF narrow THEN 2^((IF ~narrow /\ f.e < least THEN s + (least - f.e) ELSE s) - 2)
                                    ELSE 2^((IF ~narrow /\ f.e < least THEN s + (least - f.e) ELSE s) - 1)),
           max |-> f.m + 2^((IF ~narrow /\ f.e < least THEN s + (least - f.e) ELSE s) - 1),
           odd |-> (f.m \div 2^(IF ~narrow /\ f.e < least THEN s + (least - f.e) ELSE s)) % 2]
  BY DEF U!Interval
<1> HIDE DEF s, least, c
<1>5. narrow <=> HalfGapBelow(v)
  <2>1. CASE v.exp = 0
    BY <1>1, <2>1 DEF HalfGapBelow
  <2>2. CASE v.exp # 0
    <3>1. f.e > least <=> v.exp > 1
      BY <1>1, <1>3, <2>2
    <3> QED BY <1>1, <2>2, <3>1 DEF HalfGapBelow
  <2> QED BY <2>1, <2>2
<1>6. (IF ~narrow /\ f.e < least THEN s + (least - f.e) ELSE s) = b
  <2>1. CASE v.exp = 0
    BY <1>1, <2>1
  <2>2. CASE v.exp # 0
    <3>1. ~(f.e < least)
      BY <1>1, <1>3, <2>2
    <3> QED BY <1>1, <2>2, <3>1
  <2> QED BY <2>1, <2>2
<1>7. /\ r \in Nat \ {0} /\ 2^(b - 1) = 2 * r /\ 2^b = 4 * r
  <2>1. b - 2 \in Nat /\ b - 2 \in 0 .. s + uscale_bits + 1
        /\ (b - 2) + 1 <= s + uscale_bits + 1 /\ (b - 2) + 1 = b - 1
        /\ (b - 2) + 2 <= s + uscale_bits + 1 /\ (b - 2) + 2 = b
        /\ 1 \in Nat /\ 2 \in Nat
    BY <1>1, <1>2
  <2>2. 2^(b - 2) \in Nat \ {0}
    BY <2>1, Twos2 DEF s
  <2>3. 2^((b - 2) + 1) = 2^(b - 2) * 2^1
    BY <2>1, Twos2 DEF s
  <2>4. 2^((b - 2) + 2) = 2^(b - 2) * 2^2
    BY <2>1, Twos2 DEF s
  <2>5. 2^1 = 2 /\ 2^2 = 4
    OBVIOUS
  <2> HIDE DEF b
  <2> QED BY <2>1, <2>2, <2>3, <2>4, <2>5
<1>8. i = [p   |-> IF HalfGapBelow(v) THEN -U!skewed(BinExp(v)) ELSE -U!log10Pow2(BinExp(v)),
           min |-> f.m - (IF HalfGapBelow(v) THEN 2^(b - 2) ELSE 2^(b - 1)),
           max |-> f.m + 2^(b - 1),
           odd |-> (f.m \div 2^b) % 2]
  BY <1>1, <1>4, <1>5, <1>6
<1>9. i.p = -UscaleExp(v)
  BY <1>8 DEF UscaleExp
<1>10. f.m = (4 * c) * r
  <2> HIDE DEF f, r, b
  <2> QED BY <1>1, <1>3, <1>7
<1>11. i.min = LowerQuarters(v) * r
  <2>1. i.min = f.m - (IF HalfGapBelow(v) THEN r ELSE 2 * r)
    BY <1>7, <1>8
  <2>2. LowerQuarters(v) = 4 * c - (IF HalfGapBelow(v) THEN 1 ELSE 2)
    BY DEF LowerQuarters, c
  <2> HIDE DEF f, r, i
  <2>3. (4 * c - 1) * r = (4 * c) * r - r /\ (4 * c - 2) * r = (4 * c) * r - 2 * r
    BY <1>3, <1>7
  <2> QED BY <1>10, <2>1, <2>2, <2>3
<1>12. i.max = UpperQuarters(v) * r
  <2>1. i.max = f.m + 2 * r
    BY <1>7, <1>8
  <2>2. UpperQuarters(v) = 4 * c + 2
    BY DEF UpperQuarters, c
  <2> HIDE DEF f, r, i
  <2>3. (4 * c + 2) * r = (4 * c) * r + 2 * r
    BY <1>3, <1>7
  <2> QED BY <1>10, <2>1, <2>2, <2>3
<1>13. i.odd = c % 2
  <2>1. i.odd = (f.m \div 2^b) % 2
    BY <1>8
  <2> DEFINE x == 2^b
  <2>2. x \in Nat \ {0}
    BY <1>7
  <2> HIDE DEF x
  <2>3. (x * c + 0) \div x = c
    <3>1. 0 \in 0 .. x - 1 /\ c \in Nat
      BY <1>3, <2>2
    <3> QED BY <2>2, <3>1, DivisionUnique
  <2>4. x * c + 0 = c * x
    BY <1>3, <2>2
  <2> QED BY <1>1, <2>1, <2>3, <2>4 DEF x
<1> QED BY <1>7, <1>9, <1>10, <1>11, <1>12, <1>13 DEF c

(* What Short computes from them.                                          *)
LowEstimate(v)  == UscaleEstimate(v, LowerQuarters(v))
MidEstimate(v)  == UscaleEstimate(v, 4 * BinSig(v))
HighEstimate(v) == UscaleEstimate(v, UpperQuarters(v))
DMin(v) == (LowEstimate(v) + (BinSig(v) % 2) + 3) \div 4
DMax(v) == (HighEstimate(v) - (BinSig(v) % 2)) \div 4
Round(u) == (u + 1 + ((u \div 4) % 2)) \div 4

LEMMA ShortIs ==
  ASSUME NEW v \in Ordinary
  PROVE  U!Short(v) =
           CASE (DMax(v) \div 10) * 10 >= DMin(v) -> U!trimZeros(DMax(v) \div 10, UscaleExp(v) + 1)
             [] (DMax(v) \div 10) * 10 < DMin(v) /\ DMin(v) < DMax(v) ->
                  <<Round(MidEstimate(v)), UscaleExp(v)>>
             [] OTHER -> <<DMin(v), UscaleExp(v)>>
<1> DEFINE f == U!unpack64(v)
           i == U!Interval(f.m, f.e)
           b == Place64(v)
           k == UscaleExp(v)
           r == 2^(b - 2)
           pre == U!prescale(f.e, i.p, U!log2Pow10(i.p))
           dmin == U!uceil(U!unudge(U!uscale_impl(i.min, pre), i.odd))
           dmax == U!ufloor(U!unudge(U!uscale_impl(i.max, pre), -i.odd))
<1>1. /\ i.p = -k /\ i.min = LowerQuarters(v) * r /\ f.m = (4 * BinSig(v)) * r
      /\ i.max = UpperQuarters(v) * r /\ i.odd = BinSig(v) % 2
  BY IntervalIs
<1>2. k \in Int
  BY UscaleLogAssumption
<1>3. b - 2 = BinExp(v) - f.e - 2
  BY DEF Place64
<1>4. pre = U!prescale(f.e, -k, U!log2Pow10(-k))
  BY <1>1
<1>5. /\ U!uscale_impl(i.min, pre) = LowEstimate(v)
      /\ U!uscale_impl(f.m, pre) = MidEstimate(v)
      /\ U!uscale_impl(i.max, pre) = HighEstimate(v)
  <2> HIDE DEF i
  <2> QED BY <1>1, <1>3, <1>4 DEF LowEstimate, MidEstimate, HighEstimate, UscaleEstimate
<1>6. dmin = DMin(v) /\ dmax = DMax(v)
  <2>1. dmin = (LowEstimate(v) + (BinSig(v) % 2) + 3) \div 4
    BY <1>1, <1>5 DEF U!uceil, U!unudge
  <2>2. dmax = (HighEstimate(v) + (-(BinSig(v) % 2))) \div 4
    BY <1>1, <1>5 DEF U!ufloor, U!unudge
  <2>3. HighEstimate(v) \in Int /\ BinSig(v) % 2 \in Int
    <3>1. HighEstimate(v) \in Nat
      BY UscaleTableAssumption DEF HighEstimate, UscaleQuarters
    <3>2. BinSig(v) \in Int
      BY OrdinaryIs
    <3> QED BY <3>1, <3>2
  <2>4. HighEstimate(v) + (-(BinSig(v) % 2)) = HighEstimate(v) - (BinSig(v) % 2)
    BY <2>3
  <2> QED BY <2>1, <2>2, <2>4 DEF DMin, DMax
<1>7. -i.p = k /\ -(i.p - 1) = k + 1
  <2> HIDE DEF k, i
  <2> QED BY <1>1, <1>2
<1>8. U!uround(U!uscale_impl(f.m, pre)) = Round(MidEstimate(v))
  BY <1>5 DEF U!uround, Round
<1>9. U!Short(v) =
        CASE (dmax \div 10) * 10 >= dmin -> U!trimZeros(dmax \div 10, -(i.p - 1))
          [] (dmax \div 10) * 10 < dmin /\ dmin < dmax ->
               <<U!uround(U!uscale_impl(f.m, pre)), -i.p>>
          [] OTHER -> <<dmin, -i.p>>
  BY DEF U!Short
<1> HIDE DEF i, pre, f, dmin, dmax, k
<1> QED BY <1>6, <1>7, <1>8, <1>9 DEF k

-----------------------------------------------------------------------------
LEMMA DigitsKnown ==
  /\ uscale_digits \in 1..17
  /\ 20 * implicit_bit <= 10^uscale_digits /\ 10^uscale_digits <= U!UWord
  /\ TensKnown(uscale_digits)
<1>1. \E n \in 1..17 : 20 * implicit_bit <= 10^n /\ 10^n <= U!UWord
  BY UscaleWidthAssumption
<1>2. uscale_digits \in 1..17 /\ 20 * implicit_bit <= 10^uscale_digits
      /\ 10^uscale_digits <= U!UWord
  BY <1>1 DEF uscale_digits
<1> QED BY <1>2, UscalePowersAssumption DEF TensKnown

LEMMA UscaleFramed ==
  ASSUME NEW v \in Ordinary
  PROVE  Framed(v, UscaleExp(v), uscale_digits)
<1> DEFINE k == UscaleExp(v)
           M == uscale_digits
<1>1. /\ BinSig(v) \in 1 .. 2 * implicit_bit - 1 /\ BinExp(v) \in Int
      /\ HalfGapBelow(v) => BinSig(v) = implicit_bit /\ BinSig(v) % 2 = 0
  BY OrdinaryIs
<1>2. implicit_bit \in Nat \ {0}
  BY WordIs
<1>3. BinSig(v) \in Nat \ {0}
  BY <1>1, <1>2
<1>4. k \in Int /\ SpansOne(v, k)
  BY UscaleLogAssumption DEF SpansOne
<1>5. \A j \in k - 1 .. k + M : PowersNear(BinExp(v), j)
  BY UscalePowersAssumption
<1> HIDE DEF k, M
<1>6. Scalable(v, k, M)
  BY <1>1, <1>3, <1>4, <1>5, DigitsKnown DEF Scalable, M
<1> QED BY <1>1, <1>2, <1>4, <1>6, DigitsKnown DEF Framed, M, k

(* Every estimate is the exact number rounded to odd.                      *)
LEMMA EstimateExact ==
  ASSUME NEW v \in Ordinary, NEW n \in UscaleQuarters(v)
  PROVE  LET q == BinExp(v)
             k == UscaleExp(v)
         IN /\ n \in Nat
            /\ UscaleEstimate(v, n) \in Nat
            /\ RoundedToOdd(UscaleEstimate(v, n), n * Twos(q, k), Tens(q, k))
<1> DEFINE q == BinExp(v)
           k == UscaleExp(v)
           e == UscaleEstimate(v, n)
           N == Twos(q, k)
           T == Tens(q, k)
<1>1. n \in Nat
  <2>1. BinSig(v) \in Nat \ {0}
    BY UscaleFramed, FramedFactors
  <2> QED BY <2>1 DEF UscaleQuarters, LowerQuarters, UpperQuarters
<1>2. N \in Nat /\ T \in Nat
  BY UscaleFramed, FramedFactors
<1>3. e \in Nat /\ IsRoundToOdd(e, n, q, k)
  BY UscaleTableAssumption
<1> SUFFICES RoundedToOdd(e, n * N, T)
  BY <1>1, <1>3
<1> HIDE DEF q, k, e
<1>4. CASE e % 2 = 0
  <2>1. LeqProd(e, T, n, N) /\ LeqProd(n, N, e, T)
    BY <1>3, <1>4 DEF IsRoundToOdd
  <2> HIDE DEF N, T
  <2>2. e * T <= n * N /\ n * N <= e * T
    BY <2>1, <1>1, <1>2, <1>3, LeqProdExact
  <2>3. e * T \in Nat /\ n * N \in Nat
    BY <1>1, <1>2, <1>3
  <2>4. n * N = e * T
    BY <2>2, <2>3
  <2> QED BY <2>4, <1>4 DEF RoundedToOdd
<1>5. CASE e % 2 # 0
  <2>1. ~LeqProd(n, N, e - 1, T) /\ ~LeqProd(e + 1, T, n, N)
    BY <1>3, <1>5 DEF IsRoundToOdd
  <2> HIDE DEF N, T
  <2>2. e - 1 \in Nat /\ e + 1 \in Nat
    BY <1>3, <1>5
  <2>3. ~(n * N <= (e - 1) * T) /\ ~((e + 1) * T <= n * N)
    BY <2>1, <2>2, <1>1, <1>2, LeqProdExact
  <2>4. (e - 1) * T \in Nat /\ (e + 1) * T \in Nat /\ n * N \in Nat
    BY <2>2, <1>1, <1>2
  <2>5. (e - 1) * T < n * N /\ n * N < (e + 1) * T
    BY <2>3, <2>4
  <2> QED BY <2>5, <1>5 DEF RoundedToOdd
<1> QED BY <1>4, <1>5

(* Comparing an estimate with an even number is comparing the exact ones.  *)
LEMMA EstimateCompares ==
  ASSUME NEW v \in Ordinary, NEW n \in UscaleQuarters(v), NEW m \in Nat, m % 2 = 0
  PROVE  LET e == UscaleEstimate(v, n)
             x == n * Twos(BinExp(v), UscaleExp(v))
             T == Tens(BinExp(v), UscaleExp(v))
         IN /\ e \in Nat
            /\ e <= m <=> x <= m * T
            /\ e < m  <=> x < m * T
            /\ m <= e <=> m * T <= x
            /\ m < e  <=> m * T < x
<1> DEFINE e == UscaleEstimate(v, n)
           N == Twos(BinExp(v), UscaleExp(v))
           T == Tens(BinExp(v), UscaleExp(v))
           x == n * N
<1>1. n \in Nat /\ e \in Nat /\ RoundedToOdd(e, x, T)
  BY EstimateExact
<1>2. N \in Nat \ {0} /\ T \in Nat \ {0}
  BY UscaleFramed, FramedFactors
<1>3. x \in Nat
  <2> HIDE DEF N
  <2> QED BY <1>1, <1>2
<1> HIDE DEF e, N, T, x
<1>4. /\ e <= m <=> x <= m * T
      /\ e < m <=> x < m * T
      /\ m <= e <=> m * T <= x
      /\ m < e <=> m * T < x
  BY <1>1, <1>2, <1>3, RoundToOddCompares
<1> QED BY <1>1, <1>4 DEF e, N, T, x

(* DMin and DMax are the ends of the interval, in units of 10^k.           *)
LEMMA BoundsExact ==
  ASSUME NEW v \in Ordinary, NEW d \in Nat
  PROVE  /\ DMin(v) \in Int /\ DMax(v) \in Int
         /\ RoundTrips(v, d, UscaleExp(v)) <=> DMin(v) <= d /\ d <= DMax(v)
<1> DEFINE k == UscaleExp(v)
           N == Twos(BinExp(v), k)
           T == Tens(BinExp(v), k)
           c == BinSig(v)
           o == c % 2
           l == LowerQuarters(v)
           u == UpperQuarters(v)
           lo == LowEstimate(v)
           hi == HighEstimate(v)
           m == 4 * d
<1>1. c \in Nat \ {0} /\ N \in Nat \ {0} /\ T \in Nat \ {0}
  BY UscaleFramed, FramedFactors
<1>2. RoundTrips(v, d, k) <=>
        IF c % 2 = 0 THEN l * N <= m * T /\ m * T <= u * N
                     ELSE l * N < m * T /\ m * T < u * N
  <2>1. u = 4 * c + 2
    BY DEF UpperQuarters
  <2> HIDE DEF u, l, c, N, T
  <2> QED BY <1>1, <2>1, RoundTripsInIntegers DEF c, N, T, l
<1>3. m \in Nat /\ m % 2 = 0 /\ l \in UscaleQuarters(v) /\ u \in UscaleQuarters(v)
  BY DEF UscaleQuarters
<1> HIDE DEF m, l, u
<1>4. lo \in Nat /\ (lo <= m <=> l * N <= m * T) /\ (lo < m <=> l * N < m * T)
  BY <1>3, EstimateCompares DEF LowEstimate, l
<1>5. hi \in Nat /\ (m <= hi <=> m * T <= u * N) /\ (m < hi <=> m * T < u * N)
  BY <1>3, EstimateCompares DEF HighEstimate, u
<1> HIDE DEF lo, hi
<1>6. o \in 0..1
  <2> HIDE DEF c
  <2> QED BY <1>1
<1>7. RoundTrips(v, d, k) <=> lo + o <= m /\ m <= hi - o
  <2>1. CASE o = 0
    BY <1>2, <1>4, <1>5, <2>1
  <2>2. CASE o = 1
    <3>1. RoundTrips(v, d, k) <=> lo < m /\ m < hi
      BY <1>2, <1>4, <1>5, <2>2
    <3> HIDE DEF o
    <3> QED BY <1>3, <1>4, <1>5, <2>2, <3>1
  <2> HIDE DEF o
  <2> QED BY <1>6, <2>1, <2>2
<1>8. DMin(v) = (lo + o + 3) \div 4 /\ DMax(v) = (hi - o) \div 4
  BY DEF DMin, DMax, lo, hi
<1> HIDE DEF o
<1>9. /\ (lo + o + 3) \div 4 \in Int /\ (hi - o) \div 4 \in Int
      /\ (lo + o + 3) \div 4 <= d <=> lo + o <= 4 * d
      /\ d <= (hi - o) \div 4 <=> 4 * d <= hi - o
  BY <1>4, <1>5, <1>6
<1> QED BY <1>7, <1>8, <1>9 DEF m, k

(* uround of the scaled value is the integer nearest to it.                *)
LEMMA RoundIsNear ==
  ASSUME NEW v \in Ordinary
  PROVE  /\ Round(MidEstimate(v)) \in Nat
         /\ IsNear(v, Round(MidEstimate(v)), UscaleExp(v))
<1> DEFINE k == UscaleExp(v)
           N == Twos(BinExp(v), k)
           T == Tens(BinExp(v), k)
           c == BinSig(v)
           n == 4 * c
           u == MidEstimate(v)
           d == Round(u)
           y == n * N
           lo == IF d = 0 THEN 0 ELSE 4 * d - 2
           hi == 4 * d + 2
<1>1. c \in Nat \ {0} /\ N \in Nat \ {0} /\ T \in Nat \ {0}
  BY UscaleFramed, FramedFactors
<1>2. n \in UscaleQuarters(v) /\ 0 \in Nat /\ 0 % 2 = 0
  BY DEF UscaleQuarters
<1>3. u \in Nat
  BY <1>2, EstimateCompares DEF MidEstimate
<1>4. d \in Nat /\ lo <= u /\ u <= hi
  <2> HIDE DEF u
  <2> QED BY <1>3 DEF Round
<1> HIDE DEF d
<1>5. lo \in Nat /\ lo % 2 = 0 /\ hi \in Nat /\ hi % 2 = 0
  BY <1>4
<1> HIDE DEF lo, hi
<1>6. lo <= u <=> lo * T <= y
  BY <1>2, <1>5, EstimateCompares DEF MidEstimate
<1>7. u <= hi <=> y <= hi * T
  BY <1>2, <1>5, EstimateCompares DEF MidEstimate
<1>8. lo * T <= y /\ y <= hi * T
  BY <1>4, <1>6, <1>7
<1> DEFINE w == (4 * d) * T
<1>9. hi * T = w + 2 * T /\ w - 2 * T <= lo * T /\ w \in Nat
  <2> HIDE DEF T
  <2>1. (4 * d + 2) * T = (4 * d) * T + 2 * T /\ (4 * d) * T \in Nat
    BY <1>1, <1>4
  <2>2. CASE d = 0
    <3>1. (4 * d) * T = 0 /\ lo = 0 /\ lo * T = 0
      BY <1>1, <2>2 DEF lo
    <3> QED BY <1>1, <2>1, <3>1 DEF hi
  <2>3. CASE d # 0
    <3>1. lo = 4 * d - 2
      BY <2>3 DEF lo
    <3>2. (4 * d - 2) * T = (4 * d) * T - 2 * T
      BY <1>1, <1>4
    <3> QED BY <1>1, <2>1, <3>1, <3>2 DEF hi
  <2> QED BY <2>2, <2>3
<1>10. y \in Nat /\ lo * T \in Nat
  <2> HIDE DEF c, N, T
  <2> QED BY <1>1, <1>5
<1>11. Place(v, d, k) = w /\ Middle(v, k) = y
  BY DEF Place, Middle
<1>12. w <= y + 2 * T /\ y <= w + 2 * T
  <2> HIDE DEF w, y, T
  <2> DEFINE a == lo * T
             b == hi * T
  <2>1. a \in Nat /\ a <= y /\ y <= b /\ b = w + 2 * T /\ w - 2 * T <= a
    BY <1>8, <1>9, <1>10
  <2> HIDE DEF a, b
  <2> QED BY <1>1, <1>9, <1>10, <2>1
<1>13. IsNear(v, d, k)
  BY <1>11, <1>12 DEF IsNear
<1> QED BY <1>4, <1>13 DEF d, k

-----------------------------------------------------------------------------
(* x and p with z zeros taken away.                                        *)
Trimming(x, p, M, t, y, z) ==
  y \in Nat /\ z \in 0..M /\ t = <<y, p + z>> /\ x = y * 10^z

(* The first powers of ten.                                                *)
FirstTen(r) ==
  CASE r = 0 -> 1 [] r = 1 -> 10 [] r = 2 -> 100 [] r = 3 -> 1000 [] r = 4 -> 10000
    [] r = 5 -> 100000 [] r = 6 -> 1000000 [] r = 7 -> 10000000 [] r = 8 -> 100000000

LEMMA TenValue ==
  ASSUME NEW r \in 0..8
  PROVE  10^r = FirstTen(r)
<1>0. CASE r = 0
  <2>1. 10^r = 1
    BY <1>0, SMT
  <2>2. FirstTen(r) = 1
    BY <1>0 DEF FirstTen
  <2> QED BY <2>1, <2>2
<1>1. CASE r = 1
  <2>1. 10^r = 10
    BY <1>1, SMT
  <2>2. FirstTen(r) = 10
    BY <1>1 DEF FirstTen
  <2> QED BY <2>1, <2>2
<1>2. CASE r = 2
  <2>1. 10^r = 100
    BY <1>2, SMT
  <2>2. FirstTen(r) = 100
    BY <1>2 DEF FirstTen
  <2> QED BY <2>1, <2>2
<1>3. CASE r = 3
  <2>1. 10^r = 1000
    BY <1>3, SMT
  <2>2. FirstTen(r) = 1000
    BY <1>3 DEF FirstTen
  <2> QED BY <2>1, <2>2
<1>4. CASE r = 4
  <2>1. 10^r = 10000
    BY <1>4, SMT
  <2>2. FirstTen(r) = 10000
    BY <1>4 DEF FirstTen
  <2> QED BY <2>1, <2>2
<1>5. CASE r = 5
  <2>1. 10^r = 100000
    BY <1>5, SMT
  <2>2. FirstTen(r) = 100000
    BY <1>5 DEF FirstTen
  <2> QED BY <2>1, <2>2
<1>6. CASE r = 6
  <2>1. 10^r = 1000000
    BY <1>6, SMT
  <2>2. FirstTen(r) = 1000000
    BY <1>6 DEF FirstTen
  <2> QED BY <2>1, <2>2
<1>7. CASE r = 7
  <2>1. 10^r = 10000000
    BY <1>7, SMT
  <2>2. FirstTen(r) = 10000000
    BY <1>7 DEF FirstTen
  <2> QED BY <2>1, <2>2
<1>8. CASE r = 8
  <2>1. 10^r = 100000000
    BY <1>8, SMT
  <2>2. FirstTen(r) = 100000000
    BY <1>8 DEF FirstTen
  <2> QED BY <2>1, <2>2
<1> QED BY <1>0, <1>1, <1>2, <1>3, <1>4, <1>5, <1>6, <1>7, <1>8

LEMMA TenOrder ==
  ASSUME NEW n \in {1, 2, 4, 8}, NEW r \in 0 .. n
  PROVE  FirstTen(n) \in Nat \ {0} /\ FirstTen(r) \in Nat \ {0} /\ FirstTen(r) <= FirstTen(n)
<1>1. r \in {0, 1, 2, 3, 4, 5, 6, 7, 8}
  OBVIOUS
<1> QED BY <1>1 DEF FirstTen

LEMMA SmallTens ==
  ASSUME NEW n \in {1, 2, 4, 8}, NEW r \in 0 .. n
  PROVE  10^n \in Nat \ {0} /\ 10^r \in Nat \ {0} /\ 10^r <= 10^n
<1>1. n \in 0..8 /\ r \in 0..8
  OBVIOUS
<1>2. 10^n = FirstTen(n)
  BY <1>1, TenValue
<1>3. 10^r = FirstTen(r)
  BY <1>1, TenValue
<1> QED BY <1>2, <1>3, TenOrder

LEMMA CutStep ==
  ASSUME NEW M, TensKnown(M), NEW x \in Nat \ {0}, x < 10^M, NEW p \in Int,
         NEW t, NEW y, NEW z, Trimming(x, p, M, t, y, z), NEW n \in {1, 2, 4, 8}
  PROVE  \E b, e : /\ Trimming(x, p, M, U!cut(t, n), b, e)
                   /\ b <= y
                   /\ y % (10^n * 10^n) # 0 => b % 10^n # 0
<1> DEFINE a == 10^n
           q == y \div a
           v == 10^z
<1>1. M \in Nat \ {0}
  BY DEF TensKnown
<1>2. a \in Nat \ {0}
  <2>1. n \in 0..n
    OBVIOUS
  <2> QED BY <2>1, SmallTens
<1>3. y \in Nat /\ z \in 0..M /\ t = <<y, p + z>> /\ x = y * v
  BY DEF Trimming
<1>4. v \in Nat \ {0}
  BY <1>3, TensOf
<1>5. U!cut(t, n) = IF y % a = 0 THEN <<y \div a, (p + z) + n>> ELSE t
  BY <1>3 DEF U!cut
<1> HIDE DEF a
<1>6. CASE y % a # 0
  <2>1. Trimming(x, p, M, U!cut(t, n), y, z)
    BY <1>5, <1>6
  <2>2. y <= y
    BY <1>3
  <2> QED BY <1>6, <2>1, <2>2 DEF a
<1>7. CASE y % a = 0
  <2>1. q \in Nat /\ y = a * q
    <3>1. q \in Nat /\ y = a * q + (y % a)
      BY <1>2, <1>3, Division
    <3> DEFINE h == a * q
    <3>2. h \in Nat
      BY <1>2, <3>1
    <3> HIDE DEF q, h
    <3>3. y = h
      BY <1>7, <3>1, <3>2 DEF h
    <3> QED BY <3>1, <3>3 DEF h
  <2> HIDE DEF q
  <2>2. q # 0
    <3> SUFFICES ASSUME q = 0 PROVE FALSE
      OBVIOUS
    <3>1. y = 0
      BY <1>2, <2>1
    <3>2. x = 0
      BY <1>3, <1>4, <3>1
    <3> QED BY <3>2
  <2>3. q <= y
    <3>1. q * 1 <= q * a
      BY <1>2, <2>1
    <3> QED BY <1>2, <2>1, <3>1
  <2>4. z + n <= M
    <3> SUFFICES ASSUME M < z + n PROVE FALSE
      BY <1>1, <1>3
    <3> DEFINE r == M - z
    <3>1. r \in 0..n /\ r \in Nat /\ z + r = M /\ z \in Nat /\ M <= M + 1
      BY <1>1, <1>3
    <3> HIDE DEF r
    <3>2. 10^r \in Nat \ {0} /\ 10^r <= a
      BY <3>1, SmallTens DEF a
    <3>3. 10^M = v * 10^r
      BY <3>1, TensSum
    <3> DEFINE b == 10^r
    <3> HIDE DEF v, b
    <3>4. v * b <= v * a
      <4>1. b * v <= a * v
        BY <1>2, <1>4, <3>2, MonotoneProduct DEF b
      <4> QED BY <1>2, <1>4, <3>2, <4>1 DEF b
    <3>5. v * a <= q * (v * a)
      <4> DEFINE h == v * a
      <4>1. h \in Nat \ {0}
        BY <1>2, <1>4
      <4> HIDE DEF h
      <4>2. 1 * h <= q * h
        BY <2>1, <2>2, <4>1, MonotoneProduct
      <4> QED BY <4>1, <4>2 DEF h
    <3>6. x = q * (v * a)
      BY <1>2, <1>3, <1>4, <2>1
    <3>7. v * b \in Int /\ v * a \in Int
      BY <1>2, <1>4, <3>2 DEF b
    <3> QED BY <3>3, <3>4, <3>5, <3>6, <3>7 DEF b
  <2>5. x = q * 10^(z + n)
    <3>1. z \in Nat /\ n \in Nat /\ z + n <= M + 1
      BY <1>1, <1>3, <2>4
    <3>2. 10^(z + n) = v * a
      BY <3>1, TensSum DEF a
    <3> HIDE DEF v
    <3> QED BY <1>2, <1>3, <1>4, <2>1, <3>2
  <2>6. U!cut(t, n) = <<q, p + (z + n)>>
    <3>1. (p + z) + n = p + (z + n)
      BY <1>3
    <3> QED BY <1>5, <1>7, <3>1 DEF q
  <2>7. Trimming(x, p, M, U!cut(t, n), q, z + n)
    BY <1>1, <1>3, <2>1, <2>4, <2>5, <2>6 DEF Trimming
  <2>8. q % a = 0 => y % (a * a) = 0
    <3> SUFFICES ASSUME q % a = 0 PROVE y % (a * a) = 0
      OBVIOUS
    <3> DEFINE g == q \div a
               h == a * a
    <3>1. g \in Nat /\ q = a * g
      <4>1. g \in Nat /\ q = a * g + (q % a)
        BY <1>2, <2>1, Division
      <4> DEFINE m == a * g
      <4>2. m \in Nat
        BY <1>2, <4>1
      <4> HIDE DEF g, m, h
      <4>3. q = m
        BY <4>1, <4>2 DEF m
      <4> QED BY <4>1, <4>3 DEF m
    <3> HIDE DEF g
    <3>2. y = h * g + 0
      BY <1>2, <2>1, <3>1
    <3>3. h \in Nat \ {0}
      BY <1>2
    <3> HIDE DEF h
    <3>4. 0 \in 0 .. h - 1
      BY <3>3
    <3>5. (h * g + 0) % h = 0
      BY <3>1, <3>3, <3>4, DivisionUnique
    <3> QED BY <3>2, <3>5 DEF h
  <2> QED BY <2>3, <2>7, <2>8 DEF a
<1> QED BY <1>6, <1>7

(* trimZeros takes all zeros away.                                         *)
LEMMA TrimZerosIs ==
  ASSUME NEW M, TensKnown(M), M <= 17, NEW x \in Nat \ {0}, x < 10^(M - 1), NEW p \in Int
  PROVE  \E y, z : Trimming(x, p, M, U!trimZeros(x, p), y, z) /\ y % 10 # 0
<1> DEFINE a == 10^8
           t0 == <<x, p>>
           t1 == U!cut(t0, 1)
           t2 == U!cut(t1, 8)
           t3 == U!cut(t2, 4)
           t4 == U!cut(t3, 2)
           t5 == U!cut(t4, 1)
<1>1. M \in Nat \ {0} /\ M - 1 \in 0..M
  BY DEF TensKnown
<1>2. 10^(M - 1) \in Nat /\ 10^((M - 1) + 1) = 10 * 10^(M - 1)
  BY <1>1, TensOf
<1>3. x < 10^M
  <2>1. (M - 1) + 1 = M
    BY <1>1
  <2> DEFINE h == 10^(M - 1)
  <2>2. 10^M = 10 * h /\ h \in Nat /\ x < h
    BY <1>2, <2>1
  <2> HIDE DEF h
  <2>3. x < 10 * h
    BY <2>2
  <2> QED BY <2>2, <2>3
<1>4. Trimming(x, p, M, t0, x, 0)
  <2>1. 10^0 = 1
    OBVIOUS
  <2>2. p + 0 = p /\ x * 1 = x
    OBVIOUS
  <2> QED BY <1>1, <2>1, <2>2 DEF Trimming
<1>5. a \in Nat \ {0} /\ x < a * a
  <2>1. a \in Nat \ {0}
    BY SMT
  <2>2. CASE M - 1 <= 8
    <3>1. M - 1 \in 0..8
      BY <1>1, <2>2
    <3>2. 10^(M - 1) <= a
      BY <3>1, SmallTens
    <3> HIDE DEF a
    <3>3. a <= a * a
      BY <2>1
    <3>4. a * a \in Nat
      BY <2>1
    <3> QED BY <1>2, <2>1, <3>2, <3>3, <3>4
  <2>3. CASE M - 1 > 8
    <3> DEFINE b == M - 9
    <3>1. b \in 0..8 /\ 8 + b = M - 1 /\ 8 \in Nat /\ b \in Nat /\ 8 + b <= M + 1
      BY <1>1, <2>3
    <3> HIDE DEF b
    <3>2. 10^b \in Nat /\ 10^b <= a
      BY <3>1, SmallTens
    <3>3. 10^(8 + b) = 10^8 * 10^b
      BY <3>1, TensSum
    <3> DEFINE c == 10^b
    <3> HIDE DEF a, c
    <3>4. c * a <= a * a
      BY <2>1, <3>2, MonotoneProduct DEF c
    <3>5. a * c = c * a /\ c * a \in Nat /\ a * a \in Nat
      BY <2>1, <3>2 DEF c
    <3>6. 10^(M - 1) = a * c
      BY <3>1, <3>3 DEF a, c
    <3>7. x < a * c
      BY <3>6
    <3> QED BY <2>1, <3>4, <3>5, <3>7
  <2> QED BY <1>1, <2>1, <2>2, <2>3
<1>6. CASE x % 10 # 0
  <2>1. U!trimZeros(x, p) = t0
    BY <1>6 DEF U!trimZeros
  <2> QED BY <1>4, <1>6, <2>1
<1>7. CASE x % 10 = 0
  <2>1. U!trimZeros(x, p) = t5
    BY <1>7 DEF U!trimZeros
  <2> HIDE DEF t0, t1, t2, t3, t4, t5, a
  <2>2. PICK y1, z1 : Trimming(x, p, M, t1, y1, z1) /\ y1 <= x
    <3>1. 1 \in {1, 2, 4, 8}
      OBVIOUS
    <3> QED BY <1>3, <1>4, <3>1, CutStep DEF t1
  <2>3. y1 \in Nat \ {0}
    <3>1. y1 \in Nat /\ z1 \in 0..M /\ x = y1 * 10^z1
      BY <2>2 DEF Trimming
    <3>2. 10^z1 \in Nat
      BY <3>1, TensOf
    <3> QED BY <3>1, <3>2
  <2>4. y1 % (a * a) # 0
    <3>1. a * a \in Nat \ {0}
      BY <1>5
    <3> DEFINE h == a * a
    <3> HIDE DEF h
    <3>2. h \in Nat \ {0} /\ y1 < h
      BY <1>5, <2>2, <2>3, <3>1 DEF h
    <3>3. y1 % h # 0
      BY <2>3, <3>2
    <3> QED BY <3>3 DEF h
  <2>5. PICK y2, z2 : Trimming(x, p, M, t2, y2, z2) /\ y2 % 10^8 # 0
    <3>1. 8 \in {1, 2, 4, 8}
      OBVIOUS
    <3>2. y1 % (10^8 * 10^8) # 0
      BY <2>4 DEF a
    <3> QED BY <1>3, <2>2, <3>1, <3>2, CutStep DEF t2
  <2>6. PICK y3, z3 : Trimming(x, p, M, t3, y3, z3) /\ y3 % 10^4 # 0
    <3>1. 4 \in {1, 2, 4, 8}
      OBVIOUS
    <3>2. 10^4 * 10^4 = 10^8
      BY SMT
    <3>3. y2 % (10^4 * 10^4) # 0
      BY <2>5, <3>2
    <3> QED BY <1>3, <2>5, <3>1, <3>3, CutStep DEF t3
  <2>7. PICK y4, z4 : Trimming(x, p, M, t4, y4, z4) /\ y4 % 10^2 # 0
    <3>1. 2 \in {1, 2, 4, 8}
      OBVIOUS
    <3>2. 10^2 * 10^2 = 10^4
      BY SMT
    <3>3. y3 % (10^2 * 10^2) # 0
      BY <2>6, <3>2
    <3> QED BY <1>3, <2>6, <3>1, <3>3, CutStep DEF t4
  <2>8. PICK y5, z5 : Trimming(x, p, M, t5, y5, z5) /\ y5 % 10^1 # 0
    <3>1. 1 \in {1, 2, 4, 8}
      OBVIOUS
    <3>2. 10^1 * 10^1 = 10^2
      BY SMT
    <3>3. y4 % (10^1 * 10^1) # 0
      BY <2>7, <3>2
    <3> QED BY <1>3, <2>7, <3>1, <3>3, CutStep DEF t5
  <2>9. 10^1 = 10
    OBVIOUS
  <2>10. y5 % 10 # 0
    BY <2>8, <2>9
  <2> QED BY <2>1, <2>8, <2>10
<1> QED BY <1>6, <1>7

-----------------------------------------------------------------------------
(* What a converter has to find: sig * 10^z units of 10^UscaleExp(v), no   *)
(* zeros at the end of sig.                                                *)
GoodAnswer(v, sig, z, M) ==
  LET d == sig * 10^z
      k == UscaleExp(v)
  IN /\ sig \in Nat \ {0} /\ sig % 10 # 0 /\ z \in 0..M
     /\ d \in 1 .. 10^M - 1
     /\ RoundTrips(v, d, k)
     /\ ~IsSmallest(v) => BestDecimal(v, d, k, M)

(* The answer is taken at the exponent of the unit where no multiple of    *)
(* ten is in the interval, ...                                             *)
LEMMA PlainGood ==
  ASSUME NEW v \in Ordinary, NEW M, Framed(v, UscaleExp(v), M), NEW d \in Nat,
         RoundTrips(v, d, UscaleExp(v)), ClosestAt(v, d, UscaleExp(v)),
         \A m \in Nat : ~RoundTrips(v, 10 * m, UscaleExp(v))
  PROVE  GoodAnswer(v, d, 0, M)
<1> DEFINE k == UscaleExp(v)
<1>1. M \in Nat \ {0}
  BY DEF Framed, Scalable, TensKnown
<1>2. d % 10 # 0
  <2> SUFFICES ASSUME d % 10 = 0 PROVE FALSE
    OBVIOUS
  <2>1. d = 10 * (d \div 10) /\ d \div 10 \in Nat
    OBVIOUS
  <2> QED BY <2>1
<1>3. d \in 1 .. 10^M - 1
  BY InsideBound
<1>4. BestDecimal(v, d, k, M)
  BY BestOther
<1>5. 10^0 = 1 /\ d * 1 = d /\ 0 \in 0..M /\ d \in Nat \ {0}
  BY <1>1, <1>2
<1> HIDE DEF k
<1>6. d * 10^0 = d
  BY <1>5
<1> QED BY <1>2, <1>3, <1>4, <1>5, <1>6 DEF GoodAnswer, k

(* ... or above it.                                                        *)
LEMMA ShiftedGood ==
  ASSUME NEW v \in Ordinary, NEW M, Framed(v, UscaleExp(v), M), NEW sig \in Nat,
         sig % 10 # 0, NEW z \in 1..M, RoundTrips(v, sig, UscaleExp(v) + z)
  PROVE  GoodAnswer(v, sig, z, M)
<1> DEFINE k == UscaleExp(v)
           i == z - 1
           p == 10^i
           x == sig * p
           d == sig * 10^z
<1>1. M \in Nat \ {0} /\ TensKnown(M) /\ Scalable(v, k, M)
  BY DEF Framed, Scalable, TensKnown
<1>2. z \in 0..M /\ i \in 0..M /\ i + 1 = z
  BY <1>1
<1>3. p \in Nat \ {0} /\ 10^z = 10 * p
  BY <1>1, <1>2, TensOf
<1> HIDE DEF p, i
<1>4. x \in Nat /\ d = 10 * x
  BY <1>3
<1>5. RoundTrips(v, d, k)
  BY <1>1, <1>2, ScaleRoundTrips
<1> HIDE DEF x, d
<1>6. RoundTrips(v, 10 * x, k)
  BY <1>4, <1>5
<1>7. ~IsSmallest(v) => BestDecimal(v, d, k, M)
  <2> SUFFICES ASSUME ~IsSmallest(v) PROVE BestDecimal(v, d, k, M)
    OBVIOUS
  <2>1. x = 1 => ~NineBetter(v, k)
    <3> SUFFICES ASSUME x = 1 PROVE ~NineBetter(v, k)
      OBVIOUS
    <3>1. RoundTrips(v, 10, k)
      BY <1>6
    <3> QED BY <3>1, UscaleNineAssumption DEF NineBetter
  <2>2. BestDecimal(v, 10 * x, k, M)
    BY <1>4, <1>6, <2>1, BestTen
  <2> QED BY <1>4, <2>2
<1>8. d \in 1 .. 10^M - 1
  <2>1. d \in Nat
    BY <1>4
  <2> QED BY <1>5, <2>1, InsideBound
<1>9. sig \in Nat \ {0}
  BY <1>3
<1> HIDE DEF k
<1> QED BY <1>2, <1>5, <1>7, <1>8, <1>9 DEF GoodAnswer, d, k

(* There is an integer in the interval, and DMin is the least one.         *)
LEMMA BoundsMeet ==
  ASSUME NEW v \in Ordinary
  PROVE  /\ DMin(v) \in Nat /\ DMax(v) \in Nat /\ DMin(v) <= DMax(v)
         /\ RoundTrips(v, DMin(v), UscaleExp(v))
<1>1. PICK d \in Nat : RoundTrips(v, d, UscaleExp(v))
  BY UscaleFramed, OneInside
<1>2. /\ DMin(v) \in Int /\ DMax(v) \in Int /\ DMin(v) <= d /\ d <= DMax(v)
  BY <1>1, BoundsExact
<1>3. DMin(v) >= 0
  <2> SUFFICES ASSUME DMin(v) < 0 PROVE FALSE
    BY <1>2
  <2>1. 0 \in Nat /\ DMin(v) <= 0 /\ 0 <= DMax(v)
    BY <1>2
  <2>2. RoundTrips(v, 0, UscaleExp(v))
    BY <2>1, BoundsExact
  <2> QED BY <2>1, <2>2, UscaleFramed, InsidePositive
<1>4. DMin(v) \in Nat /\ DMax(v) \in Nat /\ DMin(v) <= DMax(v)
  BY <1>2, <1>3
<1> QED BY <1>4, BoundsExact

(* A multiple of ten in the interval, its zeros trimmed.                   *)
LEMMA TrimmedAnswer ==
  ASSUME NEW v \in Ordinary, (DMax(v) \div 10) * 10 >= DMin(v)
  PROVE  \E sig, z : /\ U!Short(v) = <<sig, UscaleExp(v) + z>>
                   /\ GoodAnswer(v, sig, z, uscale_digits)
<1> DEFINE k == UscaleExp(v)
           M == uscale_digits
           x == DMax(v) \div 10
           d == 10 * x
<1>1. U!Short(v) = U!trimZeros(x, k + 1)
  <2>1. /\ (DMax(v) \div 10) * 10 >= DMin(v)
        /\ ~((DMax(v) \div 10) * 10 < DMin(v))
    BY BoundsMeet
  <2> QED BY <2>1, ShortIs
<1>2. /\ DMin(v) \in Nat /\ DMax(v) \in Nat /\ k \in Int
      /\ M \in 1..17 /\ M \in Nat /\ TensKnown(M)
  BY BoundsMeet, UscaleLogAssumption, DigitsKnown
<1> HIDE DEF k, M
<1>3. x \in Nat /\ d <= DMax(v) /\ DMin(v) <= d /\ d \in Nat
  BY <1>2
<1> HIDE DEF x
<1>4. RoundTrips(v, d, k)
  BY <1>3, BoundsExact DEF k
<1>5. d \in 1 .. 10^M - 1
  BY <1>3, <1>4, UscaleFramed, InsideBound DEF k, M
<1>6. 10^M = 10 * 10^(M - 1) /\ 10^(M - 1) \in Nat \ {0}
  <2>1. M - 1 \in 0..M /\ (M - 1) + 1 = M
    BY <1>2
  <2> QED BY <1>2, <2>1, TensOf
<1>7. x \in Nat \ {0} /\ x < 10^(M - 1) /\ k + 1 \in Int /\ M <= 17
  BY <1>2, <1>3, <1>5, <1>6
<1>8. PICK sig, y : Trimming(x, k + 1, M, U!trimZeros(x, k + 1), sig, y) /\ sig % 10 # 0
  BY <1>2, <1>7, TrimZerosIs
<1>9. /\ sig \in Nat /\ y \in 0..M /\ U!trimZeros(x, k + 1) = <<sig, (k + 1) + y>>
      /\ x = sig * 10^y
  BY <1>8 DEF Trimming
<1>10. 10^y \in Nat \ {0} /\ 10^(y + 1) = 10 * 10^y
  BY <1>2, <1>9, TensOf
<1>11. sig # 0
  <2> SUFFICES ASSUME sig = 0 PROVE FALSE
    OBVIOUS
  <2> QED BY <1>7, <1>9, <1>10
<1>12. y + 1 \in 0..M
  <2> SUFFICES ASSUME y = M PROVE FALSE
    BY <1>2, <1>9
  <2> DEFINE c == 10^y
  <2>1. c \in Nat /\ sig \in Nat \ {0} /\ x = sig * c /\ x < c
    BY <1>3, <1>6, <1>7, <1>9, <1>10, <1>11
  <2> HIDE DEF c
  <2>2. 1 * c <= sig * c
    BY <2>1, ProductOrder
  <2> QED BY <1>3, <2>1, <2>2
<1>13. d = sig * 10^(y + 1)
  <2> DEFINE c == 10^y
  <2>1. c \in Nat /\ x = sig * c /\ 10^(y + 1) = 10 * c
    BY <1>9, <1>10
  <2> HIDE DEF c
  <2>2. 10 * (sig * c) = sig * (10 * c)
    BY <1>9, <2>1
  <2> QED BY <2>1, <2>2
<1>14. (k + 1) + y = k + (y + 1)
  BY <1>2, <1>9
<1>15. ~IsSmallest(v) => BestDecimal(v, d, k, M)
  <2> SUFFICES ASSUME ~IsSmallest(v) PROVE BestDecimal(v, d, k, M)
    OBVIOUS
  <2>1. x = 1 => ~NineBetter(v, k)
    <3> SUFFICES ASSUME x = 1 PROVE ~NineBetter(v, k)
      OBVIOUS
    <3>1. RoundTrips(v, 10, k)
      BY <1>4
    <3> QED BY <3>1, UscaleNineAssumption DEF NineBetter, k
  <2> QED BY <1>3, <1>4, <2>1, UscaleFramed, BestTen DEF k, M
<1>16. GoodAnswer(v, sig, y + 1, M)
  BY <1>4, <1>5, <1>8, <1>9, <1>11, <1>12, <1>13, <1>15 DEF GoodAnswer, k, M
<1> QED BY <1>1, <1>9, <1>14, <1>16 DEF k, M

(* No multiple of ten in the interval: the answer is taken as it is.       *)
LEMMA PlainAnswer ==
  ASSUME NEW v \in Ordinary, (DMax(v) \div 10) * 10 < DMin(v), NEW d \in Nat,
         RoundTrips(v, d, UscaleExp(v)), ClosestAt(v, d, UscaleExp(v))
  PROVE  GoodAnswer(v, d, 0, uscale_digits)
<1> DEFINE k == UscaleExp(v)
<1>1. DMin(v) \in Nat /\ DMax(v) \in Nat
  BY BoundsMeet
<1>2. \A m \in Nat : ~RoundTrips(v, 10 * m, k)
  <2> SUFFICES ASSUME NEW m \in Nat, RoundTrips(v, 10 * m, k) PROVE FALSE
    OBVIOUS
  <2>1. DMin(v) <= 10 * m /\ 10 * m <= DMax(v)
    BY BoundsExact
  <2> HIDE DEF k
  <2> QED BY <1>1, <2>1
<1> QED BY <1>2, UscaleFramed, PlainGood DEF k

(* Whatever the alternative taken, the answer is in the interval and, but  *)
(* for the smallest double, the best one.                                  *)
LEMMA UscaleBest ==
  ASSUME NEW v \in Ordinary
  PROVE  \E sig, z : /\ U!Short(v) = <<sig, UscaleExp(v) + z>>
                   /\ GoodAnswer(v, sig, z, uscale_digits)
<1> DEFINE k == UscaleExp(v)
<1>1. /\ DMin(v) \in Nat /\ DMax(v) \in Nat /\ DMin(v) <= DMax(v)
      /\ RoundTrips(v, DMin(v), k) /\ k \in Int
  BY BoundsMeet, UscaleLogAssumption
<1>2. CASE (DMax(v) \div 10) * 10 >= DMin(v)
  BY <1>2, TrimmedAnswer
<1>3. CASE (DMax(v) \div 10) * 10 < DMin(v) /\ DMin(v) < DMax(v)
  <2> DEFINE d == Round(MidEstimate(v))
  <2>1. U!Short(v) = <<d, k>>
    BY <1>1, <1>3, ShortIs
  <2>2. d \in Nat /\ IsNear(v, d, k)
    BY RoundIsNear
  <2> HIDE DEF d
  <2>3. DMin(v) + 1 \in Nat /\ DMin(v) <= DMin(v) + 1 /\ DMin(v) + 1 <= DMax(v)
    BY <1>1, <1>3
  <2>4. RoundTrips(v, DMin(v) + 1, k)
    BY <2>3, BoundsExact
  <2>5. RoundTrips(v, d, k)
    BY <1>1, <2>2, <2>4, UscaleFramed, NearestInside
  <2>6. ClosestAt(v, d, k)
    BY <2>2, UscaleFramed, NearIsNearest
  <2>7. GoodAnswer(v, d, 0, uscale_digits)
    BY <1>3, <2>2, <2>5, <2>6, PlainAnswer
  <2>8. k + 0 = k
    BY <1>1
  <2> QED BY <2>1, <2>7, <2>8
<1>4. CASE ~((DMax(v) \div 10) * 10 >= DMin(v)) /\ ~(DMin(v) < DMax(v))
  <2> DEFINE d == DMin(v)
  <2>1. (DMax(v) \div 10) * 10 < d
    BY <1>1, <1>4
  <2>2. U!Short(v) = <<d, k>>
    BY <1>4, <2>1, ShortIs
  <2>3. \A e \in Nat : RoundTrips(v, e, k) => e = d
    <3> SUFFICES ASSUME NEW e \in Nat, RoundTrips(v, e, k) PROVE e = d
      OBVIOUS
    <3>1. d <= e /\ e <= DMax(v)
      BY BoundsExact
    <3> QED BY <1>1, <1>4, <3>1
  <2>4. ClosestAt(v, d, k)
    BY <1>1, <2>3, UscaleFramed, AloneIsNearest
  <2>5. GoodAnswer(v, d, 0, uscale_digits)
    BY <1>1, <2>1, <2>4, PlainAnswer
  <2>6. k + 0 = k
    BY <1>1
  <2> QED BY <2>2, <2>5, <2>6
<1> QED BY <1>1, <1>2, <1>3, <1>4

-----------------------------------------------------------------------------
(* The powers of ten countDigits looks at.                                 *)
LEMMA CountTens ==
  LET most == U!log10Pow2(uscale_bits)
  IN /\ most \in Nat /\ PowersUpTo(10, most + 1)
     /\ \A n \in 0 .. most + 1 : 10^n \in Nat \ {0}
<1> DEFINE most == U!log10Pow2(uscale_bits)
<1>1. uscale_bits \in 1..uscale_bits
  BY Widths
<1>2. most \in 0..most
  BY <1>1, UscaleCountAssumption
<1>3. most \in Nat /\ most + 1 \in Nat
  <2>1. most \in Int
    BY <1>1 DEF U!log10Pow2
  <2> HIDE DEF most
  <2> QED BY <1>2, <2>1
<1>4. \A n \in 0..most : 10^(n + 1) = 10 * 10^n
  BY UscalePowersAssumption DEF PowerAt
<1>5. 10^0 = 1 /\ 10 \in Nat \ {0}
  OBVIOUS
<1> HIDE DEF most
<1>6. PowersUpTo(10, most + 1)
  BY <1>3, <1>4, <1>5 DEF PowersUpTo
<1>7. \A n \in 0 .. most + 1 : 10^n \in Nat \ {0}
  BY <1>3, <1>5, <1>6, PowerPositive
<1> QED BY <1>3, <1>6, <1>7 DEF most

(* bitsLen64 is the number of bits.                                        *)
LEMMA BitsLenIs ==
  ASSUME NEW sig \in Nat \ {0}, sig < 2^uscale_bits
  PROVE  LET b == U!bitsLen64(sig)
         IN b \in 1..uscale_bits /\ 2^(b - 1) <= sig /\ sig < 2^b
<1> DEFINE B == {n \in 0..uscale_bits : sig < 2^n}
<1>1. uscale_bits \in Nat \ {0}
  BY Widths
<1>2. \A n \in 0..uscale_bits : 2^n \in Nat \ {0}
  <2>1. \A n \in 0..uscale_bits : n \in 0 .. U!spare_bits + uscale_bits + 1
    BY Widths
  <2> QED BY <2>1, Twos2
<1>3. B \subseteq Nat /\ B # {}
  BY <1>1
<1>4. PICK n \in B : \A m \in B : n <= m
  <2> HIDE DEF B
  <2> QED BY <1>3, LeastNatural
<1>5. n \in 0..uscale_bits /\ sig < 2^n
  OBVIOUS
<1>6. n # 0
  <2> SUFFICES ASSUME n = 0 PROVE FALSE
    OBVIOUS
  <2>1. 2^0 = 1
    OBVIOUS
  <2> QED BY <1>5, <2>1
<1>7. n - 1 \in 0..uscale_bits /\ ~(n <= n - 1)
  BY <1>1, <1>5, <1>6
<1>8. n - 1 \notin B
  BY <1>4, <1>7
<1>9. 2^(n - 1) <= sig
  <2>1. ~(sig < 2^(n - 1))
    BY <1>7, <1>8
  <2>2. 2^(n - 1) \in Nat
    BY <1>2, <1>7
  <2> DEFINE x == 2^(n - 1)
  <2>3. ~(sig < x) /\ x \in Nat
    BY <2>1, <2>2
  <2> HIDE DEF x
  <2>4. x <= sig
    BY <2>3
  <2> QED BY <2>4 DEF x
<1>10. n \in 1..uscale_bits
  BY <1>1, <1>5, <1>6
<1>11. \E m \in 1..uscale_bits : 2^(m - 1) <= sig /\ sig < 2^m
  BY <1>5, <1>9, <1>10
<1> QED BY <1>11 DEF U!bitsLen64

(* countDigits counts the digits.                                          *)
LEMMA CountDigitsIs ==
  ASSUME NEW sig \in 1 .. 10^uscale_digits - 1
  PROVE  LET L == U!countDigits(sig)
         IN L \in 1..uscale_digits /\ 10^(L - 1) <= sig /\ sig < 10^L
<1> DEFINE most == U!log10Pow2(uscale_bits)
           M == uscale_digits
           b == U!bitsLen64(sig)
           f == U!log10Pow2(b)
           L == U!countDigits(sig)
<1>1. /\ M \in Nat \ {0} /\ 10^M \in Nat /\ 10^M <= 2^uscale_bits
  <2>1. M \in 0..M /\ M \in Nat \ {0} /\ TensKnown(M)
    BY DigitsKnown
  <2> QED BY <2>1, DigitsKnown, TensOf DEF U!UWord
<1>2. most \in Nat /\ PowersUpTo(10, most + 1) /\ \A n \in 0 .. most + 1 : 10^n \in Nat \ {0}
  BY CountTens
<1>3. \A n \in 0..uscale_bits : 2^n \in Nat \ {0}
  <2>1. \A n \in 0..uscale_bits : n \in 0 .. U!spare_bits + uscale_bits + 1
    BY Widths
  <2> QED BY <2>1, Twos2
<1>4. uscale_bits \in Nat \ {0} /\ sig \in Nat \ {0} /\ sig < 10^M
  BY <1>1, Widths
<1>5. sig < 2^uscale_bits
  <2>1. 2^uscale_bits \in Nat
    BY <1>3, <1>4
  <2> QED BY <1>1, <1>4, <2>1
<1>6. b \in 1..uscale_bits /\ 2^(b - 1) <= sig /\ sig < 2^b
  BY <1>4, <1>5, BitsLenIs
<1>7. f \in 0..most /\ 10^f <= 2^b /\ 2^b < 10^(f + 1)
  BY <1>6, UscaleCountAssumption
<1>8. L = f + (IF sig >= 10^f THEN 1 ELSE 0)
  BY DEF U!countDigits
<1> HIDE DEF most, M, b, f, L
<1>9. 2^b \in Nat /\ 2^b <= 2 * sig
  <2>1. b - 1 \in 0..uscale_bits /\ b \in 0..uscale_bits
        /\ b - 1 \in 0 .. U!spare_bits + uscale_bits /\ (b - 1) + 1 = b
    BY <1>4, <1>6, Widths
  <2>2. 2^b = 2 * 2^(b - 1)
    BY <2>1, UscalePowersAssumption DEF PowerAt
  <2>3. 2^(b - 1) \in Nat
    BY <1>3, <2>1
  <2> DEFINE x == 2^(b - 1)
  <2>4. x \in Nat /\ 2^b = 2 * x /\ x <= sig
    BY <1>6, <2>2, <2>3
  <2> HIDE DEF x
  <2> QED BY <1>4, <2>4
<1>10. 10^f \in Nat \ {0} /\ 10^(f + 1) \in Nat \ {0} /\ f \in Nat
  BY <1>2, <1>7
<1>11. 10^(L - 1) <= sig /\ sig < 10^L /\ L \in 1 .. most + 1
  <2>1. CASE sig >= 10^f
    <3>1. L = f + 1 /\ L - 1 = f
      BY <1>8, <1>10, <2>1
    <3>2. sig < 10^(f + 1)
      BY <1>4, <1>6, <1>7, <1>9, <1>10
    <3> QED BY <1>2, <1>7, <2>1, <3>1, <3>2
  <2>2. CASE ~(sig >= 10^f)
    <3>1. L = f
      BY <1>8, <1>10, <2>2
    <3>2. f # 0
      <4> SUFFICES ASSUME f = 0 PROVE FALSE
        OBVIOUS
      <4>1. 10^0 = 1
        OBVIOUS
      <4>2. 10^f = 1
        BY <4>1
      <4> QED BY <1>4, <2>2, <4>2
    <3>3. f - 1 \in 0..most /\ (f - 1) + 1 = f /\ f - 1 \in 0 .. most + 1
      BY <1>2, <1>7, <3>2
    <3>4. 10^(f - 1) \in Nat \ {0} /\ 10^f = 10 * 10^(f - 1)
      BY <1>2, <3>3, UscalePowersAssumption DEF PowerAt, most
    <3> DEFINE x == 10^(f - 1)
    <3>5. x \in Nat \ {0} /\ 10^f = 10 * x
      BY <3>4
    <3> HIDE DEF x
    <3>6. x <= sig
      BY <1>4, <1>7, <1>9, <1>10, <3>5
    <3>7. sig < 10^f
      BY <1>4, <1>10, <2>2
    <3> QED BY <1>2, <1>7, <3>1, <3>2, <3>6, <3>7 DEF x
  <2> QED BY <2>1, <2>2
<1>12. L <= M
  <2> SUFFICES ASSUME L > M PROVE FALSE
    BY <1>1, <1>11
  <2>1. L - 1 \in 0 .. most + 1 /\ M <= L - 1 /\ M \in 0 .. most + 1
        /\ most + 1 \in Nat /\ 10 \in Nat /\ 10 >= 2
    BY <1>1, <1>2, <1>11
  <2>2. M < L - 1 => 10^M < 10^(L - 1)
    BY <1>2, <2>1, PowerOrder
  <2>3. 10^(L - 1) \in Nat
    BY <1>2, <2>1
  <2>4. M = L - 1 => FALSE
    <3> SUFFICES ASSUME M = L - 1 PROVE FALSE
      OBVIOUS
    <3>1. 10^M = 10^(L - 1)
      OBVIOUS
    <3> QED BY <1>1, <1>4, <1>11, <2>3, <3>1
  <2> QED BY <1>1, <1>4, <1>11, <2>1, <2>2, <2>3, <2>4
<1>13. L \in 1..M
  BY <1>1, <1>11, <1>12
<1> QED BY <1>11, <1>13 DEF L, M

(* An answer and its trimmed zeros have no more digits than there may be.  *)
HasLength(sig, L) == 10^(L - 1) <= sig /\ sig < 10^L

LEMMA AnswerSmall ==
  ASSUME NEW v, NEW M, TensKnown(M), NEW sig, NEW z, GoodAnswer(v, sig, z, M)
  PROVE  sig \in 1 .. 10^M - 1
<1> DEFINE x == 10^z
<1>1. /\ M \in Nat \ {0} /\ sig \in Nat \ {0} /\ z \in 0..M
      /\ sig * x \in 1 .. 10^M - 1
  BY DEF GoodAnswer, TensKnown
<1>2. x \in Nat \ {0} /\ 10^M \in Nat
  <2>1. M \in 0..M
    BY <1>1
  <2> QED BY <1>1, <2>1, TensOf
<1> HIDE DEF x
<1>3. sig * x < 10^M
  <2>1. sig * x \in Nat
    BY <1>1, <1>2
  <2> QED BY <1>1, <1>2, <2>1
<1>4. sig <= sig * x
  BY <1>1, <1>2
<1>5. sig < 10^M
  BY <1>1, <1>2, <1>3, <1>4
<1> QED BY <1>1, <1>5

LEMMA AnswerDigits ==
  ASSUME NEW v, NEW M, TensKnown(M), NEW sig, NEW z, GoodAnswer(v, sig, z, M),
         NEW L \in 1..M, HasLength(sig, L)
  PROVE  L + z <= M
<1> DEFINE x == 10^z
<1>1. /\ M \in Nat \ {0} /\ sig \in Nat \ {0} /\ z \in 0..M
      /\ sig * x \in 1 .. 10^M - 1
  BY DEF GoodAnswer, TensKnown
<1>2. x \in Nat \ {0} /\ 10^M \in Nat
  <2>1. M \in 0..M
    BY <1>1
  <2> QED BY <1>1, <2>1, TensOf
<1> HIDE DEF x
<1>3. sig * x < 10^M
  <2>1. sig * x \in Nat
    BY <1>1, <1>2
  <2> QED BY <1>1, <1>2, <2>1
<1>4. sig <= sig * x
  BY <1>1, <1>2
<1>5. 10^(L - 1) <= sig
  BY DEF HasLength
<1>6. L \in 1..M
  OBVIOUS
<1>7. L + z <= M
  <2> SUFFICES ASSUME L + z > M PROVE FALSE
    BY <1>1, <1>6
  <2> DEFINE a == M - z
             y == 10^a
             w == 10^(L - 1)
  <2>1. a \in 0..M /\ a \in Nat /\ z \in Nat /\ a + z = M /\ a + z <= M + 1
        /\ L - 1 \in 0..M /\ a <= L - 1
    BY <1>1, <1>6
  <2>2. 10^M = y * x
    <3>1. 10^(a + z) = 10^a * 10^z
      BY <1>1, <2>1, TensSum
    <3> QED BY <2>1, <3>1 DEF x
  <2>3. y \in Nat \ {0} /\ w \in Nat \ {0}
    BY <1>1, <2>1, TensOf
  <2>4. y <= w
    <3>1. PowersUpTo(10, M)
      <4>1. 10^0 = 1
        OBVIOUS
      <4> QED BY <1>1, <4>1 DEF TensKnown, PowersUpTo, PowerAt
    <3>2. 10 \in Nat /\ 10 >= 2 /\ M \in Nat
      BY <1>1
    <3> HIDE DEF a
    <3>3. a < L - 1 => 10^a < 10^(L - 1)
      BY <2>1, <3>1, <3>2, PowerOrder
    <3>4. a = L - 1 => 10^a = 10^(L - 1)
      OBVIOUS
    <3>5. a < L - 1 \/ a = L - 1
      BY <2>1
    <3>6. 10^a \in Nat /\ 10^(L - 1) \in Nat
      BY <2>3
    <3> QED BY <3>3, <3>4, <3>5, <3>6
  <2>5. w <= sig
    BY <1>5
  <2> HIDE DEF y, w, a
  <2>6. y <= sig
    BY <1>1, <2>3, <2>4, <2>5
  <2>7. y * x <= sig * x
    BY <1>1, <1>2, <2>3, <2>6, ProductOrder
  <2>8. sig * x \in Nat
    BY <1>1, <1>2
  <2> QED BY <1>2, <1>3, <2>2, <2>7, <2>8
<1> QED BY <1>7

-----------------------------------------------------------------------------
(* The contract reads numbers with definitions of its own, the same ones.  *)
LEMMA SameComparisons ==
  ASSUME NEW d, NEW k, NEW n, NEW q
  PROVE  /\ C!DecimalLeq(d, k, n, q) <=> DecimalLeq(d, k, n, q)
         /\ C!DecimalGeq(d, k, n, q) <=> DecimalGeq(d, k, n, q)
<1>1. C!Tens(q, k) = Tens(q, k) /\ C!Twos(q, k) = Twos(q, k)
  BY DEF C!Tens, C!Twos, C!Positive, Tens, Twos, Positive
<1>2. \A a, b, c, e : C!LeqProd(a, b, c, e) <=> LeqProd(a, b, c, e)
  BY DEF C!LeqProd, C!High, C!Low, C!Limb,
         LeqProd, High, Low, Limb
<1> QED BY <1>1, <1>2 DEF C!DecimalLeq, C!DecimalGeq, DecimalLeq, DecimalGeq

LEMMA SameFields ==
  ASSUME NEW v
  PROVE  /\ C!IsOrdinary(v) <=> IsOrdinary(v)
         /\ C!IsSpecial(v) <=> IsSpecial(v)
         /\ C!IsZero(v) <=> IsZero(v)
         /\ C!BinSig(v) = BinSig(v)
         /\ C!BinExp(v) = BinExp(v)
         /\ C!LowerQuarters(v) = LowerQuarters(v)
         /\ C!UpperQuarters(v) = UpperQuarters(v)
BY DEF C!IsOrdinary, C!IsSpecial, C!IsZero, C!BinSig,
       C!BinExp, C!LowerQuarters, C!UpperQuarters,
       C!HalfGapBelow, C!implicit_bit, C!exp_offset,
       IsOrdinary, IsSpecial, IsZero, BinSig, BinExp, LowerQuarters, UpperQuarters,
       HalfGapBelow, implicit_bit, exp_offset

LEMMA SameReading ==
  ASSUME NEW v
  PROVE  /\ \A d, k : C!RoundTrips(v, d, k) <=> RoundTrips(v, d, k)
         /\ \A d, e, k : C!Closer(v, d, e, k) <=> Closer(v, d, e, k)
         /\ \A d, k, len : C!HasShorter(v, d, k, len) <=> HasShorter(v, d, k, len)
         /\ \A d, k, len : C!HasCloser(v, d, k, len) <=> HasCloser(v, d, k, len)
         /\ \A s : C!DigitsValue(s) = DigitsValue(s)
<1>1. \A d, k : C!RoundTrips(v, d, k) <=> RoundTrips(v, d, k)
  BY SameComparisons, SameFields DEF C!RoundTrips, RoundTrips
<1>2. \A d, e, k : C!Closer(v, d, e, k) <=> Closer(v, d, e, k)
  BY SameComparisons, SameFields
     DEF C!Closer, C!MidpointBelow, C!MidpointAbove,
         Closer, MidpointBelow, MidpointAbove
<1>3. \A d, k, len : C!HasShorter(v, d, k, len) <=> HasShorter(v, d, k, len)
  BY <1>1 DEF C!HasShorter, HasShorter
<1>4. \A d, k, len : C!HasCloser(v, d, k, len) <=> HasCloser(v, d, k, len)
  BY <1>1, <1>2 DEF C!HasCloser, HasCloser
<1>5. \A s : C!DigitsValue(s) = DigitsValue(s)
  BY DEF C!DigitsValue, DigitsValue
<1> QED BY <1>1, <1>2, <1>3, <1>4, <1>5

(* The text of a good answer is what the contract wants.                   *)
AnswerText(v, sig, z, L) ==
  [negative |-> v.negative,
   digits   |-> DigitPlaces(sig, L),
   exp      |-> UscaleExp(v) + z + L - 1]

LEMMA AnswerAcceptable ==
  ASSUME NEW v \in Ordinary, NEW M, Scalable(v, UscaleExp(v), M),
         NEW sig, NEW z, GoodAnswer(v, sig, z, M),
         NEW L \in 1..M, HasLength(sig, L)
  PROVE  LET t == AnswerText(v, sig, z, L)
         IN /\ RoundTrips(v, DigitsValue(t.digits), t.exp - (Len(t.digits) - 1))
            /\ ~IsSmallest(v) => C!Acceptable(v, t)
<1> DEFINE k == UscaleExp(v)
           t == AnswerText(v, sig, z, L)
           digits == DigitPlaces(sig, L)
           exp == k + z + L - 1
<1>1. TensKnown(M) /\ M \in Nat \ {0} /\ k \in Int
  BY DEF Scalable, TensKnown
<1>2. t = [negative |-> v.negative, digits |-> digits, exp |-> exp]
  BY DEF AnswerText
<1>3. L \in 1..M /\ 10^(L - 1) <= sig /\ sig < 10^L /\ L + z <= M
  BY <1>1, AnswerDigits DEF HasLength
<1>4. /\ sig \in Nat \ {0} /\ sig % 10 # 0 /\ z \in 0..M
      /\ RoundTrips(v, sig * 10^z, k)
      /\ ~IsSmallest(v) => BestDecimal(v, sig * 10^z, k, M)
  BY DEF GoodAnswer
<1>5. Scalable(v, k, M)
  OBVIOUS
<1> HIDE DEF k, t
<1>6. /\ digits \in Seq(0..9) /\ Len(digits) = L
      /\ digits[1] # 0 /\ digits[L] = sig % 10
      /\ DigitsValue(digits) = sig
  BY <1>1, <1>3, <1>4, DigitsOf
<1> HIDE DEF digits
<1>7. exp \in Int /\ exp - (L - 1) = k + z /\ z \in Nat /\ L \in Nat \ {0}
  BY <1>1, <1>3, <1>4
<1> HIDE DEF exp
<1>8. t.negative = v.negative /\ t.digits = digits /\ t.exp = exp
      /\ "digits" \in DOMAIN t
  BY <1>2
<1>9. RoundTrips(v, sig, k + z)
  BY <1>4, <1>5, ScaleRoundTrips
<1>10. RoundTrips(v, DigitsValue(t.digits), t.exp - (Len(t.digits) - 1))
  BY <1>6, <1>7, <1>8, <1>9
<1>11. ASSUME ~IsSmallest(v) PROVE C!Acceptable(v, t)
  <2> DEFINE d == sig * 10^z
  <2>1. BestDecimal(v, d, k, M) /\ d = sig * 10^z
    BY <1>4, <1>11
  <2> HIDE DEF d
  <2>2. /\ ~HasShorter(v, sig, k + z, L)
        /\ ~HasCloser(v, sig, k + z, L)
    BY <1>3, <1>4, <1>5, <1>7, <2>1, BestIsShortest
  <2>3. /\ C!DigitsValue(digits) = sig
        /\ C!RoundTrips(v, sig, k + z)
        /\ ~C!HasShorter(v, sig, k + z, L)
        /\ ~C!HasCloser(v, sig, k + z, L)
    BY <1>6, <1>9, <2>2, SameReading
  <2>4. L > 0 /\ digits[L] # 0
    BY <1>4, <1>6, <1>7
  <2>5. C!IsShortest(v, digits, exp)
    BY <1>6, <1>7, <2>3, <2>4 DEF C!IsShortest
  <2>6. C!IsOrdinary(v)
    BY SameFields, OrdinaryIs
  <2> QED BY <1>8, <2>5, <2>6 DEF C!Acceptable
<1> QED BY <1>10, <1>11 DEF t

(* uscale's text of an ordinary value is the one of its answer.            *)
LEMMA TextIs ==
  ASSUME NEW v \in Ordinary, NEW sig, NEW z,
         U!Short(v) = <<sig, UscaleExp(v) + z>>
  PROVE  U!uscale_short(v) = AnswerText(v, sig, z, U!countDigits(sig))
<1>1. ~U!IsZero(v)
  BY OrdinaryIs DEF IsOrdinary, IsZero, U!IsZero
<1> DEFINE L == U!countDigits(sig)
           e == UscaleExp(v) + z
<1>2. U!Short(v)[1] = sig /\ U!Short(v)[2] = e
  OBVIOUS
<1>3. U!uscale_short(v) =
        [negative |-> v.negative,
         digits   |-> [i \in 1 .. U!countDigits(U!Short(v)[1]) |->
                         (U!Short(v)[1] \div 10^(U!countDigits(U!Short(v)[1]) - i)) % 10],
         exp      |-> U!Short(v)[2] + U!countDigits(U!Short(v)[1]) - 1]
  BY <1>1 DEF U!uscale_short
<1> HIDE DEF e
<1>4. U!uscale_short(v) = [negative |-> v.negative,
                           digits   |-> [i \in 1..L |-> (sig \div 10^(L - i)) % 10],
                           exp      |-> e + L - 1]
  BY <1>2, <1>3
<1> QED BY <1>4 DEF DigitPlaces, AnswerText, e

LEMMA TextAcceptable ==
  ASSUME NEW v \in Ordinary
  PROVE  LET t == U!uscale_short(v)
         IN /\ RoundTrips(v, DigitsValue(t.digits), t.exp - (Len(t.digits) - 1))
            /\ ~IsSmallest(v) => C!Acceptable(v, t)
<1> DEFINE M == uscale_digits
<1>1. PICK sig, z : /\ U!Short(v) = <<sig, UscaleExp(v) + z>>
                    /\ GoodAnswer(v, sig, z, M)
  BY UscaleBest
<1> DEFINE L == U!countDigits(sig)
<1>2. U!uscale_short(v) = AnswerText(v, sig, z, L)
  BY <1>1, TextIs
<1>3. TensKnown(M) /\ Scalable(v, UscaleExp(v), M)
  BY DigitsKnown, UscaleFramed DEF Framed
<1>4. sig \in 1 .. 10^M - 1
  BY <1>1, <1>3, AnswerSmall
<1>5. L \in 1..M /\ HasLength(sig, L)
  BY <1>4, CountDigitsIs DEF HasLength
<1> HIDE DEF L, M
<1> QED BY <1>1, <1>2, <1>3, <1>5, AnswerAcceptable

-----------------------------------------------------------------------------
(* uscale's text is written only while a call is in progress, and stays    *)
(* until the call returns: that, and the text itself, is all the invariant *)
(* needs.                                                                  *)
UscaleInv ==
  /\ value \in Arguments \cup {NoValue}
  /\ UscaleShortest

LEMMA InitUscaleInv == Init => UscaleInv
BY DEF Init, UscaleInv, UscaleShortest, Answered

LEMMA UscaleStep ==
  ASSUME UscaleInv, UscaleWrites
  PROVE  UscaleInv'
<1>1. value \in Arguments /\ value' = value /\ text' = U!uscale_short(value)
  BY DEF UscaleInv, UscaleWrites, Busy
<1>2. ASSUME Answered("uscale")' PROVE ShortestAbove(value, text)'
  <2>1. value \in Ordinary
    BY <1>1, <1>2 DEF Answered, Ordinary
  <2>2. /\ RoundTrips(value', DigitsValue(text'.digits), text'.exp - (Len(text'.digits) - 1))
        /\ ~IsSmallest(value') => C!Acceptable(value', text')
    BY <1>1, <2>1, TextAcceptable
  <2> QED BY <2>2 DEF ShortestAbove, ReadsBack
<1> QED BY <1>1, <1>2 DEF UscaleInv, UscaleShortest

LEMMA NextUscaleInv == UscaleInv /\ [Next]_vars => UscaleInv'
<1> SUFFICES ASSUME UscaleInv, [Next]_vars PROVE UscaleInv'
  OBVIOUS
<1>1. ASSUME value' \in Arguments \cup {NoValue}, ~Answered("uscale")'
      PROVE  UscaleInv'
  BY <1>1 DEF UscaleInv, UscaleShortest
<1>2. ASSUME method # "uscale", method' = method, value' = value PROVE UscaleInv'
  BY <1>1, <1>2 DEF UscaleInv, Answered
<1>3. ASSUME text' = text, method' = method, value' = value PROVE UscaleInv'
  BY <1>3 DEF UscaleInv, UscaleShortest, Answered, ShortestAbove, ReadsBack
<1>4. CASE Call
  BY <1>1, <1>4 DEF Call, Answered
<1>5. CASE UscaleWrites
  BY <1>5, UscaleStep
<1>6. CASE RyuWrites
  BY <1>2, <1>6 DEF RyuWrites, Busy
<1>7. CASE MiloWrites
  BY <1>2, <1>7 DEF MiloWrites, Busy
<1>8. CASE DragonboxWrites
  BY <1>2, <1>8 DEF DragonboxWrites, Busy
<1>9. CASE FmtWrites
  BY <1>2, <1>9 DEF FmtWrites, Busy
<1>10. CASE ZmijWrites
  BY <1>2, <1>10 DEF ZmijWrites, Busy
<1>11. CASE XjbWrites
  BY <1>2, <1>11 DEF XjbWrites, Busy
<1>12. CASE YyWrites
  BY <1>2, <1>12 DEF YyWrites, Busy
<1>13. CASE DoubleConversionWrites
  BY <1>2, <1>13 DEF DoubleConversionWrites, Busy
<1>14. CASE AsteriaWrites
  BY <1>2, <1>14 DEF AsteriaWrites, Busy
<1>15. CASE Snprintf
  BY <1>1, <1>15 DEF Snprintf, Answered, UscaleInv
<1>16. CASE FromChars
  BY <1>3, <1>16 DEF FromChars
<1>17. CASE Return
  BY <1>1, <1>17 DEF Return, Answered
<1>18. CASE UNCHANGED vars
  BY <1>3, <1>18 DEF vars
<1> QED BY <1>4, <1>5, <1>6, <1>7, <1>8, <1>9, <1>10, <1>11, <1>12, <1>13, <1>14,
           <1>15, <1>16, <1>17, <1>18 DEF Next

(* The text uscale writes (src/uscale/uscale.c:148-186) is the shortest    *)
(* decimal that identifies the value and, of those, the closest; for the   *)
(* smallest double of the format it identifies the value.                  *)
THEOREM AlwaysUscaleShortest == Spec => []UscaleShortest
<1>1. UscaleInv => UscaleShortest
  BY DEF UscaleInv
<1> QED BY <1>1, InitUscaleInv, NextUscaleInv, PTL DEF Spec

-----------------------------------------------------------------------------
(* ryu: the loops that remove digits.  The turns of both of them lead      *)
(* through the same levels, whatever the numbers are.                      *)

(* The last j + 1 digits are zeros if the last j are and the one before is. *)
LEMMA ZeroTail ==
  ASSUME NEW M, TensKnown(M), NEW x \in Nat, NEW j \in 0..M
  PROVE  x % 10^(j + 1) = 0 <=> x % 10^j = 0 /\ (x \div 10^j) % 10 = 0
<1> DEFINE P == 10^j
           a == x \div P
           r == x % P
           b == a \div 10
           d == a % 10
<1>1. P \in Nat \ {0} /\ 10^(j + 1) = 10 * P
  BY TensOf
<1> HIDE DEF P
<1>2. a \in Nat /\ r \in 0 .. P - 1 /\ x = P * a + r
  BY <1>1, Division
<1> HIDE DEF a, r
<1>3. b \in Nat /\ d \in 0..9 /\ a = 10 * b + d
  BY <1>2
<1> HIDE DEF b, d
<1> DEFINE Q == 10 * P
           z == P * d + r
<1>4. Q \in Nat \ {0} /\ x = Q * b + z
  <2>1. P * (10 * b + d) = (10 * P) * b + P * d
    BY <1>1, <1>3
  <2>2. P * d \in Nat /\ (10 * P) * b \in Nat
    BY <1>1, <1>3
  <2> QED BY <1>1, <1>2, <1>3, <2>1, <2>2
<1>5. z \in 0 .. Q - 1 /\ (z = 0 <=> d = 0 /\ r = 0)
  <2> DEFINE w == P * d
  <2>1. w \in Nat /\ w <= 9 * P
    <3>1. d * P <= 9 * P
      BY <1>1, <1>3, ProductOrder
    <3> QED BY <1>1, <1>3, <3>1
  <2>2. w = 0 <=> d = 0
    BY <1>1, <1>3
  <2> HIDE DEF w
  <2>3. w + r \in 0 .. 10 * P - 1 /\ (w + r = 0 <=> w = 0 /\ r = 0)
    BY <1>1, <1>2, <2>1
  <2> QED BY <2>2, <2>3 DEF w
<1> HIDE DEF Q, z
<1>6. x % Q = z
  BY <1>3, <1>4, <1>5, DivisionUnique
<1>7. 10^(j + 1) = Q
  BY <1>1 DEF Q
<1> QED BY <1>5, <1>6, <1>7 DEF P, a, r, d

-----------------------------------------------------------------------------
(* The scaled numbers of ryu, nothing removed yet, and with j digits       *)
(* removed.                                                                *)
IsScaled(s) ==
  /\ s.vr \in Nat /\ s.vp \in Nat /\ s.vm \in Nat
  /\ s = [vr |-> s.vr, vp |-> s.vp, vm |-> s.vm, removed |-> 0, last |-> 0,
          vrZeros |-> s.vrZeros, vmZeros |-> s.vmZeros]
  /\ s.vrZeros \in BOOLEAN /\ s.vmZeros \in BOOLEAN

(* The three numbers and the flags once j digits are removed.              *)
Level(s, j) ==
  [vr |-> s.vr \div 10^j, vp |-> s.vp \div 10^j, vm |-> s.vm \div 10^j,
   removed |-> j,
   last    |-> IF j = 0 THEN 0 ELSE (s.vr \div 10^(j - 1)) % 10,
   vrZeros |-> s.vrZeros /\ (j = 0 \/ s.vr % 10^(j - 1) = 0),
   vmZeros |-> s.vmZeros /\ s.vm % 10^j = 0]

(* Nothing removed.                                                        *)
LEMMA LevelStart ==
  ASSUME NEW s, IsScaled(s)
  PROVE  Level(s, 0) = s
<1>1. 10^0 = 1
  OBVIOUS
<1>2. \A x \in Nat : x \div 10^0 = x /\ x % 10^0 = 0
  BY <1>1
<1>3. /\ s.vr \div 10^0 = s.vr /\ s.vp \div 10^0 = s.vp /\ s.vm \div 10^0 = s.vm
      /\ s.vm % 10^0 = 0
  BY <1>2 DEF IsScaled
<1>4. /\ s.vrZeros \in BOOLEAN /\ s.vmZeros \in BOOLEAN
      /\ s = [vr |-> s.vr, vp |-> s.vp, vm |-> s.vm, removed |-> 0, last |-> 0,
              vrZeros |-> s.vrZeros, vmZeros |-> s.vmZeros]
  BY DEF IsScaled
<1>5. /\ (s.vrZeros /\ (0 = 0 \/ s.vr % 10^(0 - 1) = 0)) = s.vrZeros
      /\ (s.vmZeros /\ s.vm % 10^0 = 0) = s.vmZeros
  BY <1>3, <1>4
<1>6. (IF 0 = 0 THEN 0 ELSE (s.vr \div 10^(0 - 1)) % 10) = 0
  OBVIOUS
<1> QED BY <1>3, <1>4, <1>5, <1>6 DEF Level

(* One turn of a loop removes one more digit.                              *)
LEMMA CutLevel ==
  ASSUME NEW M, TensKnown(M), NEW s, IsScaled(s), NEW j \in 0..M
  PROVE  R!Cut(Level(s, j)) = Level(s, j + 1)
<1> DEFINE P == 10^j
           t == Level(s, j)
<1>1. P \in Nat \ {0} /\ 10^(j + 1) = P * 10 /\ j \in Nat /\ j + 1 # 0 /\ (j + 1) - 1 = j
      /\ M \in Nat
  <2>1. M \in Nat
    BY DEF TensKnown
  <2>2. P \in Nat \ {0} /\ 10^(j + 1) = 10 * P
    BY TensOf
  <2> HIDE DEF P
  <2> QED BY <2>1, <2>2
<1>2. \A x \in Nat : (x \div P) \div 10 = x \div 10^(j + 1)
  <2> HIDE DEF P
  <2>1. 10 \in Nat \ {0}
    OBVIOUS
  <2>2. \A x \in Nat : (x \div P) \div 10 = x \div (P * 10)
    BY <1>1, <2>1, DivisionTwice
  <2> QED BY <1>1, <2>2
<1>3. /\ t.vr = s.vr \div P /\ t.vp = s.vp \div P /\ t.vm = s.vm \div P /\ t.removed = j
      /\ t.last = (IF j = 0 THEN 0 ELSE (s.vr \div 10^(j - 1)) % 10)
      /\ t.vrZeros = (s.vrZeros /\ (j = 0 \/ s.vr % 10^(j - 1) = 0))
      /\ t.vmZeros = (s.vmZeros /\ s.vm % P = 0)
  BY DEF Level
<1>4. /\ t.vr \div 10 = s.vr \div 10^(j + 1) /\ t.vp \div 10 = s.vp \div 10^(j + 1)
      /\ t.vm \div 10 = s.vm \div 10^(j + 1)
  BY <1>2, <1>3 DEF IsScaled
<1>5. (t.vmZeros /\ t.vm % 10 = 0) = (s.vmZeros /\ s.vm % 10^(j + 1) = 0)
  <2>1. s.vm % 10^(j + 1) = 0 <=> s.vm % P = 0 /\ (s.vm \div P) % 10 = 0
    BY ZeroTail DEF IsScaled
  <2> QED BY <1>3, <2>1
<1>6. (t.vrZeros /\ t.last = 0) = (s.vrZeros /\ s.vr % P = 0)
  <2>1. CASE j = 0
    <3>1. P = 1
      BY <2>1
    <3>2. s.vr % P = 0
      BY <3>1 DEF IsScaled
    <3> QED BY <1>3, <2>1, <3>2
  <2>2. CASE j # 0
    <3>1. j - 1 \in 0..M /\ (j - 1) + 1 = j
      BY <1>1, <2>2
    <3>2. s.vr % 10^((j - 1) + 1) = 0 <=> s.vr % 10^(j - 1) = 0 /\ (s.vr \div 10^(j - 1)) % 10 = 0
      BY <3>1, ZeroTail DEF IsScaled
    <3>3. s.vr % P = 0 <=> s.vr % 10^(j - 1) = 0 /\ (s.vr \div 10^(j - 1)) % 10 = 0
      BY <3>1, <3>2
    <3> QED BY <1>3, <2>2, <3>3
  <2> QED BY <2>1, <2>2
<1>7. Level(s, j + 1) =
        [vr |-> s.vr \div 10^(j + 1), vp |-> s.vp \div 10^(j + 1), vm |-> s.vm \div 10^(j + 1),
         removed |-> j + 1,
         last    |-> (s.vr \div P) % 10,
         vrZeros |-> s.vrZeros /\ s.vr % P = 0,
         vmZeros |-> s.vmZeros /\ s.vm % 10^(j + 1) = 0]
  BY <1>1 DEF Level
<1>8. R!Cut(t) = [vr |-> t.vr \div 10, vp |-> t.vp \div 10, vm |-> t.vm \div 10,
                  removed |-> t.removed + 1,
                  last    |-> t.vr % 10,
                  vrZeros |-> t.vrZeros /\ t.last = 0,
                  vmZeros |-> t.vmZeros /\ t.vm % 10 = 0]
  BY DEF R!Cut
<1> HIDE DEF P, t
<1> QED BY <1>3, <1>4, <1>5, <1>6, <1>7, <1>8 DEF t, P

(* What the conditions of the loops look at.                               *)
Wide(s, j) == s.vp \div 10^(j + 1) > s.vm \div 10^(j + 1)

(* Division by the powers of ten, one digit after the other.               *)
LEMMA LevelTens ==
  ASSUME NEW M, TensKnown(M), NEW s, IsScaled(s), NEW j \in 0..M
  PROVE  /\ Level(s, j).vp \div 10 = s.vp \div 10^(j + 1)
         /\ Level(s, j).vm \div 10 = s.vm \div 10^(j + 1)
         /\ Level(s, j).vp \div 10 > Level(s, j).vm \div 10 <=> Wide(s, j)
<1> DEFINE P == 10^j
<1>1. P \in Nat \ {0} /\ 10^(j + 1) = P * 10
  <2>1. P \in Nat \ {0} /\ 10^(j + 1) = 10 * P
    BY TensOf
  <2> HIDE DEF P
  <2> QED BY <2>1
<1> HIDE DEF P
<1>2. 10 \in Nat \ {0}
  OBVIOUS
<1>3. \A x \in Nat : (x \div P) \div 10 = x \div (P * 10)
  BY <1>1, <1>2, DivisionTwice
<1>4. Level(s, j).vp = s.vp \div P /\ Level(s, j).vm = s.vm \div P
  BY DEF Level, P
<1>5. /\ Level(s, j).vp \div 10 = s.vp \div 10^(j + 1)
      /\ Level(s, j).vm \div 10 = s.vm \div 10^(j + 1)
  BY <1>1, <1>3, <1>4 DEF IsScaled
<1> QED BY <1>5 DEF Wide

(* A loop of E turns that goes from one level to the next until level J.   *)
Follows(f, s, i, J, E) ==
  /\ f[0] = Level(s, i)
  /\ \A n \in 1..E : \A j \in i..J :
       f[n - 1] = Level(s, j) => f[n] = Level(s, IF j < J THEN j + 1 ELSE j)

(* A loop that removes a digit at a time up to J ends at J.                *)
LEMMA Removing ==
  ASSUME NEW s, NEW E \in Nat, NEW i \in Nat, NEW J \in Nat, i <= J, J <= i + E,
         NEW f, Follows(f, s, i, J, E)
  PROVE  f[E] = Level(s, J)
<1> DEFINE at(n) == IF i + n < J THEN i + n ELSE J
           good == {n \in Nat : f[n] = Level(s, at(n))}
<1>0. /\ f[0] = Level(s, i)
      /\ \A n \in 1..E : \A j \in i..J :
           f[n - 1] = Level(s, j) => f[n] = Level(s, IF j < J THEN j + 1 ELSE j)
  BY DEF Follows
<1>1. 0 \in good
  <2>1. at(0) = i
    OBVIOUS
  <2> HIDE DEF at
  <2> QED BY <1>0, <2>1
<1>2. ASSUME NEW n \in 0 .. E - 1, n \in good PROVE n + 1 \in good
  <2>1. /\ n + 1 \in 1..E /\ (n + 1) - 1 = n /\ at(n) \in i..J
        /\ at(n + 1) = IF at(n) < J THEN at(n) + 1 ELSE at(n)
    OBVIOUS
  <2>2. f[n] = Level(s, at(n))
    BY <1>2
  <2> HIDE DEF at
  <2>3. f[n + 1] = Level(s, at(n + 1))
    BY <1>0, <2>1, <2>2
  <2> QED BY <2>3
<1> HIDE DEF good
<1>3. \A n \in 0..E : n \in good
  BY <1>1, <1>2, IntervalInduction
<1>4. E \in 0..E /\ at(E) = J
  OBVIOUS
<1> HIDE DEF at
<1> QED BY <1>3, <1>4 DEF good

(* The first loop ends where its condition fails for the first time.       *)
LEMMA WideLoop ==
  ASSUME max_digits \in Nat, TensKnown(max_digits), NEW s, IsScaled(s), s.vp < 10^max_digits,
         NEW i \in 0..max_digits
  PROVE  \E J \in i..max_digits :
           /\ R!CutWhileWide(Level(s, i)) = Level(s, J)
           /\ ~Wide(s, J)
           /\ J # i => Wide(s, J - 1)
<1> DEFINE E == max_digits
           T == {j \in Nat : j >= i /\ ~Wide(s, j)}
<1>1. E \in Nat /\ i \in Nat /\ i <= E /\ s.vp \in Nat /\ s.vm \in Nat
  BY DEF IsScaled
<1>2. E \in T
  <2> DEFINE P == 10^E
             Q == 10^(E + 1)
  <2>1. P \in Nat \ {0} /\ Q = 10 * P /\ s.vp < P
    <3>1. E \in 0..E
      BY <1>1
    <3> QED BY <3>1, TensOf
  <2> HIDE DEF P, Q, E
  <2>2. s.vp < Q /\ Q \in Nat \ {0}
    BY <1>1, <2>1
  <2>3. s.vp = Q * 0 + s.vp /\ s.vp \in 0 .. Q - 1
    BY <1>1, <2>2
  <2>4. s.vp \div Q = 0
    BY <2>2, <2>3, DivisionUnique
  <2>5. s.vm \div Q \in Nat
    BY <1>1, <2>2, Division
  <2>6. ~Wide(s, E)
    BY <2>4, <2>5 DEF Wide, Q
  <2> QED BY <1>1, <2>6
<1>3. PICK J \in T : \A y \in T : J <= y
  <2> HIDE DEF E
  <2>1. T \subseteq Nat /\ T # {}
    BY <1>2
  <2> HIDE DEF T
  <2> QED BY <2>1, LeastNatural
<1>4. J \in Nat /\ i <= J /\ J <= E /\ J <= i + E /\ J \in i..E
  BY <1>1, <1>2, <1>3
<1>5. ~Wide(s, J)
  BY <1>3
<1>6. \A j \in i .. J - 1 : Wide(s, j)
  <2> SUFFICES ASSUME NEW j \in i .. J - 1, ~Wide(s, j) PROVE FALSE
    OBVIOUS
  <2>1. j \in T /\ j < J
    BY <1>1, <1>4
  <2> QED BY <1>3, <1>4, <2>1
<1>7. J # i => Wide(s, J - 1)
  BY <1>1, <1>4, <1>6
<1> DEFINE t == Level(s, i)
           Eq(f) == f = [n \in 0..E |->
                          IF n = 0 THEN t
                          ELSE LET u == f[n - 1]
                               IN IF u.vp \div 10 > u.vm \div 10 THEN R!Cut(u) ELSE u]
           h == CHOOSE f : Eq(f)
           at(n) == IF i + n < J THEN i + n ELSE J
           g == [n \in 0..E |-> Level(s, at(n))]
<1>8. \A j \in i..J : LET u == Level(s, j)
                      IN (IF u.vp \div 10 > u.vm \div 10 THEN R!Cut(u) ELSE u)
                           = Level(s, IF j < J THEN j + 1 ELSE j)
  <2> SUFFICES ASSUME NEW j \in i..J
               PROVE  LET u == Level(s, j)
                      IN (IF u.vp \div 10 > u.vm \div 10 THEN R!Cut(u) ELSE u)
                           = Level(s, IF j < J THEN j + 1 ELSE j)
    OBVIOUS
  <2>1. j \in 0..E
    BY <1>1, <1>4
  <2>2. Level(s, j).vp \div 10 > Level(s, j).vm \div 10 <=> Wide(s, j)
    BY <2>1, LevelTens
  <2>3. R!Cut(Level(s, j)) = Level(s, j + 1)
    BY <2>1, CutLevel
  <2>4. Wide(s, j) <=> j < J
    <3>1. j < J => j \in i .. J - 1
      BY <1>4
    <3>2. ~(j < J) => j = J
      BY <1>4
    <3> QED BY <1>5, <1>6, <3>1, <3>2
  <2> QED BY <2>2, <2>3, <2>4
<1>9. Eq(g)
  <2>1. \A n \in 0..E : g[n] = IF n = 0 THEN t
                               ELSE LET u == g[n - 1]
                                    IN IF u.vp \div 10 > u.vm \div 10 THEN R!Cut(u) ELSE u
    <3> SUFFICES ASSUME NEW n \in 0..E
                 PROVE  g[n] = IF n = 0 THEN t
                               ELSE LET u == g[n - 1]
                                    IN IF u.vp \div 10 > u.vm \div 10 THEN R!Cut(u) ELSE u
      OBVIOUS
    <3>1. CASE n = 0
      <4>1. at(0) = i
        BY <1>1, <1>4
      <4>2. g[n] = Level(s, at(0))
        BY <3>1
      <4> QED BY <3>1, <4>1, <4>2
    <3>2. CASE n # 0
      <4>1. /\ n - 1 \in 0..E /\ at(n - 1) \in i..J
            /\ at(n) = IF at(n - 1) < J THEN at(n - 1) + 1 ELSE at(n - 1)
        BY <1>1, <1>4, <3>2
      <4>2. g[n] = Level(s, at(n)) /\ g[n - 1] = Level(s, at(n - 1))
        BY <4>1
      <4> HIDE DEF at, g
      <4> QED BY <1>8, <3>2, <4>1, <4>2
    <3> QED BY <3>1, <3>2
  <2>2. g = [n \in 0..E |-> g[n]]
    OBVIOUS
  <2> HIDE DEF g, t, E
  <2> QED BY <2>1, <2>2
<1>10. Eq(h)
  <2> HIDE DEF Eq, g
  <2> QED BY <1>9, Zenon
<1>11. R!CutWhileWide(t) = h[E]
  BY DEF R!CutWhileWide
<1>12. h = [n \in 0..E |-> IF n = 0 THEN t
                           ELSE LET u == h[n - 1]
                                IN IF u.vp \div 10 > u.vm \div 10 THEN R!Cut(u) ELSE u]
  BY <1>10
<1> HIDE DEF h, E
<1>13. h[0] = t
  <2>1. 0 \in 0..E
    BY <1>1
  <2> QED BY <1>12, <2>1
<1>14. \A n \in 1..E : \A j \in i..J :
         h[n - 1] = Level(s, j) => h[n] = Level(s, IF j < J THEN j + 1 ELSE j)
  <2> SUFFICES ASSUME NEW n \in 1..E, NEW j \in i..J, h[n - 1] = Level(s, j)
               PROVE  h[n] = Level(s, IF j < J THEN j + 1 ELSE j)
    OBVIOUS
  <2>1. n \in 0..E /\ n # 0
    BY <1>1
  <2>2. h[n] = LET u == h[n - 1] IN IF u.vp \div 10 > u.vm \div 10 THEN R!Cut(u) ELSE u
    BY <1>12, <2>1
  <2> QED BY <1>8, <2>2
<1>15. h[E] = Level(s, J)
  <2>1. h[0] = Level(s, i)
    BY <1>13
  <2>2. E \in Nat /\ i \in Nat /\ J \in Nat /\ i <= J /\ J <= i + E
    BY <1>1, <1>4 DEF E
  <2>3. Follows(h, s, i, J, E)
    BY <1>14, <2>1 DEF Follows
  <2> QED BY <2>2, <2>3, Removing
<1> QED BY <1>4, <1>5, <1>7, <1>11, <1>15 DEF E

(* The second one removes the zeros at the end of vm.                      *)
LEMMA ZerosLoop ==
  ASSUME max_digits \in Nat, TensKnown(max_digits), NEW s, IsScaled(s),
         s.vm \in 1 .. 10^max_digits - 1,
         NEW i \in 0..max_digits, s.vm % 10^i = 0
  PROVE  \E J \in i..max_digits :
           /\ R!CutZeros(Level(s, i)) = Level(s, J)
           /\ s.vm % 10^J = 0
           /\ s.vm % 10^(J + 1) # 0
<1> DEFINE E == max_digits
           T == {j \in Nat : j >= i /\ s.vm % 10^(j + 1) # 0}
<1>1. E \in Nat /\ i \in Nat /\ i <= E /\ s.vm \in Nat /\ s.vm # 0
  <2>1. E \in 0..E
    OBVIOUS
  <2>2. 10^E \in Nat
    BY <2>1, TensOf
  <2> DEFINE P == 10^E
  <2>3. P \in Nat /\ s.vm \in 1 .. P - 1
    BY <2>2
  <2> HIDE DEF P
  <2> QED BY <2>3
<1>2. E \in T
  <2> DEFINE P == 10^E
             Q == 10^(E + 1)
  <2>1. P \in Nat \ {0} /\ Q = 10 * P /\ s.vm \in 1 .. P - 1
    <3>1. E \in 0..E
      BY <1>1
    <3> QED BY <3>1, TensOf
  <2> HIDE DEF P, Q, E
  <2>2. s.vm < Q /\ Q \in Nat \ {0}
    BY <1>1, <2>1
  <2>3. s.vm = Q * 0 + s.vm /\ s.vm \in 0 .. Q - 1
    BY <1>1, <2>2
  <2>4. s.vm % Q = s.vm
    BY <2>2, <2>3, DivisionUnique
  <2> QED BY <1>1, <2>4 DEF Q
<1>3. PICK J \in T : \A y \in T : J <= y
  <2> HIDE DEF E
  <2>1. T \subseteq Nat /\ T # {}
    BY <1>2
  <2> HIDE DEF T
  <2> QED BY <2>1, LeastNatural
<1>4. J \in Nat /\ i <= J /\ J <= E /\ J <= i + E /\ J \in i..E
  BY <1>1, <1>2, <1>3
<1>5. s.vm % 10^(J + 1) # 0
  BY <1>3
<1>6. \A j \in i..J : s.vm % 10^j = 0
  <2> SUFFICES ASSUME NEW j \in i..J PROVE s.vm % 10^j = 0
    OBVIOUS
  <2>1. CASE j = i
    BY <2>1
  <2>2. CASE j # i
    <3>1. j - 1 \in Nat /\ j - 1 >= i /\ ~(J <= j - 1) /\ (j - 1) + 1 = j
      BY <1>1, <1>4, <2>2
    <3>2. j - 1 \notin T
      BY <1>3, <3>1
    <3>3. s.vm % 10^((j - 1) + 1) = 0
      BY <3>1, <3>2
    <3> QED BY <3>1, <3>3
  <2> QED BY <2>1, <2>2
<1> DEFINE t == Level(s, i)
           Eq(f) == f = [n \in 0..E |->
                          IF n = 0 THEN t
                          ELSE LET u == f[n - 1] IN IF u.vm % 10 = 0 THEN R!Cut(u) ELSE u]
           h == CHOOSE f : Eq(f)
           at(n) == IF i + n < J THEN i + n ELSE J
           g == [n \in 0..E |-> Level(s, at(n))]
<1>8. \A j \in i..J : LET u == Level(s, j)
                      IN (IF u.vm % 10 = 0 THEN R!Cut(u) ELSE u)
                           = Level(s, IF j < J THEN j + 1 ELSE j)
  <2> SUFFICES ASSUME NEW j \in i..J
               PROVE  LET u == Level(s, j)
                      IN (IF u.vm % 10 = 0 THEN R!Cut(u) ELSE u)
                           = Level(s, IF j < J THEN j + 1 ELSE j)
    OBVIOUS
  <2>1. j \in 0..E /\ E \in Nat
    BY <1>1, <1>4
  <2>2. s.vm % 10^(j + 1) = 0 <=> s.vm % 10^j = 0 /\ (s.vm \div 10^j) % 10 = 0
    BY <1>1, <2>1, ZeroTail
  <2>3. R!Cut(Level(s, j)) = Level(s, j + 1)
    BY <2>1, CutLevel
  <2>4. (s.vm \div 10^j) % 10 = 0 <=> j < J
    <3>1. s.vm % 10^j = 0
      BY <1>6
    <3>2. j < J => j + 1 \in i..J
      BY <1>1, <1>4
    <3>3. ~(j < J) => j = J
      BY <1>4
    <3> QED BY <1>5, <1>6, <2>2, <3>1, <3>2, <3>3
  <2>5. Level(s, j).vm = s.vm \div 10^j
    BY DEF Level
  <2> QED BY <2>3, <2>4, <2>5
<1>9. Eq(g)
  <2>1. \A n \in 0..E : g[n] = IF n = 0 THEN t
                               ELSE LET u == g[n - 1] IN IF u.vm % 10 = 0 THEN R!Cut(u) ELSE u
    <3> SUFFICES ASSUME NEW n \in 0..E
                 PROVE  g[n] = IF n = 0 THEN t
                               ELSE LET u == g[n - 1] IN IF u.vm % 10 = 0 THEN R!Cut(u) ELSE u
      OBVIOUS
    <3>1. CASE n = 0
      <4>1. at(0) = i
        BY <1>1, <1>4
      <4>2. g[n] = Level(s, at(0))
        BY <3>1
      <4> QED BY <3>1, <4>1, <4>2
    <3>2. CASE n # 0
      <4>1. /\ n - 1 \in 0..E /\ at(n - 1) \in i..J
            /\ at(n) = IF at(n - 1) < J THEN at(n - 1) + 1 ELSE at(n - 1)
        BY <1>1, <1>4, <3>2
      <4>2. g[n] = Level(s, at(n)) /\ g[n - 1] = Level(s, at(n - 1))
        BY <4>1
      <4> HIDE DEF at, g
      <4> QED BY <1>8, <3>2, <4>1, <4>2
    <3> QED BY <3>1, <3>2
  <2>2. g = [n \in 0..E |-> g[n]]
    OBVIOUS
  <2> HIDE DEF g, t, E
  <2> QED BY <2>1, <2>2
<1>10. Eq(h)
  <2> HIDE DEF Eq, g
  <2> QED BY <1>9, Zenon
<1>11. R!CutZeros(t) = h[E]
  BY DEF R!CutZeros
<1>12. h = [n \in 0..E |-> IF n = 0 THEN t
                           ELSE LET u == h[n - 1] IN IF u.vm % 10 = 0 THEN R!Cut(u) ELSE u]
  BY <1>10
<1> HIDE DEF h, E
<1>13. h[0] = t
  <2>1. 0 \in 0..E
    BY <1>1
  <2> QED BY <1>12, <2>1
<1>14. \A n \in 1..E : \A j \in i..J :
         h[n - 1] = Level(s, j) => h[n] = Level(s, IF j < J THEN j + 1 ELSE j)
  <2> SUFFICES ASSUME NEW n \in 1..E, NEW j \in i..J, h[n - 1] = Level(s, j)
               PROVE  h[n] = Level(s, IF j < J THEN j + 1 ELSE j)
    OBVIOUS
  <2>1. n \in 0..E /\ n # 0
    BY <1>1
  <2>2. h[n] = LET u == h[n - 1] IN IF u.vm % 10 = 0 THEN R!Cut(u) ELSE u
    BY <1>12, <2>1
  <2> QED BY <1>8, <2>2
<1>15. h[E] = Level(s, J)
  <2>1. Follows(h, s, i, J, E)
    BY <1>13, <1>14 DEF Follows
  <2> HIDE DEF t
  <2> QED BY <1>1, <1>4, <2>1, Removing
<1>16. s.vm % 10^J = 0
  BY <1>4, <1>6
<1> QED BY <1>4, <1>5, <1>11, <1>15, <1>16 DEF E

-----------------------------------------------------------------------------
(* The numbers and the scale of ryu.                                       *)

(* The digits ryu works with: at most two more than a candidate may have.  *)
LEMMA RyuDigitsKnown ==
  /\ max_digits \in Nat /\ ryu_digits \in Nat /\ ryu_digits >= 2
  /\ max_digits = ryu_digits + 2
  /\ \A n \in 1..max_digits : TensKnown(n)
<1>1. max_digits \in Nat /\ ryu_digits \in Nat \ {0} /\ ryu_digits = max_digits - 2
      /\ 20 * implicit_bit <= 10^ryu_digits
  BY RyuWidthAssumption, ConvertersAssumption DEF R!RyuParameters, ryu_digits
<1>2. implicit_bit \in Nat \ {0}
  BY WordIs
<1>3. ryu_digits # 1
  <2> SUFFICES ASSUME ryu_digits = 1 PROVE FALSE
    OBVIOUS
  <2>1. 10^1 = 10
    OBVIOUS
  <2>2. 20 * implicit_bit <= 10
    BY <1>1, <2>1
  <2> QED BY <1>2, <2>2
<1>4. \A n \in 0..max_digits : PowerAt(10, n)
  BY RyuPowersAssumption
<1>5. \A n \in 1..max_digits : TensKnown(n)
  <2> SUFFICES ASSUME NEW n \in 1..max_digits PROVE TensKnown(n)
    OBVIOUS
  <2>1. \A i \in 0..n : i \in 0..max_digits
    BY <1>1
  <2>2. n \in Nat \ {0}
    BY <1>1
  <2> QED BY <1>4, <2>1, <2>2 DEF TensKnown
<1> QED BY <1>1, <1>3, <1>5

(* The exponent the value is scaled to, and the most digits that can be    *)
(* removed from there.                                                     *)
Spare(v) == ryu_digits + UscaleExp(v) - R!e10(v)

(* The scale is at most two digits finer than the exponent of the unit a   *)
(* candidate is looked for in.                                             *)
LEMMA RyuScaled ==
  ASSUME NEW v \in Ordinary
  PROVE  LET e == R!e10(v)
             k == UscaleExp(v)
         IN /\ k \in Int /\ e \in Int /\ k - e \in 0..2
            /\ Spare(v) = ryu_digits + (k - e) /\ Spare(v) \in 2..max_digits
            /\ Scalable(v, e + 1, Spare(v) - 1)
            /\ PowersNear(BinExp(v), e)
<1> DEFINE e == R!e10(v)
           k == UscaleExp(v)
<1>1. k \in Int
  BY UscaleLogAssumption
<1>2. e \in k - 2 .. k
  BY RyuLogAssumption
<1> HIDE DEF e, k
<1>3. e \in Int /\ k - e \in 0..2 /\ Spare(v) = ryu_digits + (k - e)
      /\ Spare(v) \in 2..max_digits
  BY <1>1, <1>2, RyuDigitsKnown DEF Spare, e, k
<1> DEFINE m == Spare(v) - 1
<1>4. m \in 1..max_digits /\ (e + 1) - 1 = e /\ (e + 1) + m = k + ryu_digits
  BY <1>1, <1>2, <1>3, RyuDigitsKnown
<1> HIDE DEF m
<1>5. PowersNear(BinExp(v), e)
  BY RyuPowersAssumption DEF e
<1>6. \A j \in (e + 1) - 1 .. (e + 1) + m : PowersNear(BinExp(v), j)
  <2> SUFFICES ASSUME NEW j \in (e + 1) - 1 .. (e + 1) + m PROVE PowersNear(BinExp(v), j)
    OBVIOUS
  <2>1. j = e \/ j \in k - 1 .. k + ryu_digits
    BY <1>1, <1>2, <1>3, <1>4, RyuDigitsKnown
  <2>2. \A i \in k - 1 .. k + ryu_digits : PowersNear(BinExp(v), i)
    BY RyuPowersAssumption DEF k
  <2> QED BY <1>5, <2>1, <2>2
<1>7. TensKnown(m)
  BY <1>4, RyuDigitsKnown
<1>8. BinSig(v) \in Nat \ {0} /\ BinExp(v) \in Int
  <2>1. BinSig(v) \in 1 .. 2 * implicit_bit - 1 /\ BinExp(v) \in Int
    BY OrdinaryIs
  <2> QED BY <2>1, WordIs
<1>9. e + 1 \in Int
  BY <1>3
<1>10. Scalable(v, e + 1, m)
  BY <1>6, <1>7, <1>8, <1>9 DEF Scalable
<1> QED BY <1>1, <1>3, <1>5, <1>10 DEF m, e, k

(* The frame of BinaryFloatProofs, with the digits of ryu.                 *)
LEMMA RyuFramed ==
  ASSUME NEW v \in Ordinary
  PROVE  Framed(v, UscaleExp(v), ryu_digits)
<1> DEFINE k == UscaleExp(v)
           M == ryu_digits
<1>1. /\ BinSig(v) \in 1 .. 2 * implicit_bit - 1 /\ BinExp(v) \in Int
      /\ HalfGapBelow(v) => BinSig(v) = implicit_bit /\ BinSig(v) % 2 = 0
  BY OrdinaryIs
<1>2. implicit_bit \in Nat \ {0}
  BY WordIs
<1>3. BinSig(v) \in Nat \ {0}
  BY <1>1, <1>2
<1>4. k \in Int /\ SpansOne(v, k)
  BY UscaleLogAssumption DEF SpansOne
<1>5. \A j \in k - 1 .. k + M : PowersNear(BinExp(v), j)
  BY RyuPowersAssumption
<1>6. TensKnown(M) /\ 20 * implicit_bit <= 10^M
  <2>1. ryu_digits \in 1..max_digits
    BY RyuDigitsKnown
  <2> QED BY <2>1, RyuDigitsKnown, RyuWidthAssumption
<1> HIDE DEF k, M
<1>7. Scalable(v, k, M)
  BY <1>1, <1>3, <1>4, <1>5, <1>6 DEF Scalable
<1> QED BY <1>1, <1>2, <1>4, <1>6, <1>7 DEF Framed, M, k

(* The factors of the scale the value is brought to.                       *)
LEMMA RyuFactors ==
  ASSUME NEW v \in Ordinary
  PROVE  LET q == BinExp(v)
             e == R!e10(v)
         IN /\ Twos(q, e) \in Nat \ {0} /\ Tens(q, e) \in Nat \ {0}
            /\ BinSig(v) \in Nat \ {0}
            /\ LowerQuarters(v) \in Nat \ {0} /\ LowerQuarters(v) < 4 * BinSig(v)
            /\ UpperQuarters(v) = 4 * BinSig(v) + 2
            /\ LowerQuarters(v) =
                 4 * BinSig(v) - (IF HalfGapBelow(v) THEN 1 ELSE 2)
<1> DEFINE e == R!e10(v)
           m == Spare(v) - 1
<1>1. Scalable(v, e + 1, m) /\ e \in Int /\ m \in Nat
  BY RyuScaled
<1> HIDE DEF e, m
<1>2. (e + 1) - 1 = e /\ e \in (e + 1) - 1 .. (e + 1) + m
  BY <1>1
<1>3. Twos(BinExp(v), e) \in Nat \ {0} /\ Tens(BinExp(v), e) \in Nat \ {0}
  BY <1>1, <1>2, ScaleFactors
<1>4. BinSig(v) \in Nat \ {0}
  BY <1>1 DEF Scalable
<1>5. UpperQuarters(v) = 4 * BinSig(v) + 2
      /\ LowerQuarters(v) = 4 * BinSig(v) - (IF HalfGapBelow(v) THEN 1 ELSE 2)
  BY DEF UpperQuarters, LowerQuarters
<1> QED BY <1>3, <1>4, <1>5 DEF e

(* The products of the table are the floors of the value and of the ends   *)
(* of its interval, in units of the scale.                                 *)
IsPart(x, a, T) == x \in Nat /\ (4 * x) * T <= a /\ a < (4 * (x + 1)) * T

(* mulShiftAll64 yields the exact floors of the value and of both ends.    *)
LEMMA ProductIs ==
  ASSUME NEW v \in Ordinary
  PROVE  LET t == R!Product(v)
             N == Twos(BinExp(v), R!e10(v))
             T == Tens(BinExp(v), R!e10(v))
         IN /\ IsPart(t.vr, (4 * BinSig(v)) * N, T)
            /\ IsPart(t.vp, UpperQuarters(v) * N, T)
            /\ IsPart(t.vm, LowerQuarters(v) * N, T)
            /\ t = [vr |-> t.vr, vp |-> t.vp, vm |-> t.vm, removed |-> 0, last |-> 0,
                    vrZeros |-> FALSE, vmZeros |-> FALSE]
<1> DEFINE t == R!Product(v)
           q == BinExp(v)
           e == R!e10(v)
           N == Twos(q, e)
           T == Tens(q, e)
<1>1. N \in Nat \ {0} /\ T \in Nat \ {0} /\ BinSig(v) \in Nat \ {0}
      /\ LowerQuarters(v) \in Nat \ {0} /\ UpperQuarters(v) = 4 * BinSig(v) + 2
  BY RyuFactors
<1>2. ASSUME NEW x, NEW n \in Nat, IsFloor(x, n, q, e) PROVE IsPart(x, n * N, T)
  <2>1. x \in Nat /\ x + 1 \in Nat /\ DecimalLeq(x, e, n, q) /\ ~DecimalLeq(x + 1, e, n, q)
    BY <1>2 DEF IsFloor
  <2>2. (4 * x) * T <= n * N /\ ~((4 * (x + 1)) * T <= n * N)
    BY <1>1, <2>1, ComparesInIntegers
  <2> DEFINE a == n * N
             b == (4 * (x + 1)) * T
  <2>3. a \in Nat /\ b \in Nat /\ ~(b <= a)
    BY <1>1, <2>1, <2>2
  <2> HIDE DEF a, b
  <2>4. a < b
    BY <2>3
  <2> QED BY <2>1, <2>2, <2>4 DEF a, b, IsPart
<1>3. 4 * BinSig(v) \in Nat /\ UpperQuarters(v) \in Nat /\ LowerQuarters(v) \in Nat
  BY <1>1
<1>4. /\ IsFloor(t.vr, 4 * BinSig(v), q, e)
      /\ IsFloor(t.vp, UpperQuarters(v), q, e)
      /\ IsFloor(t.vm, LowerQuarters(v), q, e)
  BY RyuTableAssumption
<1>5. t = [vr |-> t.vr, vp |-> t.vp, vm |-> t.vm, removed |-> 0, last |-> 0,
           vrZeros |-> FALSE, vmZeros |-> FALSE]
  <2>1. \A mul, j : LET u == R!mulShiftAll64(v, mul, j)
                    IN u = [vr |-> u.vr, vp |-> u.vp, vm |-> u.vm, removed |-> 0, last |-> 0,
                            vrZeros |-> FALSE, vmZeros |-> FALSE]
    BY DEF R!mulShiftAll64
  <2>2. \E mul, j : t = R!mulShiftAll64(v, mul, j)
    <3>1. CASE R!e2(v) >= 0
      BY <3>1 DEF R!Product
    <3>2. CASE ~(R!e2(v) >= 0)
      BY <3>2 DEF R!Product
    <3> QED BY <3>1, <3>2
  <2> HIDE DEF t
  <2> QED BY <2>1, <2>2
<1> HIDE DEF t, N, T, q, e
<1> QED BY <1>2, <1>3, <1>4, <1>5 DEF t, N, T, q, e

-----------------------------------------------------------------------------
(* The flags.  Five and two have no common factor: the tests of the code   *)
(* decide whether the part cut off is zero.                                *)

(* Powers of five leave 1 when divided by four.                            *)
LEMMA FiveOdd ==
  ASSUME NEW p \in Nat, PowersUpTo(5, p)
  PROVE  \A n \in 0..p : 5^n \in Nat \ {0} /\ 5^n % 4 = 1
<1> DEFINE good == {n \in Nat : 5^n % 4 = 1}
<1>1. \A n \in 0..p : 5^n \in Nat \ {0}
  <2>1. 5 \in Nat \ {0}
    OBVIOUS
  <2> QED BY <2>1, PowerPositive
<1>2. 0 \in good
  <2>1. 5^0 = 1
    OBVIOUS
  <2> QED BY <2>1
<1>3. ASSUME NEW n \in 0 .. p - 1, n \in good PROVE n + 1 \in good
  <2>1. 5^(n + 1) = 5 * 5^n
    BY DEF PowersUpTo
  <2>2. n \in 0..p
    OBVIOUS
  <2> DEFINE x == 5^n
  <2>3. x \in Nat /\ x % 4 = 1 /\ 5^(n + 1) = 5 * x
    BY <1>1, <1>3, <2>1, <2>2
  <2> HIDE DEF x
  <2>4. (5 * x) % 4 = 1
    BY <2>3
  <2> QED BY <2>3, <2>4
<1> HIDE DEF good
<1>4. \A n \in 0..p : n \in good
  BY <1>2, <1>3, IntervalInduction
<1> QED BY <1>1, <1>4 DEF good

(* An odd number that divides y * 2^n divides y.                           *)
LEMMA OddDivides ==
  ASSUME NEW F5 \in Nat, F5 % 2 = 1, NEW p \in Nat, PowersUpTo(2, p)
  PROVE  \A n \in 0..p : \A a, y \in Nat : F5 * a = y * 2^n => \E b \in Nat : y = F5 * b
<1> DEFINE Divides(n) == \A a, y \in Nat : F5 * a = y * 2^n => \E b \in Nat : y = F5 * b
           good == {n \in Nat : Divides(n)}
<1>1. 0 \in good
  <2>1. 2^0 = 1
    OBVIOUS
  <2>2. \A a, y \in Nat : F5 * a = y * 2^0 => \E b \in Nat : y = F5 * b
    BY <2>1
  <2> QED BY <2>2
<1>2. ASSUME NEW n \in 0 .. p - 1, n \in good PROVE n + 1 \in good
  <2>1. 2^(n + 1) = 2 * 2^n /\ 2^n \in Nat
    <3>1. 2 \in Nat \ {0} /\ n \in 0..p
      OBVIOUS
    <3> QED BY <3>1, PowerPositive DEF PowersUpTo
  <2> DEFINE w == 2^n
  <2>2. w \in Nat /\ 2^(n + 1) = 2 * w
    BY <2>1
  <2>3. \A a, y \in Nat : F5 * a = y * w => \E b \in Nat : y = F5 * b
    BY <1>2
  <2> HIDE DEF w
  <2>4. ASSUME NEW a \in Nat, NEW y \in Nat, F5 * a = y * (2 * w)
        PROVE  \E b \in Nat : y = F5 * b
    <3>1. PICK h \in Nat : a = 2 * h
      <4>1. a % 2 = 0
        <5> SUFFICES ASSUME a % 2 # 0 PROVE FALSE
          OBVIOUS
        <5>1. PICK g \in Nat, i \in Nat : F5 = 2 * g + 1 /\ a = 2 * i + 1
          <6>1. F5 = 2 * (F5 \div 2) + 1 /\ a = 2 * (a \div 2) + 1
                /\ F5 \div 2 \in Nat /\ a \div 2 \in Nat
            OBVIOUS
          <6> QED BY <6>1
        <5>2. (2 * g + 1) * (2 * i + 1) = 2 * (2 * (g * i) + g + i) + 1
          OBVIOUS
        <5>3. y * (2 * w) = 2 * (y * w) /\ y * w \in Nat
          BY <2>2
        <5>4. g * i \in Nat
          OBVIOUS
        <5> DEFINE gi == g * i
                   yw == y * w
        <5>5. gi \in Nat /\ yw \in Nat /\ 2 * (2 * gi + g + i) + 1 = 2 * yw
          BY <2>4, <5>1, <5>2, <5>3, <5>4
        <5> HIDE DEF gi, yw
        <5> QED BY <5>5
      <4>2. a = 2 * (a \div 2) /\ a \div 2 \in Nat
        BY <4>1
      <4> QED BY <4>2
    <3>2. F5 * (2 * h) = 2 * (F5 * h) /\ y * (2 * w) = 2 * (y * w)
          /\ F5 * h \in Nat /\ y * w \in Nat
      BY <2>2
    <3>3. F5 * h = y * w
      BY <2>4, <3>1, <3>2
    <3> QED BY <2>3, <3>3
  <2>5. \A a, y \in Nat : F5 * a = y * 2^(n + 1) => \E b \in Nat : y = F5 * b
    BY <2>2, <2>4
  <2> QED BY <2>5
<1> HIDE DEF good
<1>3. \A n \in 0..p : n \in good
  BY <1>1, <1>2, IntervalInduction
<1> HIDE DEF Divides
<1>4. \A n \in 0..p : Divides(n)
  BY <1>3 DEF good
<1> QED BY <1>4, Zenon DEF Divides

(* The exact part is the number itself.                                    *)
LEMMA PartExact ==
  ASSUME NEW T \in Nat \ {0}, NEW x, NEW y \in Nat, IsPart(x, (4 * y) * T, T)
  PROVE  x = y
<1>1. x \in Nat /\ (4 * x) * T <= (4 * y) * T /\ (4 * y) * T < (4 * (x + 1)) * T
  BY DEF IsPart
<1>2. 4 * x <= 4 * y
  BY <1>1, ProductOrder
<1>3. 4 * y < 4 * (x + 1)
  BY <1>1, ProductOrder
<1> QED BY <1>1, <1>2, <1>3

(* B has no odd factor.                                                    *)
OnlyTwos(B) ==
  \A h \in Nat : h % 2 = 1 =>
    \A g, y \in Nat : h * g = y * B => \E b \in Nat : y = h * b

(* The powers of two have none.                                            *)
LEMMA PowersOnlyTwos ==
  ASSUME NEW p \in Nat, PowersUpTo(2, p), NEW n \in 0..p
  PROVE  2^n \in Nat \ {0} /\ OnlyTwos(2^n)
<1>1. 2 \in Nat \ {0}
  OBVIOUS
<1>2. 2^n \in Nat \ {0}
  BY <1>1, PowerPositive
<1>3. \A h \in Nat : h % 2 = 1 =>
        \A g, y \in Nat : h * g = y * 2^n => \E b \in Nat : y = h * b
  BY OddDivides
<1> QED BY <1>2, <1>3 DEF OnlyTwos

(* What ryu calls the fields of a value.                                   *)
LEMMA RyuFields ==
  ASSUME NEW v
  PROVE  /\ R!BinSig(v) = BinSig(v) /\ R!BinExp(v) = BinExp(v)
         /\ R!implicit_bit = implicit_bit /\ R!exp_offset = exp_offset
         /\ R!IsSpecial(v) <=> IsSpecial(v)
         /\ R!IsZero(v) <=> IsZero(v)
BY DEF R!BinSig, R!BinExp, R!implicit_bit, R!exp_offset, R!IsSpecial, R!IsZero,
       BinSig, BinExp, implicit_bit, exp_offset, IsSpecial, IsZero

(* The powers of the scale when it divides by 10^q.                        *)
LEMMA DownIs ==
  ASSUME NEW v \in Ordinary, R!e2(v) >= 0
  PROVE  LET q == R!DownPow(v)
             n == R!e2(v)
         IN /\ q \in Nat /\ n \in Nat /\ n - q \in 0..n /\ R!e10(v) = q
            /\ PowersUpTo(2, n + 1) /\ PowersUpTo(5, q + 1)
            /\ Twos(BinExp(v), q) = 4 * 2^(n - q) /\ Tens(BinExp(v), q) = 5^q
<1> DEFINE q == R!DownPow(v)
           n == R!e2(v)
<1>1. n \in Nat /\ BinExp(v) = n + 2
  <2>1. BinExp(v) \in Int
    BY OrdinaryIs
  <2>2. n = BinExp(v) - 2
    BY RyuFields DEF R!e2
  <2>3. n >= 0
    OBVIOUS
  <2> HIDE DEF n
  <2> QED BY <2>1, <2>2, <2>3
<1>2. q = (n * 78913) \div 2^18 - R!Bit(n > 3)
  BY DEF R!DownPow, R!log10Pow2
<1>3. R!e10(v) = q
  BY DEF R!e10
<1> HIDE DEF n
<1>4. q \in Nat /\ q <= n
  <2>1. 2^18 = 262144
    BY SMT
  <2>2. q = (n * 78913) \div 262144 - R!Bit(n > 3)
    BY <1>2, <2>1
  <2> HIDE DEF q
  <2>3. CASE n > 3
    <3>1. q = (n * 78913) \div 262144 - 1
      BY <2>2, <2>3 DEF R!Bit
    <3> QED BY <1>1, <2>3, <3>1
  <2>4. CASE ~(n > 3)
    <3>1. q = (n * 78913) \div 262144 - 0
      BY <2>2, <2>4 DEF R!Bit
    <3> QED BY <1>1, <2>4, <3>1
  <2> QED BY <2>3, <2>4
<1> HIDE DEF q
<1>5. n - q \in 0..n
  BY <1>1, <1>4
<1>6. PowersUpTo(2, n + 1)
  <2>1. \A i \in 0..n : 2^(i + 1) = 2 * 2^i
    BY RyuPowersAssumption DEF PowerAt, n
  <2>2. 2^0 = 1 /\ n + 1 - 1 = n
    BY <1>1
  <2> QED BY <1>1, <2>1, <2>2 DEF PowersUpTo
<1>7. PowersUpTo(5, q + 1)
  <2>1. \A i \in 0..q : 5^(i + 1) = 5 * 5^i
    BY <1>3, RyuPowersAssumption DEF PowerAt
  <2>2. 5^0 = 1 /\ q + 1 - 1 = q
    BY <1>4
  <2> QED BY <1>4, <2>1, <2>2 DEF PowersUpTo
<1>8. 2^(n - q + 2) = 4 * 2^(n - q)
  <2>1. PowersNear(BinExp(v), q)
    BY <1>3, RyuPowersAssumption
  <2>2. Positive(BinExp(v) - q - 1) = n - q + 1
    <3>1. BinExp(v) - q - 1 = n - q + 1 /\ n - q + 1 > 0
      BY <1>1, <1>4
    <3> QED BY <3>1 DEF Positive
  <2>3. PowerAt(2, n - q + 1)
    BY <2>1, <2>2 DEF PowersNear
  <2>4. (n - q + 1) + 1 = n - q + 2
    BY <1>1, <1>4
  <2>5. 2^(n - q + 2) = 2 * 2^(n - q + 1)
    BY <2>3, <2>4 DEF PowerAt
  <2>6. 2^(n - q + 1) = 2 * 2^(n - q) /\ 2^(n - q) \in Nat
    <3>1. PowerAt(2, n - q)
      BY <1>5, RyuPowersAssumption DEF n
    <3> QED BY <3>1 DEF PowerAt
  <2> DEFINE x == 2^(n - q)
  <2>7. x \in Nat /\ 2^(n - q + 2) = 2 * (2 * x)
    BY <2>5, <2>6
  <2> HIDE DEF x
  <2>8. 2 * (2 * x) = 4 * x
    BY <2>7
  <2> QED BY <2>7, <2>8 DEF x
<1>9. /\ Positive(-q) = 0 /\ Positive(q) = q
      /\ Positive(BinExp(v) - q) = n - q + 2 /\ Positive(q - BinExp(v)) = 0
  <2>1. ~(-q > 0) /\ BinExp(v) - q = n - q + 2 /\ n - q + 2 > 0 /\ ~(q - BinExp(v) > 0)
    BY <1>1, <1>4
  <2>2. Positive(q) = q
    BY <1>4 DEF Positive
  <2> QED BY <2>1, <2>2 DEF Positive
<1>10. Twos(BinExp(v), q) = 4 * 2^(n - q)
  <2>1. Twos(BinExp(v), q) = 5^0 * 2^(n - q + 2)
    BY <1>9 DEF Twos
  <2>2. 5^0 = 1
    OBVIOUS
  <2>3. 2^(n - q) \in Nat
    <3>1. PowerAt(2, n - q)
      BY <1>5, RyuPowersAssumption DEF n
    <3> QED BY <3>1 DEF PowerAt
  <2> DEFINE x == 2^(n - q)
             y == 2^(n - q + 2)
  <2>4. x \in Nat /\ y = 4 * x /\ Twos(BinExp(v), q) = 1 * y
    BY <1>8, <2>1, <2>2, <2>3
  <2> HIDE DEF x, y
  <2>5. 1 * y = 4 * x
    BY <2>4
  <2> QED BY <2>4, <2>5 DEF x
<1>11. Tens(BinExp(v), q) = 5^q
  <2>1. Tens(BinExp(v), q) = 5^q * 2^0
    BY <1>9 DEF Tens
  <2>2. 2^0 = 1
    OBVIOUS
  <2>3. 5^q \in Nat
    <3>1. q \in 0 .. q + 1 /\ 5 \in Nat \ {0} /\ q + 1 \in Nat
      BY <1>4
    <3> QED BY <1>7, <3>1, PowerPositive
  <2> DEFINE x == 5^q
  <2>4. x \in Nat /\ Tens(BinExp(v), q) = x * 1
    BY <2>1, <2>2, <2>3
  <2> HIDE DEF x
  <2> QED BY <2>4 DEF x
<1> QED BY <1>1, <1>3, <1>4, <1>5, <1>6, <1>7, <1>10, <1>11 DEF n, q

(* The powers of the scale when it multiplies by 5^i and shifts by q.      *)
LEMMA UpIs ==
  ASSUME NEW v \in Ordinary, R!e2(v) < 0
  PROVE  LET q == R!UpPow(v)
             e == R!e10(v)
             N == Twos(BinExp(v), e)
             T == Tens(BinExp(v), e)
         IN /\ q \in Nat /\ e \in Int /\ -e \in Nat
            /\ 5^(-e) \in Nat \ {0} /\ 5^(-e) % 4 = 1
            /\ q <= 1 => T = 1 /\ N = (IF q = 0 THEN 4 ELSE 2) * 5^(-e)
            /\ q > 1 => 4 * T = 2^q /\ N = 5^(-e)
<1> DEFINE q == R!UpPow(v)
           e == R!e10(v)
           n == -R!e2(v)
           N == Twos(BinExp(v), e)
           T == Tens(BinExp(v), e)
<1>1. R!e2(v) = BinExp(v) - 2 /\ BinExp(v) \in Int
  BY OrdinaryIs, RyuFields DEF R!e2
<1>2. n \in Nat \ {0} /\ BinExp(v) = 2 - n
  <2> DEFINE m == R!e2(v)
  <2>1. m = BinExp(v) - 2 /\ m < 0
    BY <1>1
  <2> HIDE DEF m
  <2>2. -m \in Nat \ {0} /\ BinExp(v) = 2 - (-m)
    BY <1>1, <2>1
  <2> QED BY <2>2 DEF m
<1>3. q = (n * 732923) \div 2^20 - R!Bit(n > 1)
  BY DEF R!UpPow, R!log10Pow5
<1>4. e = q + R!e2(v)
  <2> DEFINE m == R!e2(v)
  <2>1. m \in Int /\ m < 0
    BY <1>1
  <2> HIDE DEF m
  <2>2. ~(m >= 0)
    BY <2>1
  <2> QED BY <2>2 DEF R!e10, m
<1>5. e = q - n
  <2> DEFINE m == R!e2(v)
  <2>1. m \in Int /\ n = -m /\ e = q + m
    BY <1>1, <1>4
  <2>2. q \in Int
    <3>1. (n * 732923) \div 2^20 \in Int
      <4> HIDE DEF n
      <4>1. 2^20 = 1048576
        BY SMT
      <4> QED BY <1>2, <4>1
    <3> DEFINE x == (n * 732923) \div 2^20
    <3> HIDE DEF n, q, x
    <3>2. q = x - R!Bit(n > 1) /\ x \in Int
      BY <1>3, <3>1 DEF x
    <3>3. R!Bit(n > 1) \in Int
      BY DEF R!Bit
    <3> QED BY <3>2, <3>3
  <2> HIDE DEF m, q, e, n
  <2> QED BY <2>1, <2>2
<1> HIDE DEF n
<1>6. q \in Nat /\ q <= n
  <2>1. 2^20 = 1048576
    BY SMT
  <2>2. q = (n * 732923) \div 1048576 - R!Bit(n > 1)
    BY <1>3, <2>1
  <2> HIDE DEF q
  <2>3. CASE n > 1
    <3>1. q = (n * 732923) \div 1048576 - 1
      BY <2>2, <2>3 DEF R!Bit
    <3> QED BY <1>2, <2>3, <3>1
  <2>4. CASE ~(n > 1)
    <3>1. q = (n * 732923) \div 1048576 - 0
      BY <2>2, <2>4 DEF R!Bit
    <3> QED BY <1>2, <2>4, <3>1
  <2> QED BY <2>3, <2>4
<1> HIDE DEF q, e
<1>7. e \in Int /\ -e \in Nat /\ BinExp(v) - e = 2 - q /\ e - BinExp(v) = q - 2
  BY <1>2, <1>5, <1>6
<1>8. 5^(-e) \in Nat \ {0} /\ 5^(-e) % 4 = 1
  <2>1. \A i \in 0 .. -e - 1 : 5^(i + 1) = 5 * 5^i
    BY RyuPowersAssumption DEF PowerAt, e
  <2>2. PowersUpTo(5, -e)
    <3>1. 5^0 = 1
      OBVIOUS
    <3> QED BY <2>1, <3>1 DEF PowersUpTo
  <2>3. -e \in 0 .. -e
    BY <1>7
  <2> QED BY <1>7, <2>2, <2>3, FiveOdd
<1>9. Positive(-e) = -e /\ Positive(e) = 0
  <2> DEFINE g == -e
  <2>1. g \in Nat /\ ~(e > 0)
    BY <1>7
  <2> HIDE DEF g
  <2>2. Positive(g) = g
    BY <2>1 DEF Positive
  <2> QED BY <2>1, <2>2 DEF Positive, g
<1>10. N = 5^(-e) * 2^Positive(2 - q) /\ T = 5^0 * 2^Positive(q - 2)
  BY <1>7, <1>9 DEF Twos, Tens
<1>11. 5^0 = 1 /\ 2^0 = 1 /\ 2^1 = 2 /\ 2^2 = 4
  OBVIOUS
<1> DEFINE P == 5^(-e)
<1> HIDE DEF P, N, T
<1>12. P \in Nat \ {0}
  BY <1>8 DEF P
<1>13. q <= 1 => T = 1 /\ N = (IF q = 0 THEN 4 ELSE 2) * P
  <2>1. CASE q = 0
    <3>1. Positive(2 - q) = 2 /\ Positive(q - 2) = 0
      BY <2>1 DEF Positive
    <3>2. N = P * 4 /\ T = 1 * 1
      BY <1>10, <1>11, <3>1 DEF P
    <3> QED BY <1>12, <2>1, <3>2
  <2>2. CASE q = 1
    <3>1. Positive(2 - q) = 1 /\ Positive(q - 2) = 0
      BY <2>2 DEF Positive
    <3>2. N = P * 2 /\ T = 1 * 1
      BY <1>10, <1>11, <3>1 DEF P
    <3> QED BY <1>12, <2>2, <3>2
  <2> QED BY <1>6, <2>1, <2>2
<1>14. q > 1 => 4 * T = 2^q /\ N = P
  <2> SUFFICES ASSUME q > 1 PROVE 4 * T = 2^q /\ N = P
    OBVIOUS
  <2>1. q - 2 \in Nat /\ q - 1 \in Nat
    BY <1>6
  <2>2. Positive(2 - q) = 0 /\ Positive(q - 2) = q - 2 /\ Positive(q - 1) = q - 1
    <3>1. ~(2 - q > 0) /\ q - 1 > 0
      BY <1>6
    <3>2. Positive(q - 2) = q - 2
      BY <2>1 DEF Positive
    <3> QED BY <3>1, <3>2 DEF Positive
  <2>3. PowerAt(2, q - 2)
    <3>1. PowersNear(BinExp(v), e)
      BY RyuPowersAssumption DEF e
    <3> QED BY <1>7, <2>2, <3>1 DEF PowersNear
  <2>4. PowerAt(2, q - 1)
    <3>1. Scalable(v, e + 1, Spare(v) - 1) /\ Spare(v) \in Nat /\ Spare(v) >= 2
      BY RyuScaled, RyuDigitsKnown DEF e
    <3>2. e + 1 \in (e + 1) - 1 .. (e + 1) + (Spare(v) - 1)
      BY <1>7, <3>1
    <3>3. PowersNear(BinExp(v), e + 1)
      BY <3>1, <3>2 DEF Scalable
    <3>4. (e + 1) - BinExp(v) = q - 1
      BY <1>1, <1>6, <1>7
    <3>5. PowerAt(2, Positive((e + 1) - BinExp(v)))
      BY <3>3 DEF PowersNear
    <3> QED BY <2>2, <3>4, <3>5
  <2>5. (q - 2) + 1 = q - 1 /\ (q - 1) + 1 = q
    BY <1>6
  <2>6. 2^(q - 1) = 2 * 2^(q - 2) /\ 2^q = 2 * 2^(q - 1) /\ 2^(q - 2) \in Nat
    BY <2>3, <2>4, <2>5 DEF PowerAt
  <2> DEFINE x == 2^(q - 2)
  <2>7. x \in Nat /\ 2^q = 2 * (2 * x) /\ T = 1 * x /\ N = P * 1
    BY <1>10, <1>11, <2>2, <2>6 DEF P
  <2> HIDE DEF x
  <2>8. 4 * T = 2 * (2 * x) /\ N = P
    BY <1>12, <2>7
  <2> QED BY <2>7, <2>8
<1> QED BY <1>6, <1>7, <1>8, <1>13, <1>14 DEF P, N, T, q, e

(* Exact parts when dividing by 10^q: only multiples of 5^q have one.      *)
DownPart(a, x, y, E5) ==
  /\ a % E5 = 0 => (4 * x) * E5 = y
  /\ x % 10 = 0 /\ (4 * x) * E5 = y => a % (5 * E5) = 0 /\ a % E5 = 0 /\ a % 5 = 0

(* Divided by a power of five, tested for divisibility.                    *)
LEMMA DownExact ==
  ASSUME NEW B \in Nat \ {0}, OnlyTwos(B), NEW E5 \in Nat \ {0}, E5 % 2 = 1,
         NEW a \in Nat, NEW x, NEW y, y = a * (4 * B), IsPart(x, y, E5)
  PROVE  DownPart(a, x, y, E5)
<1>1. B \in Nat \ {0}
  OBVIOUS
<1>2. x \in Nat /\ IsPart(x, a * (4 * B), E5)
  BY DEF IsPart
<1>3. \A m \in Nat, g \in Nat : E5 * 5 * g = m * B => \E b \in Nat : m = (5 * E5) * b
  <2>1. 5 * E5 \in Nat /\ (5 * E5) % 2 = 1
    OBVIOUS
  <2> DEFINE h == 5 * E5
  <2>2. h \in Nat /\ h % 2 = 1 /\ E5 * 5 = h
    BY <2>1
  <2> HIDE DEF h
  <2>3. \A g, m \in Nat : h * g = m * B => \E b \in Nat : m = h * b
    BY <2>2 DEF OnlyTwos
  <2>4. \A g \in Nat : E5 * 5 * g = h * g
    BY <2>2
  <2>5. ASSUME NEW m \in Nat, NEW g \in Nat, E5 * 5 * g = m * B
        PROVE  \E b \in Nat : m = h * b
    <3>1. h * g = m * B
      BY <2>4, <2>5
    <3> QED BY <2>3, <3>1
  <2> QED BY <2>5 DEF h
<1>4. ASSUME a % E5 = 0 PROVE (4 * x) * E5 = a * (4 * B)
  <2>1. PICK b \in Nat : a = E5 * b
    BY <1>4, MultipleIs
  <2>2. (E5 * b) * (4 * B) = (4 * (b * B)) * E5 /\ b * B \in Nat
    BY <1>1
  <2>3. a * (4 * B) = (4 * (b * B)) * E5
    BY <2>1, <2>2
  <2>4. IsPart(x, (4 * (b * B)) * E5, E5)
    BY <1>2, <2>3
  <2>5. x = b * B
    BY <2>2, <2>4, PartExact
  <2> QED BY <2>3, <2>5
<1>5. ASSUME x % 10 = 0, (4 * x) * E5 = a * (4 * B)
      PROVE  a % (5 * E5) = 0 /\ a % E5 = 0 /\ a % 5 = 0
  <2>1. PICK w \in Nat : x = 10 * w
    <3>1. x = 10 * (x \div 10) /\ x \div 10 \in Nat
      BY <1>2, <1>5
    <3> QED BY <3>1
  <2>2. (4 * (10 * w)) * E5 = 4 * (E5 * 5 * (2 * w)) /\ a * (4 * B) = 4 * (a * B)
        /\ E5 * 5 * (2 * w) \in Nat /\ a * B \in Nat /\ 2 * w \in Nat
    BY <1>1
  <2>3. E5 * 5 * (2 * w) = a * B
    BY <1>5, <2>1, <2>2
  <2>4. PICK b \in Nat : a = (5 * E5) * b
    BY <1>3, <2>2, <2>3
  <2>5. (5 * E5) * b = E5 * (5 * b) /\ (5 * E5) * b = 5 * (E5 * b)
        /\ 5 * b \in Nat /\ E5 * b \in Nat /\ 5 * E5 \in Nat \ {0} /\ 5 \in Nat \ {0}
    OBVIOUS
  <2>6. a = E5 * (5 * b) /\ a = 5 * (E5 * b)
    BY <2>4, <2>5
  <2> DEFINE b5 == 5 * b
             bE == E5 * b
             E6 == 5 * E5
  <2>7. a = E6 * b /\ a = E5 * b5 /\ a = 5 * bE /\ b5 \in Nat /\ bE \in Nat
        /\ E6 \in Nat \ {0} /\ 5 \in Nat \ {0}
    BY <2>4, <2>5, <2>6
  <2> HIDE DEF b5, bE, E6
  <2> QED BY <2>7, MultipleIs DEF E6
<1> QED BY <1>4, <1>5 DEF DownPart

(* What the flags have to say of the products: vrZeros that the value is   *)
(* a multiple of the unit, vmZeros the same of the lower end, where it     *)
(* belongs to the interval and is one that can be cut off; an upper end    *)
(* that does not belong to the interval is less than vp.                   *)
FlagsRight(v, s) ==
  LET t == R!Product(v)
      N == Twos(BinExp(v), R!e10(v))
      T == Tens(BinExp(v), R!e10(v))
      l == LowerQuarters(v)
      u == UpperQuarters(v)
  IN /\ s = [vr |-> t.vr, vp |-> s.vp, vm |-> t.vm, removed |-> 0, last |-> 0,
             vrZeros |-> s.vrZeros, vmZeros |-> s.vmZeros]
     /\ s.vrZeros \in BOOLEAN /\ s.vmZeros \in BOOLEAN
     /\ s.vrZeros => (4 * t.vr) * T = (4 * BinSig(v)) * N
     /\ IF BinSig(v) % 2 = 0
          THEN /\ s.vp = t.vp
               /\ t.vm % 10 = 0 => (s.vmZeros <=> (4 * t.vm) * T = l * N)
          ELSE /\ ~s.vmZeros
               /\ \/ s.vp = t.vp /\ ~(t.vp % 10 = 0 /\ (4 * t.vp) * T = u * N)
                  \/ s.vp = t.vp - 1 /\ (4 * t.vp) * T = u * N

(* Minus and Plus are the ends of the interval.                            *)
LEMMA RyuEnds ==
  ASSUME NEW v \in Ordinary
  PROVE  /\ R!Minus(v) = LowerQuarters(v) /\ R!Plus(v) = UpperQuarters(v)
         /\ R!Quarters(v) = 4 * BinSig(v)
         /\ R!acceptBounds(v) <=> BinSig(v) % 2 = 0
         /\ R!mmShift(v) = (IF HalfGapBelow(v) THEN 0 ELSE 1)
<1>1. R!BinSig(v) = BinSig(v)
  BY RyuFields
<1>2. v.exp \in Int
  <2>1. v.exp \in 0..exp_mask
    BY OrdinaryIs
  <2> QED BY <2>1, Widths
<1>3. R!mmShift(v) = (IF HalfGapBelow(v) THEN 0 ELSE 1)
  <2>1. (v.sig # 0 \/ v.exp <= 1) <=> ~HalfGapBelow(v)
    BY <1>2 DEF HalfGapBelow
  <2> QED BY <2>1 DEF R!mmShift, R!Bit
<1>4. R!Quarters(v) = 4 * BinSig(v)
  BY <1>1 DEF R!Quarters
<1>5. R!Plus(v) = UpperQuarters(v)
  BY <1>4 DEF R!Plus, UpperQuarters
<1>6. R!Minus(v) = LowerQuarters(v)
  <2>1. BinSig(v) \in Nat
    BY RyuFactors
  <2> DEFINE c == BinSig(v)
  <2>2. R!Minus(v) = 4 * c - 1 - (IF HalfGapBelow(v) THEN 0 ELSE 1)
    BY <1>3, <1>4 DEF R!Minus
  <2>3. LowerQuarters(v) = 4 * c - (IF HalfGapBelow(v) THEN 1 ELSE 2)
    BY DEF LowerQuarters
  <2> HIDE DEF c
  <2> QED BY <2>1, <2>2, <2>3 DEF c
<1>7. R!acceptBounds(v) <=> BinSig(v) % 2 = 0
  BY <1>1 DEF R!acceptBounds
<1> QED BY <1>3, <1>4, <1>5, <1>6, <1>7

(* The flags are right where the value is divided by 10^q.                 *)
LEMMA FlagsDown ==
  ASSUME NEW v \in Ordinary, R!e2(v) >= 0
  PROVE  FlagsRight(v, R!ScaleDown(v, R!Product(v), R!DownPow(v)))
<1> DEFINE q == R!DownPow(v)
           n == R!e2(v) - q
           p == R!e2(v) + 1
           t == R!Product(v)
           s == R!ScaleDown(v, t, q)
           c == BinSig(v)
           l == LowerQuarters(v)
           u == UpperQuarters(v)
           N == Twos(BinExp(v), R!e10(v))
           T == Tens(BinExp(v), R!e10(v))
           E5 == 5^q
<1>1. /\ q \in Nat /\ p \in Nat /\ n \in 0..p /\ R!e10(v) = q
      /\ PowersUpTo(2, p) /\ PowersUpTo(5, q + 1)
      /\ N = 4 * 2^n /\ T = E5
  BY DownIs
<1>2. E5 \in Nat \ {0} /\ E5 % 2 = 1
  <2>1. q + 1 \in Nat /\ q \in 0 .. q + 1
    BY <1>1
  <2>2. E5 \in Nat \ {0} /\ E5 % 4 = 1
    BY <1>1, <2>1, FiveOdd
  <2> HIDE DEF E5
  <2> QED BY <2>2
<1>3. c \in Nat \ {0} /\ l \in Nat \ {0} /\ u = 4 * c + 2
      /\ l = 4 * c - (IF HalfGapBelow(v) THEN 1 ELSE 2)
  BY RyuFactors
<1>4. /\ IsPart(t.vr, (4 * c) * N, T) /\ IsPart(t.vp, u * N, T) /\ IsPart(t.vm, l * N, T)
      /\ t = [vr |-> t.vr, vp |-> t.vp, vm |-> t.vm, removed |-> 0, last |-> 0,
              vrZeros |-> FALSE, vmZeros |-> FALSE]
  BY ProductIs
<1>5. /\ R!Minus(v) = l /\ R!Plus(v) = u /\ R!Quarters(v) = 4 * c
      /\ R!acceptBounds(v) <=> c % 2 = 0
  BY RyuEnds
<1>6. s = IF q > max_pow5_tested THEN t
          ELSE IF (4 * c) % 5 = 0 THEN [t EXCEPT !.vrZeros = ((4 * c) % E5 = 0)]
          ELSE IF c % 2 = 0 THEN [t EXCEPT !.vmZeros = (l % E5 = 0)]
          ELSE [t EXCEPT !.vp = @ - R!Bit(u % E5 = 0)]
  BY <1>5 DEF R!ScaleDown, R!multipleOfPowerOf5
<1>7. q > max_pow5_tested =>
        (IF c % 2 = 0 THEN l ELSE u) % (5 * E5) # 0
  <2> SUFFICES ASSUME q > max_pow5_tested PROVE (IF c % 2 = 0 THEN l ELSE u) % (5 * E5) # 0
    OBVIOUS
  <2>1. 5^(q + 1) = 5 * E5
    <3>1. (q + 1) - 1 = q /\ q \in 0 .. (q + 1) - 1
      BY <1>1
    <3> QED BY <1>1, <3>1 DEF PowersUpTo
  <2>2. (IF c % 2 = 0 THEN l ELSE u) % 5^(q + 1) # 0
    BY RyuFiveAssumption
  <2> QED BY <2>1, <2>2
<1> HIDE DEF q, n, p, t, l, u, N, T, E5, c
<1>8. ASSUME NEW a \in Nat, NEW x, IsPart(x, a * N, T)
      PROVE  /\ x \in Nat
             /\ a % E5 = 0 => (4 * x) * T = a * N
             /\ x % 10 = 0 /\ (4 * x) * T = a * N => a % (5 * E5) = 0 /\ a % E5 = 0 /\ a % 5 = 0
  <2> DEFINE y == a * N
             B == 2^n
  <2>1. y = a * (4 * B) /\ IsPart(x, y, E5)
    BY <1>1, <1>8
  <2>0. B \in Nat \ {0} /\ OnlyTwos(B)
    BY <1>1, PowersOnlyTwos
  <2> HIDE DEF y, B
  <2>2. DownPart(a, x, y, E5)
    BY <1>2, <2>0, <2>1, DownExact
  <2>3. x \in Nat
    BY <2>1 DEF IsPart
  <2> QED BY <1>1, <2>2, <2>3 DEF y, DownPart
<1>9. 4 * c \in Nat /\ u \in Nat /\ l \in Nat
  BY <1>3
<1>10. /\ t.vm \in Nat
       /\ l % E5 = 0 => (4 * t.vm) * T = l * N
       /\ t.vm % 10 = 0 /\ (4 * t.vm) * T = l * N => l % (5 * E5) = 0 /\ l % E5 = 0 /\ l % 5 = 0
  BY <1>4, <1>8, <1>9
<1>11. /\ t.vp \in Nat
       /\ u % E5 = 0 => (4 * t.vp) * T = u * N
       /\ t.vp % 10 = 0 /\ (4 * t.vp) * T = u * N => u % (5 * E5) = 0 /\ u % E5 = 0 /\ u % 5 = 0
  BY <1>4, <1>8, <1>9
<1>12. (4 * c) % E5 = 0 => (4 * t.vr) * T = (4 * c) * N
  BY <1>4, <1>8, <1>9
<1>13. t.vrZeros = FALSE /\ t.vmZeros = FALSE /\ t.removed = 0 /\ t.last = 0
  BY <1>4
<1>14. (4 * c) % 5 = 0 => l % 5 # 0 /\ u % 5 # 0
  <2> SUFFICES ASSUME (4 * c) % 5 = 0 PROVE l % 5 # 0 /\ u % 5 # 0
    OBVIOUS
  <2>1. l = 4 * c - 1 \/ l = 4 * c - 2
    BY <1>3
  <2>2. PICK g \in Nat : 4 * c = 5 * g
    <3>1. 5 \in Nat \ {0}
      OBVIOUS
    <3> QED BY <1>9, <3>1, MultipleIs
  <2>3. u % 5 = 2
    BY <1>3, <2>2
  <2>4. g # 0
    BY <1>3, <2>2
  <2>5. l % 5 = 4 \/ l % 5 = 3
    BY <2>1, <2>2, <2>4
  <2> QED BY <2>3, <2>5
<1> USE DEF FlagsRight
<1> HIDE DEF s
<1>15. CASE q > max_pow5_tested
  <2>1. s = t
    BY <1>6, <1>15
  <2>2. c % 2 = 0 => ~(t.vm % 10 = 0 /\ (4 * t.vm) * T = l * N)
    BY <1>7, <1>10, <1>15
  <2>3. ~(c % 2 = 0) => ~(t.vp % 10 = 0 /\ (4 * t.vp) * T = u * N)
    BY <1>7, <1>11, <1>15
  <2> HIDE DEF FlagsRight
  <2>4. FlagsRight(v, t)
    BY <1>4, <1>13, <2>2, <2>3 DEF FlagsRight, t, N, T, l, u, c
  <2> QED BY <2>1, <2>4 DEF s, t, q
<1>16. CASE ~(q > max_pow5_tested) /\ (4 * c) % 5 = 0
  <2>1. s = [t EXCEPT !.vrZeros = ((4 * c) % E5 = 0)]
    BY <1>6, <1>16
  <2>2. s = [vr |-> t.vr, vp |-> t.vp, vm |-> t.vm, removed |-> 0, last |-> 0,
             vrZeros |-> ((4 * c) % E5 = 0), vmZeros |-> FALSE]
    <3>1. \A r : t = r => s = [r EXCEPT !.vrZeros = ((4 * c) % E5 = 0)]
      BY <2>1
    <3> HIDE DEF FlagsRight
    <3> QED BY <1>4, <3>1
  <2>3. ~(t.vm % 10 = 0 /\ (4 * t.vm) * T = l * N)
    BY <1>10, <1>14, <1>16
  <2>4. ~(t.vp % 10 = 0 /\ (4 * t.vp) * T = u * N)
    BY <1>11, <1>14, <1>16
  <2> HIDE DEF FlagsRight
  <2>5. s.vp = t.vp /\ (s.vrZeros <=> (4 * c) % E5 = 0) /\ ~s.vmZeros
        /\ s.vrZeros \in BOOLEAN /\ s.vmZeros \in BOOLEAN
        /\ s = [vr |-> t.vr, vp |-> s.vp, vm |-> t.vm, removed |-> 0, last |-> 0,
                vrZeros |-> s.vrZeros, vmZeros |-> s.vmZeros]
    BY <2>2
  <2>6. FlagsRight(v, s)
    BY <1>12, <2>3, <2>4, <2>5 DEF FlagsRight, t, N, T, l, u, c
  <2> QED BY <2>6 DEF s, t, q
<1>17. CASE ~(q > max_pow5_tested) /\ (4 * c) % 5 # 0 /\ c % 2 = 0
  <2>1. s = [t EXCEPT !.vmZeros = (l % E5 = 0)]
    BY <1>6, <1>17
  <2>2. s = [vr |-> t.vr, vp |-> t.vp, vm |-> t.vm, removed |-> 0, last |-> 0,
             vrZeros |-> FALSE, vmZeros |-> (l % E5 = 0)]
    <3>1. \A r : t = r => s = [r EXCEPT !.vmZeros = (l % E5 = 0)]
      BY <2>1
    <3> HIDE DEF FlagsRight
    <3> QED BY <1>4, <3>1
  <2> HIDE DEF FlagsRight
  <2>5. s.vp = t.vp /\ (s.vmZeros <=> l % E5 = 0) /\ ~s.vrZeros
        /\ s.vrZeros \in BOOLEAN /\ s.vmZeros \in BOOLEAN
        /\ s = [vr |-> t.vr, vp |-> s.vp, vm |-> t.vm, removed |-> 0, last |-> 0,
                vrZeros |-> s.vrZeros, vmZeros |-> s.vmZeros]
    BY <2>2
  <2>6. t.vm % 10 = 0 => (s.vmZeros <=> (4 * t.vm) * T = l * N)
    BY <1>10, <2>5
  <2>7. FlagsRight(v, s)
    BY <1>17, <2>5, <2>6 DEF FlagsRight, t, N, T, l, u, c
  <2> QED BY <2>7 DEF s, t, q
<1>18. CASE ~(q > max_pow5_tested) /\ (4 * c) % 5 # 0 /\ c % 2 # 0
  <2> DEFINE b == R!Bit(u % E5 = 0)
  <2>1. s = [t EXCEPT !.vp = @ - b]
    BY <1>6, <1>18
  <2>2. s = [vr |-> t.vr, vp |-> t.vp - b, vm |-> t.vm, removed |-> 0, last |-> 0,
             vrZeros |-> FALSE, vmZeros |-> FALSE]
    <3>1. \A r : t = r => s = [r EXCEPT !.vp = @ - b]
      BY <2>1
    <3> HIDE DEF FlagsRight, b
    <3> QED BY <1>4, <3>1
  <2> HIDE DEF FlagsRight
  <2>3. s.vp = t.vp - b /\ ~s.vrZeros /\ ~s.vmZeros
        /\ s.vrZeros \in BOOLEAN /\ s.vmZeros \in BOOLEAN
        /\ s = [vr |-> t.vr, vp |-> s.vp, vm |-> t.vm, removed |-> 0, last |-> 0,
                vrZeros |-> s.vrZeros, vmZeros |-> s.vmZeros]
    <3> HIDE DEF b
    <3> QED BY <2>2
  <2>4. \/ s.vp = t.vp /\ ~(t.vp % 10 = 0 /\ (4 * t.vp) * T = u * N)
        \/ s.vp = t.vp - 1 /\ (4 * t.vp) * T = u * N
    <3>1. CASE u % E5 = 0
      <4>1. b = 1
        BY <3>1 DEF R!Bit
      <4> HIDE DEF b
      <4> QED BY <1>11, <2>3, <3>1, <4>1
    <3>2. CASE u % E5 # 0
      <4>1. b = 0
        BY <3>2 DEF R!Bit
      <4> HIDE DEF b
      <4>2. s.vp = t.vp
        BY <1>11, <2>3, <4>1
      <4> QED BY <1>11, <3>2, <4>2
    <3> QED BY <3>1, <3>2
  <2>5. FlagsRight(v, s)
    BY <1>18, <2>3, <2>4 DEF FlagsRight, t, N, T, l, u, c
  <2> QED BY <2>5 DEF s, t, q
<1> HIDE DEF FlagsRight
<1> QED BY <1>15, <1>16, <1>17, <1>18 DEF s, t, q

(* What a scaled-up end of an interval leaves when divided by four.        *)
LEMMA UpRest ==
  ASSUME NEW E5 \in Nat, E5 % 4 = 1, NEW a \in Nat, NEW x \in Nat, NEW T \in Nat,
         (4 * x) * T = a * E5
  PROVE  a % 4 = 0
<1>1. PICK f \in Nat : E5 = 4 * f + 1
  <2>1. E5 = 4 * (E5 \div 4) + 1 /\ E5 \div 4 \in Nat
    OBVIOUS
  <2> QED BY <2>1
<1>2. a * (4 * f + 1) = 4 * (a * f) + a /\ (4 * x) * T = 4 * (x * T)
      /\ a * f \in Nat /\ x * T \in Nat
  BY <1>1
<1> DEFINE g == a * f
           h == x * T
<1>3. 4 * g + a = 4 * h /\ g \in Nat /\ h \in Nat
  BY <1>1, <1>2
<1> HIDE DEF g, h
<1> QED BY <1>3

(* And where it is multiplied by 5^i and shifted by q.                     *)
LEMMA FlagsUp ==
  ASSUME NEW v \in Ordinary, R!e2(v) < 0
  PROVE  FlagsRight(v, R!ScaleUp(v, R!Product(v), R!UpPow(v)))
<1> DEFINE q == R!UpPow(v)
           t == R!Product(v)
           s == R!ScaleUp(v, t, q)
           c == BinSig(v)
           l == LowerQuarters(v)
           u == UpperQuarters(v)
           N == Twos(BinExp(v), R!e10(v))
           T == Tens(BinExp(v), R!e10(v))
           E5 == 5^(-R!e10(v))
           w == IF q = 0 THEN 2 ELSE 1
<1>1. /\ q \in Nat
      /\ E5 \in Nat \ {0} /\ E5 % 4 = 1
      /\ q <= 1 => T = 1 /\ N = (IF q = 0 THEN 4 ELSE 2) * E5
      /\ q > 1 => 4 * T = 2^q /\ N = E5
  BY UpIs
<1>2. q <= 1 => T = 1 /\ N = (2 * w) * E5
  <2> HIDE DEF q, N, T, E5
  <2> QED BY <1>1
<1>3. c \in Nat \ {0} /\ l \in Nat \ {0} /\ u = 4 * c + 2
      /\ l = 4 * c - (IF HalfGapBelow(v) THEN 1 ELSE 2)
      /\ N \in Nat \ {0} /\ T \in Nat \ {0}
  BY RyuFactors
<1>4. /\ IsPart(t.vr, (4 * c) * N, T) /\ IsPart(t.vp, u * N, T) /\ IsPart(t.vm, l * N, T)
      /\ t = [vr |-> t.vr, vp |-> t.vp, vm |-> t.vm, removed |-> 0, last |-> 0,
              vrZeros |-> FALSE, vmZeros |-> FALSE]
  BY ProductIs
<1>5. /\ R!Quarters(v) = 4 * c
      /\ R!acceptBounds(v) <=> c % 2 = 0
      /\ R!mmShift(v) = 1 <=> ~HalfGapBelow(v)
  BY RyuEnds
<1>6. max_pow2_tested \in Nat
  BY ConvertersAssumption DEF R!RyuParameters
<1>7. s = CASE q <= 1 /\ R!acceptBounds(v) ->
                [t EXCEPT !.vrZeros = TRUE, !.vmZeros = R!mmShift(v) = 1]
            [] q <= 1 /\ ~R!acceptBounds(v) -> [t EXCEPT !.vrZeros = TRUE, !.vp = @ - 1]
            [] q > 1 /\ q < max_pow2_tested ->
                [t EXCEPT !.vrZeros = ((4 * c) % 2^q = 0)]
            [] q > 1 /\ q >= max_pow2_tested -> t
  BY <1>5 DEF R!ScaleUp, R!multipleOfPowerOf2
<1>8. w \in {1, 2}
  OBVIOUS
<1> HIDE DEF q, t, l, u, N, T, E5, c, w, s
<1>9. t.vr \in Nat /\ t.vp \in Nat /\ t.vm \in Nat
  BY <1>4 DEF IsPart
<1>10. t.vrZeros = FALSE /\ t.vmZeros = FALSE
  BY <1>4
<1>11. ASSUME q <= 1
       PROVE  /\ (4 * t.vr) * T = (4 * c) * N
              /\ (4 * t.vp) * T = u * N
              /\ ~HalfGapBelow(v) => (4 * t.vm) * T = l * N
              /\ HalfGapBelow(v) => ~(t.vm % 10 = 0 /\ (4 * t.vm) * T = l * N)
  <2>1. T = 1 /\ N = (2 * w) * E5
    BY <1>2, <1>11
  <2>2. ASSUME NEW x, NEW a \in Nat, NEW b \in Nat, a * N = (4 * b) * T, IsPart(x, a * N, T)
        PROVE  (4 * x) * T = a * N
    <3>1. IsPart(x, (4 * b) * T, T)
      BY <2>2
    <3>2. x = b
      BY <1>3, <3>1, PartExact
    <3> QED BY <2>2, <3>2
  <2>3. (4 * c) * N = (4 * (c * N)) * T /\ c * N \in Nat /\ 4 * c \in Nat
    BY <1>3, <2>1
  <2>4. (4 * t.vr) * T = (4 * c) * N
    BY <1>4, <2>2, <2>3
  <2> DEFINE y == w * E5
  <2>5. y \in Nat /\ N = 2 * y
    BY <1>1, <1>8, <2>1
  <2> HIDE DEF y
  <2>6. u * N = (4 * ((2 * c + 1) * y)) * T /\ (2 * c + 1) * y \in Nat /\ u \in Nat
    <3>1. (4 * c + 2) * (2 * y) = 4 * ((2 * c + 1) * y) /\ (2 * c + 1) * y \in Nat
      BY <1>3, <2>5
    <3> QED BY <1>3, <2>1, <2>5, <3>1
  <2>7. (4 * t.vp) * T = u * N
    BY <1>4, <2>2, <2>6
  <2>8. ASSUME ~HalfGapBelow(v) PROVE (4 * t.vm) * T = l * N
    <3>1. l = 4 * c - 2
      BY <1>3, <2>8
    <3>2. (4 * c - 2) * (2 * y) = 4 * ((2 * c - 1) * y) /\ (2 * c - 1) * y \in Nat
      BY <1>3, <2>5
    <3>3. l * N = (4 * ((2 * c - 1) * y)) * T /\ (2 * c - 1) * y \in Nat /\ l \in Nat
      BY <1>3, <2>1, <2>5, <3>1, <3>2
    <3> QED BY <1>4, <2>2, <3>3
  <2>9. ASSUME HalfGapBelow(v), t.vm % 10 = 0, (4 * t.vm) * T = l * N PROVE FALSE
    <3>1. l = 4 * c - 1
      BY <1>3, <2>9
    <3>2. PICK m \in Nat : t.vm = 10 * m
      <4>1. t.vm = 10 * (t.vm \div 10) /\ t.vm \div 10 \in Nat
        BY <1>9, <2>9
      <4> QED BY <4>1
    <3> DEFINE h == l * E5
    <3>3. h \in Nat /\ l * ((2 * w) * E5) = (2 * w) * h
      BY <1>1, <1>3, <1>8
    <3>4. 40 * m = (2 * w) * h
      BY <2>1, <2>9, <3>2, <3>3
    <3> HIDE DEF h
    <3>5. h % 2 = 0
      <4>1. CASE w = 1
        BY <3>3, <3>4, <4>1
      <4>2. CASE w = 2
        BY <3>3, <3>4, <4>2
      <4> QED BY <1>8, <4>1, <4>2
    <3>6. PICK f \in Nat : E5 = 2 * f + 1
      <4>1. E5 = 2 * (2 * (E5 \div 4)) + 1 /\ 2 * (E5 \div 4) \in Nat
        BY <1>1
      <4> QED BY <4>1
    <3>7. l * (2 * f + 1) = 2 * (l * f) + l /\ l * f \in Nat
      BY <1>3
    <3> DEFINE g == l * f
    <3>8. h = 2 * g + l /\ g \in Nat
      BY <3>6, <3>7 DEF h
    <3> HIDE DEF g
    <3> QED BY <1>3, <3>1, <3>3, <3>5, <3>8
  <2> QED BY <2>4, <2>7, <2>8, <2>9
<1>12. ASSUME q > 1
       PROVE  /\ ~((4 * t.vm) * T = l * N) /\ ~((4 * t.vp) * T = u * N)
              /\ (4 * c) % 2^q = 0 => (4 * t.vr) * T = (4 * c) * N
  <2>1. 4 * T = 2^q /\ N = E5
    BY <1>1, <1>12
  <2>2. l % 4 # 0
    BY <1>3
  <2>3. u % 4 # 0 /\ u \in Nat
    BY <1>3
  <2>4. ~((4 * t.vm) * T = l * N)
    BY <1>1, <1>3, <1>9, <2>1, <2>2, UpRest
  <2>5. ~((4 * t.vp) * T = u * N)
    BY <1>1, <1>3, <1>9, <2>1, <2>3, UpRest
  <2>6. ASSUME (4 * c) % 2^q = 0 PROVE (4 * t.vr) * T = (4 * c) * N
    <3> DEFINE m == 4 * T
               four == 4 * c
    <3>1. four % m = 0 /\ four \in Nat /\ m \in Nat \ {0}
      BY <1>3, <2>1, <2>6
    <3> HIDE DEF m, four
    <3>2. PICK a \in Nat : four = m * a
      BY <3>1, MultipleIs
    <3>3. (4 * T) * a * N = (4 * (a * N)) * T /\ a * N \in Nat
      BY <1>3
    <3>4. (4 * c) * N = (4 * (a * N)) * T
      BY <3>2, <3>3 DEF four, m
    <3>5. IsPart(t.vr, (4 * (a * N)) * T, T)
      BY <1>4, <3>4
    <3>6. t.vr = a * N
      BY <1>3, <3>3, <3>5, PartExact
    <3> QED BY <3>4, <3>6
  <2> QED BY <2>4, <2>5, <2>6
<1>13. CASE q <= 1 /\ c % 2 = 0
  <2>1. s = [t EXCEPT !.vrZeros = TRUE, !.vmZeros = R!mmShift(v) = 1]
    BY <1>1, <1>5, <1>7, <1>13
  <2>2. s = [vr |-> t.vr, vp |-> t.vp, vm |-> t.vm, removed |-> 0, last |-> 0,
             vrZeros |-> TRUE, vmZeros |-> (R!mmShift(v) = 1)]
    <3> DEFINE z == R!mmShift(v) = 1
               g == [t EXCEPT !.vrZeros = TRUE]
    <3>1. \A r : t = r => g = [r EXCEPT !.vrZeros = TRUE]
      OBVIOUS
    <3>2. \A r : g = r => s = [r EXCEPT !.vmZeros = z]
      BY <2>1
    <3> HIDE DEF g, z
    <3>3. g = [vr |-> t.vr, vp |-> t.vp, vm |-> t.vm, removed |-> 0, last |-> 0,
               vrZeros |-> TRUE, vmZeros |-> FALSE]
      BY ONLY <1>4, <3>1
    <3>4. s = [vr |-> t.vr, vp |-> t.vp, vm |-> t.vm, removed |-> 0, last |-> 0,
               vrZeros |-> TRUE, vmZeros |-> z]
      BY ONLY <3>2, <3>3
    <3> QED BY <3>4 DEF z
  <2>3. s.vp = t.vp /\ (s.vmZeros <=> ~HalfGapBelow(v)) /\ s.vrZeros
        /\ s.vrZeros \in BOOLEAN /\ s.vmZeros \in BOOLEAN
        /\ s = [vr |-> t.vr, vp |-> s.vp, vm |-> t.vm, removed |-> 0, last |-> 0,
                vrZeros |-> s.vrZeros, vmZeros |-> s.vmZeros]
    BY <1>5, <2>2
  <2>4. t.vm % 10 = 0 => (s.vmZeros <=> (4 * t.vm) * T = l * N)
    BY <1>11, <1>13, <2>3
  <2>5. FlagsRight(v, s)
    BY <1>11, <1>13, <2>3, <2>4 DEF FlagsRight, t, N, T, l, u, c
  <2> QED BY <2>5 DEF s, t, q
<1>14. CASE q <= 1 /\ c % 2 # 0
  <2>1. s = [t EXCEPT !.vrZeros = TRUE, !.vp = @ - 1]
    BY <1>1, <1>5, <1>7, <1>14
  <2>2. s = [vr |-> t.vr, vp |-> t.vp - 1, vm |-> t.vm, removed |-> 0, last |-> 0,
             vrZeros |-> TRUE, vmZeros |-> FALSE]
    <3> DEFINE g == [t EXCEPT !.vrZeros = TRUE]
    <3>1. \A r : t = r => g = [r EXCEPT !.vrZeros = TRUE]
      OBVIOUS
    <3>2. \A r : g = r => s = [r EXCEPT !.vp = @ - 1]
      BY <2>1
    <3> HIDE DEF g
    <3>3. g = [vr |-> t.vr, vp |-> t.vp, vm |-> t.vm, removed |-> 0, last |-> 0,
               vrZeros |-> TRUE, vmZeros |-> FALSE]
      BY ONLY <1>4, <3>1
    <3>4. s = [vr |-> t.vr, vp |-> t.vp - 1, vm |-> t.vm, removed |-> 0, last |-> 0,
               vrZeros |-> TRUE, vmZeros |-> FALSE]
      BY ONLY <3>2, <3>3
    <3> QED BY <3>4
  <2>3. s.vp = t.vp - 1 /\ ~s.vmZeros /\ s.vrZeros
        /\ s.vrZeros \in BOOLEAN /\ s.vmZeros \in BOOLEAN
        /\ s = [vr |-> t.vr, vp |-> s.vp, vm |-> t.vm, removed |-> 0, last |-> 0,
                vrZeros |-> s.vrZeros, vmZeros |-> s.vmZeros]
    BY <2>2
  <2>4. (4 * t.vp) * T = u * N /\ (4 * t.vr) * T = (4 * c) * N
    BY <1>11, <1>14
  <2>5. FlagsRight(v, s)
    BY <1>14, <2>3, <2>4 DEF FlagsRight, t, N, T, l, u, c
  <2> QED BY <2>5 DEF s, t, q
<1>15. CASE q > 1 /\ q < max_pow2_tested
  <2>1. s = [t EXCEPT !.vrZeros = ((4 * c) % 2^q = 0)]
    BY <1>1, <1>6, <1>7, <1>15
  <2> DEFINE z == (4 * c) % 2^q = 0
  <2>2. s = [vr |-> t.vr, vp |-> t.vp, vm |-> t.vm, removed |-> 0, last |-> 0,
             vrZeros |-> z, vmZeros |-> FALSE]
    <3>1. \A r : t = r => s = [r EXCEPT !.vrZeros = z]
      BY <2>1
    <3> HIDE DEF z
    <3> QED BY <1>4, <3>1
  <2>3. s.vp = t.vp /\ ~s.vmZeros /\ (s.vrZeros <=> z)
        /\ s.vrZeros \in BOOLEAN /\ s.vmZeros \in BOOLEAN
        /\ s = [vr |-> t.vr, vp |-> s.vp, vm |-> t.vm, removed |-> 0, last |-> 0,
                vrZeros |-> s.vrZeros, vmZeros |-> s.vmZeros]
    BY <2>2
  <2>4. /\ ~((4 * t.vm) * T = l * N) /\ ~((4 * t.vp) * T = u * N)
        /\ z => (4 * t.vr) * T = (4 * c) * N
    BY <1>12, <1>15
  <2> HIDE DEF z
  <2>5. FlagsRight(v, s)
    BY <2>3, <2>4 DEF FlagsRight, t, N, T, l, u, c
  <2> QED BY <2>5 DEF s, t, q
<1>16. CASE q > 1 /\ q >= max_pow2_tested
  <2>1. s = t
    BY <1>1, <1>6, <1>7, <1>16
  <2>2. ~((4 * t.vm) * T = l * N) /\ ~((4 * t.vp) * T = u * N)
    BY <1>12, <1>16
  <2>3. FlagsRight(v, t)
    BY <1>4, <1>10, <2>2 DEF FlagsRight, t, N, T, l, u, c
  <2> QED BY <2>1, <2>3 DEF s, t, q
<1>17. q < max_pow2_tested \/ q >= max_pow2_tested
  BY <1>1, <1>6
<1> QED BY <1>1, <1>13, <1>14, <1>15, <1>16, <1>17 DEF s, t, q

-----------------------------------------------------------------------------
(* The interval at the scale.                                              *)

(* A number is compared with the exact value by its floor and whether the  *)
(* rest is zero.                                                           *)
LEMMA PartCompares ==
  ASSUME NEW T \in Nat \ {0}, NEW a \in Nat, NEW x, IsPart(x, a, T), NEW d \in Nat
  PROVE  /\ x \in Nat
         /\ a < (4 * d) * T <=> x < d
         /\ (4 * d) * T <= a <=> d <= x
         /\ a <= (4 * d) * T <=> x < d \/ (d = x /\ (4 * x) * T = a)
         /\ (4 * d) * T < a <=> d < x \/ (d = x /\ (4 * x) * T # a)
<1> DEFINE f == (4 * x) * T
           g == (4 * (x + 1)) * T
           h == (4 * d) * T
<1>1. x \in Nat /\ f <= a /\ a < g
  BY DEF IsPart
<1>2. f \in Nat /\ g \in Nat /\ h \in Nat
  BY <1>1
<1>3. x < d => g <= h
  <2>1. 4 * (x + 1) \in Nat /\ 4 * d \in Nat
    BY <1>1
  <2>2. 4 * (x + 1) <= 4 * d => g <= h
    BY <2>1, ProductOrder
  <2> QED BY <1>1, <2>2
<1>4. d < x => h < f
  <2>1. 4 * x \in Nat /\ 4 * d \in Nat
    BY <1>1
  <2>2. 4 * d < 4 * x => h < f
    BY <2>1, ProductOrder
  <2> QED BY <1>1, <2>2
<1>5. d = x => h = f
  OBVIOUS
<1> HIDE DEF f, g, h
<1>6. x < d \/ x = d \/ d < x
  BY <1>1
<1>7. a < h <=> x < d
  BY <1>1, <1>2, <1>3, <1>4, <1>5, <1>6
<1>8. h <= a <=> d <= x
  BY <1>1, <1>2, <1>3, <1>4, <1>5, <1>6
<1>9. a <= h <=> x < d \/ (d = x /\ f = a)
  BY <1>1, <1>2, <1>3, <1>4, <1>5, <1>6
<1>10. h < a <=> d < x \/ (d = x /\ f # a)
  BY <1>1, <1>2, <1>3, <1>4, <1>5, <1>6
<1> QED BY <1>1, <1>7, <1>8, <1>9, <1>10 DEF f, g, h

(* What the loops may rely on: vr is the value rounded down, vrZeros says  *)
(* it is exact, and vm, vmZeros and vp say which multiples of ten are in   *)
(* the interval.                                                           *)
ScaleRight(v, s) ==
  LET e == R!e10(v)
      T == Tens(BinExp(v), e)
      y == (4 * BinSig(v)) * Twos(BinExp(v), e)
  IN /\ IsScaled(s)
     /\ IsPart(s.vr, y, T)
     /\ s.vm <= s.vr /\ s.vr <= s.vp /\ s.vp < 10^Spare(v)
     /\ (4 * s.vm) * T < y
     /\ s.vmZeros => BinSig(v) % 2 = 0
     /\ s.vrZeros => (4 * s.vr) * T = y
     /\ \A d \in Nat : d % 10 = 0 =>
          (RoundTrips(v, d, e) <=>
             (s.vm < d \/ (d = s.vm /\ s.vmZeros)) /\ d <= s.vp)

(* With the flags right, the interval is read off vm, vp and vmZeros.      *)
LEMMA RightFlags ==
  ASSUME NEW v \in Ordinary, NEW s, FlagsRight(v, s)
  PROVE  ScaleRight(v, s)
<1> DEFINE t == R!Product(v)
           e == R!e10(v)
           N == Twos(BinExp(v), e)
           T == Tens(BinExp(v), e)
           c == BinSig(v)
           l == LowerQuarters(v)
           u == UpperQuarters(v)
           a == l * N
           y == (4 * c) * N
           b == u * N
<1>1. c \in Nat \ {0} /\ l \in Nat \ {0} /\ u = 4 * c + 2 /\ l < 4 * c
      /\ N \in Nat \ {0} /\ T \in Nat \ {0}
  BY RyuFactors
<1>2. IsPart(t.vr, y, T) /\ IsPart(t.vp, b, T) /\ IsPart(t.vm, a, T)
  BY ProductIs
<1>3. /\ s = [vr |-> t.vr, vp |-> s.vp, vm |-> t.vm, removed |-> 0, last |-> 0,
              vrZeros |-> s.vrZeros, vmZeros |-> s.vmZeros]
      /\ s.vrZeros \in BOOLEAN /\ s.vmZeros \in BOOLEAN
      /\ s.vrZeros => (4 * t.vr) * T = y
      /\ IF c % 2 = 0
          THEN /\ s.vp = t.vp
               /\ t.vm % 10 = 0 => (s.vmZeros <=> (4 * t.vm) * T = a)
          ELSE /\ ~s.vmZeros
               /\ \/ s.vp = t.vp /\ ~(t.vp % 10 = 0 /\ (4 * t.vp) * T = b)
                  \/ s.vp = t.vp - 1 /\ (4 * t.vp) * T = b
  BY DEF FlagsRight
<1>4. s.vr = t.vr /\ s.vm = t.vm /\ s.removed = 0 /\ s.last = 0
  BY <1>3
<1>5. \A d \in Nat : RoundTrips(v, d, e) <=>
        IF c % 2 = 0 THEN a <= (4 * d) * T /\ (4 * d) * T <= b
                     ELSE a < (4 * d) * T /\ (4 * d) * T < b
  <2> SUFFICES ASSUME NEW d \in Nat
               PROVE  RoundTrips(v, d, e) <=>
                        IF c % 2 = 0 THEN a <= (4 * d) * T /\ (4 * d) * T <= b
                                     ELSE a < (4 * d) * T /\ (4 * d) * T < b
    OBVIOUS
  <2>1. u = 4 * c + 2
    BY <1>1
  <2> HIDE DEF u, l, c, N, T, e
  <2> QED BY <1>1, <2>1, RoundTripsInIntegers DEF c, N, T, l, e
<1>6. t.vp < 10^Spare(v)
  BY RyuLogAssumption DEF Spare
<1>7. 10^Spare(v) \in Nat
  <2>1. Spare(v) \in 2..max_digits /\ Spare(v) \in 0..Spare(v)
    BY RyuScaled, RyuDigitsKnown
  <2>2. Spare(v) \in 1..max_digits
    BY <2>1, RyuDigitsKnown
  <2>3. TensKnown(Spare(v))
    BY <2>2, RyuDigitsKnown
  <2> QED BY <2>1, <2>3, TensOf
<1> HIDE DEF t, e, N, T, l, u, c
<1>8. a \in Nat /\ y \in Nat /\ b \in Nat /\ a < y /\ y < b
  <2>1. 4 * c \in Nat /\ u \in Nat
    BY <1>1
  <2>2. l * N < (4 * c) * N /\ (4 * c) * N < u * N
    BY <1>1, <2>1, ProductOrder
  <2>3. l * N \in Nat /\ (4 * c) * N \in Nat /\ u * N \in Nat
    BY <1>1, <2>1
  <2> QED BY <2>2, <2>3
<1> HIDE DEF a, y, b
<1>9. t.vr \in Nat /\ t.vp \in Nat /\ t.vm \in Nat
  BY <1>2 DEF IsPart
<1>10. t.vm <= t.vr /\ (4 * t.vm) * T < y
  <2>1. (4 * t.vm) * T <= a /\ (4 * t.vm) * T \in Nat
    BY <1>1, <1>2, <1>9 DEF IsPart
  <2> DEFINE g == (4 * t.vm) * T
  <2>2. g \in Nat /\ g <= a
    BY <2>1
  <2> HIDE DEF g
  <2>3. g <= y /\ g < y
    BY <1>8, <2>2
  <2> QED BY <1>1, <1>2, <1>8, <1>9, <2>3, PartCompares DEF g
<1>11. t.vr <= t.vp /\ ((4 * t.vp) * T = b => t.vr <= t.vp - 1)
  <2> DEFINE g == (4 * t.vr) * T
  <2>1. g <= y /\ g \in Nat
    BY <1>1, <1>2, <1>9 DEF IsPart
  <2> HIDE DEF g
  <2>2. g < b /\ g <= b
    BY <1>8, <2>1
  <2>3. t.vr <= t.vp
    BY <1>1, <1>2, <1>8, <1>9, <2>2, PartCompares DEF g
  <2>4. ASSUME (4 * t.vp) * T = b PROVE t.vr # t.vp
    BY <1>8, <2>2, <2>4 DEF g
  <2> QED BY <1>9, <2>3, <2>4
<1>12. \A d \in Nat :
         /\ a < (4 * d) * T <=> t.vm < d
         /\ a <= (4 * d) * T <=> t.vm < d \/ (d = t.vm /\ (4 * t.vm) * T = a)
         /\ (4 * d) * T <= b <=> d <= t.vp
         /\ (4 * d) * T < b <=> d < t.vp \/ (d = t.vp /\ (4 * t.vp) * T # b)
  BY <1>1, <1>2, <1>8, PartCompares
<1>13. s.vp \in Nat /\ t.vr <= s.vp /\ s.vp <= t.vp
  BY <1>3, <1>9, <1>11
<1>14. s.vp < 10^Spare(v)
  BY <1>6, <1>7, <1>9, <1>13
<1>15. IsScaled(s)
  BY <1>3, <1>4, <1>9, <1>13 DEF IsScaled
<1>16. s.vmZeros => c % 2 = 0
  BY <1>3
<1>17. \A d \in Nat : d % 10 = 0 =>
         (RoundTrips(v, d, e) <=> (s.vm < d \/ (d = s.vm /\ s.vmZeros)) /\ d <= s.vp)
  <2> SUFFICES ASSUME NEW d \in Nat, d % 10 = 0
               PROVE  RoundTrips(v, d, e) <=>
                        (t.vm < d \/ (d = t.vm /\ s.vmZeros)) /\ d <= s.vp
    BY <1>4
  <2>1. CASE c % 2 = 0
    <3>1. s.vp = t.vp /\ (t.vm % 10 = 0 => (s.vmZeros <=> (4 * t.vm) * T = a))
      BY <1>3, <2>1
    <3>2. d = t.vm => (s.vmZeros <=> (4 * t.vm) * T = a)
      BY <3>1
    <3>3. RoundTrips(v, d, e) <=> a <= (4 * d) * T /\ (4 * d) * T <= b
      BY <1>5, <2>1
    <3> QED BY <1>12, <3>1, <3>2, <3>3
  <2>2. CASE c % 2 # 0
    <3>1. RoundTrips(v, d, e) <=> a < (4 * d) * T /\ (4 * d) * T < b
      BY <1>5, <2>2
    <3>2. ~s.vmZeros
      BY <1>3, <2>2
    <3>3. CASE s.vp = t.vp /\ ~(t.vp % 10 = 0 /\ (4 * t.vp) * T = b)
      <4>1. d = t.vp => (4 * t.vp) * T # b
        BY <3>3
      <4>2. (4 * d) * T < b <=> d < t.vp \/ d = t.vp
        BY <1>12, <4>1
      <4> QED BY <1>9, <1>12, <3>1, <3>2, <3>3, <4>2
    <3>4. CASE s.vp = t.vp - 1 /\ (4 * t.vp) * T = b
      <4>1. (4 * d) * T < b <=> d < t.vp
        BY <1>12, <3>4
      <4> QED BY <1>9, <1>12, <3>1, <3>2, <3>4, <4>1
    <3> QED BY <1>3, <2>2, <3>3, <3>4
  <2> QED BY <2>1, <2>2
<1>18. s.vrZeros => (4 * s.vr) * T = y
  BY <1>3, <1>4
<1>19. IsPart(s.vr, y, T) /\ s.vm <= s.vr /\ s.vr <= s.vp
  BY <1>2, <1>4, <1>10, <1>13
<1>20. (4 * s.vm) * T < y
  BY <1>4, <1>10
<1> QED BY <1>14, <1>15, <1>16, <1>17, <1>18, <1>19, <1>20 DEF ScaleRight, y, T, N, c, e

(* Both ways to scale agree with that.                                     *)
LEMMA ScaleIs ==
  ASSUME NEW v \in Ordinary
  PROVE  ScaleRight(v, R!Scale(v))
<1>1. R!e2(v) \in Int
  <2>1. BinExp(v) \in Int
    BY OrdinaryIs
  <2> QED BY <2>1, RyuFields DEF R!e2
<1>2. CASE R!e2(v) >= 0
  <2>1. R!Scale(v) = R!ScaleDown(v, R!Product(v), R!DownPow(v))
    BY <1>2 DEF R!Scale
  <2> QED BY <1>2, <2>1, FlagsDown, RightFlags
<1>3. CASE R!e2(v) < 0
  <2>1. R!Scale(v) = R!ScaleUp(v, R!Product(v), R!UpPow(v))
    <3> DEFINE m == R!e2(v)
    <3>1. ~(m >= 0)
      BY <1>1, <1>3
    <3> HIDE DEF m
    <3> QED BY <3>1 DEF R!Scale, m
  <2> QED BY <1>3, <2>1, FlagsUp, RightFlags
<1> QED BY <1>1, <1>2, <1>3

(* A number of digits that remain once j are removed, at the scale.        *)
LEMMA LevelRoundTrips ==
  ASSUME NEW v \in Ordinary, NEW j \in 0..Spare(v), NEW d \in Nat
  PROVE  RoundTrips(v, d, R!e10(v) + j) <=> RoundTrips(v, d * 10^j, R!e10(v))
<1> DEFINE e == R!e10(v)
           m == Spare(v) - 1
           i == j - 1
           P == 10^j
<1>1. Scalable(v, e + 1, m) /\ e \in Int /\ m \in Nat /\ Spare(v) \in 2..max_digits
  BY RyuScaled
<1> SUFFICES RoundTrips(v, d, e + j) <=> RoundTrips(v, d * P, e)
  OBVIOUS
<1>2. CASE j = 0
  <2>1. 10^0 = 1
    OBVIOUS
  <2>2. P = 1
    BY <1>2, <2>1
  <2> HIDE DEF e, P
  <2>3. e + j = e /\ d * P = d
    BY <1>1, <1>2, <2>2
  <2> QED BY <2>3
<1>3. CASE j # 0
  <2>1. i \in 0..m /\ (e + 1) + i = e + j /\ i + 1 = j /\ j \in Nat
    BY <1>1, <1>3
  <2>2. TensKnown(m)
    BY <1>1 DEF Scalable
  <2>3. 10^i \in Nat \ {0} /\ P \in Nat \ {0} /\ P = 10 * 10^i
    BY <2>1, <2>2, TensOf
  <2> HIDE DEF e, m, i, P
  <2>4. RoundTrips(v, d, e + j) <=> RoundTrips(v, d * 10^i, e + 1)
    BY <1>1, <2>1, ScaleRoundTrips
  <2> DEFINE p == 10^i
             n == d * p
  <2>5. n \in Nat /\ 10 * n = d * P
    <3>1. p \in Nat /\ P = 10 * p
      BY <2>3
    <3> HIDE DEF p
    <3> QED BY <3>1
  <2>6. RoundTrips(v, n, e + 1) <=> RoundTrips(v, 10 * n, e)
    <3>1. e \in (e + 1) - 1 .. (e + 1) + m
      BY <1>1
    <3> HIDE DEF n
    <3> QED BY <1>1, <2>5, <3>1, ScaleOnce
  <2> QED BY <2>4, <2>5, <2>6
<1> QED BY <1>2, <1>3

(* What is in the interval once j digits are removed.                      *)
LEMMA LevelInside ==
  ASSUME NEW v \in Ordinary, NEW s, ScaleRight(v, s), NEW j \in 1..Spare(v),
         NEW d \in Nat
  PROVE  LET t == Level(s, j)
         IN RoundTrips(v, d, R!e10(v) + j) <=>
              (t.vm < d \/ (d = t.vm /\ t.vmZeros)) /\ d <= t.vp
<1> DEFINE e == R!e10(v)
           m == Spare(v) - 1
           i == j - 1
           P == 10^j
           t == Level(s, j)
<1>1. Scalable(v, e + 1, m) /\ e \in Int /\ m \in Nat /\ Spare(v) \in 2..max_digits
  BY RyuScaled
<1>2. i \in 0..m /\ i + 1 = j /\ j \in 0..Spare(v)
  BY <1>1
<1>3. TensKnown(m)
  BY <1>1 DEF Scalable
<1>4. 10^i \in Nat \ {0} /\ P \in Nat \ {0} /\ P = 10 * 10^i
  BY <1>2, <1>3, TensOf
<1>5. IsScaled(s) /\ s.vm \in Nat /\ s.vp \in Nat
  BY DEF ScaleRight, IsScaled
<1>6. \A n \in Nat : n % 10 = 0 =>
        (RoundTrips(v, n, e) <=> (s.vm < n \/ (n = s.vm /\ s.vmZeros)) /\ n <= s.vp)
  BY DEF ScaleRight
<1>7. t.vm = s.vm \div P /\ t.vp = s.vp \div P
      /\ (t.vmZeros <=> s.vmZeros /\ s.vm % P = 0)
  BY DEF Level
<1>8. /\ d * P <= s.vp <=> d <= s.vp \div P
      /\ s.vm < d * P <=> s.vm \div P < d
      /\ d * P = s.vm <=> d = s.vm \div P /\ s.vm % P = 0
  BY <1>4, <1>5, DivisionCompares
<1>9. RoundTrips(v, d, e + j) <=> RoundTrips(v, d * P, e)
  BY <1>2, LevelRoundTrips
<1>10. d * P \in Nat /\ (d * P) % 10 = 0
  <2> DEFINE p == 10^i
             n == d * p
  <2>1. p \in Nat /\ P = 10 * p
    BY <1>4
  <2> HIDE DEF p, P
  <2>2. n \in Nat /\ 10 * n = d * P
    BY <2>1
  <2> HIDE DEF n
  <2> QED BY <2>2
<1> HIDE DEF e, t, P
<1>11. RoundTrips(v, d * P, e) <=>
         (s.vm < d * P \/ (d * P = s.vm /\ s.vmZeros)) /\ d * P <= s.vp
  <2> DEFINE n == d * P
  <2>1. n \in Nat /\ n % 10 = 0
    BY <1>10
  <2> HIDE DEF n
  <2>2. RoundTrips(v, n, e) <=> (s.vm < n \/ (n = s.vm /\ s.vmZeros)) /\ n <= s.vp
    BY <1>6, <2>1
  <2> QED BY <2>2 DEF n
<1>12. RoundTrips(v, d, e + j) <=> (t.vm < d \/ (d = t.vm /\ t.vmZeros)) /\ d <= t.vp
  BY <1>7, <1>8, <1>9, <1>11
<1> QED BY <1>12 DEF e, t

(* The powers of ten of every length of a scaled value.                    *)
LEMMA RyuTens ==
  /\ max_digits \in Nat /\ TensKnown(max_digits)
  /\ \A j \in 0 .. max_digits + 1 : 10^j \in Nat \ {0}
  /\ PowersUpTo(10, max_digits)
<1>1. max_digits \in Nat /\ max_digits >= 1
  BY RyuDigitsKnown
<1>2. TensKnown(max_digits)
  BY <1>1, RyuDigitsKnown
<1>3. \A j \in 0..max_digits : 10^j \in Nat \ {0} /\ 10^(j + 1) \in Nat \ {0} /\ 10^(j + 1) = 10 * 10^j
  BY <1>2, TensOf
<1>4. \A j \in 0 .. max_digits + 1 : 10^j \in Nat \ {0}
  <2> SUFFICES ASSUME NEW j \in 0 .. max_digits + 1 PROVE 10^j \in Nat \ {0}
    OBVIOUS
  <2>1. j \in 0..max_digits \/ (j - 1 \in 0..max_digits /\ (j - 1) + 1 = j)
    BY <1>1
  <2> QED BY <1>3, <2>1
<1>5. PowersUpTo(10, max_digits)
  <2>1. 10^0 = 1
    OBVIOUS
  <2>2. \A n \in 0 .. max_digits - 1 : 10^(n + 1) = 10 * 10^n
    <3> SUFFICES ASSUME NEW n \in 0 .. max_digits - 1 PROVE 10^(n + 1) = 10 * 10^n
      OBVIOUS
    <3>1. n \in 0..max_digits
      BY <1>1
    <3> QED BY <1>3, <3>1
  <2> QED BY <2>1, <2>2 DEF PowersUpTo
<1> QED BY <1>1, <1>2, <1>4, <1>5

(* Where the upper end still has a digit, another one can be looked at.    *)
LEMMA LevelFits ==
  ASSUME NEW v \in Ordinary, NEW s, ScaleRight(v, s), NEW J \in 0..max_digits,
         10^J <= s.vp
  PROVE  J < Spare(v)
<1>1. s.vp \in Nat /\ s.vp < 10^Spare(v) /\ Spare(v) \in 2..max_digits
  BY RyuScaled DEF ScaleRight, IsScaled
<1>2. /\ max_digits \in Nat /\ PowersUpTo(10, max_digits)
      /\ \A j \in 0 .. max_digits + 1 : 10^j \in Nat \ {0}
  BY RyuTens
<1> DEFINE n == Spare(v)
<1>3. n \in 0..max_digits /\ n \in 0 .. max_digits + 1 /\ J \in 0 .. max_digits + 1
  BY <1>1, <1>2
<1>4. 10^n \in Nat /\ 10^J \in Nat
  BY <1>2, <1>3
<1>5. n < J => 10^n < 10^J
  <2> HIDE DEF n
  <2>1. \A a, b \in 0..max_digits : a < b => 10 * 10^a <= 10^b /\ 10^a < 10^b
    BY <1>2, PowerOrder
  <2> QED BY <1>3, <2>1
<1> DEFINE p == 10^n
           r == 10^J
<1>6. p \in Nat /\ r \in Nat /\ (n < J => p < r) /\ (n = J => p = r) /\ r <= s.vp /\ s.vp < p
  BY <1>1, <1>4, <1>5
<1> HIDE DEF p, r, n
<1>7. ~(n < J) /\ n # J
  BY <1>1, <1>6
<1> QED BY <1>3, <1>7 DEF n

(* Once the condition of the first loop fails, it fails for good.          *)
LEMMA WideOnce ==
  ASSUME NEW s, IsScaled(s), NEW i \in 0..max_digits, NEW j \in i..max_digits,
         ~Wide(s, i)
  PROVE  ~Wide(s, j)
<1>1. /\ max_digits \in Nat /\ TensKnown(max_digits)
      /\ \A n \in 0 .. max_digits + 1 : 10^n \in Nat \ {0}
  BY RyuTens
<1>2. s.vm \in Nat /\ s.vp \in Nat
  BY DEF IsScaled
<1> DEFINE b == j - i
           P == 10^(i + 1)
           h == 10^b
<1>3. b \in Nat /\ b \in 0 .. max_digits + 1 /\ i + 1 \in 0 .. max_digits + 1
      /\ (i + 1) + b = j + 1 /\ (i + 1) + b <= max_digits + 1 /\ i + 1 \in Nat
  BY <1>1
<1> HIDE DEF b
<1>4. 10^(j + 1) = P * h
  <2>1. 10^((i + 1) + b) = 10^(i + 1) * 10^b
    BY <1>1, <1>3, TensSum
  <2> QED BY <1>3, <2>1
<1>5. P \in Nat \ {0} /\ h \in Nat \ {0}
  BY <1>1, <1>3
<1> HIDE DEF P, h
<1>6. (s.vp \div P) \div h = s.vp \div (P * h) /\ (s.vm \div P) \div h = s.vm \div (P * h)
  BY <1>2, <1>5, DivisionTwice
<1>7. s.vp \div P \in Nat /\ s.vm \div P \in Nat
  BY <1>2, <1>5, DivisionCompares
<1>8. s.vp \div P <= s.vm \div P
  <2>1. ~(s.vp \div P > s.vm \div P)
    BY DEF Wide, P
  <2> QED BY <1>7, <2>1
<1>9. (s.vp \div P) \div h <= (s.vm \div P) \div h
  BY <1>5, <1>7, <1>8, DivisionMonotone
<1>10. (s.vp \div P) \div h \in Nat /\ (s.vm \div P) \div h \in Nat
  BY <1>5, <1>7, DivisionCompares
<1>11. ~((s.vp \div P) \div h > (s.vm \div P) \div h)
  BY <1>9, <1>10
<1> QED BY <1>4, <1>6, <1>11 DEF Wide

(* The lower end of the interval is not zero where it is in the interval.  *)
LEMMA LowEndPositive ==
  ASSUME NEW v \in Ordinary, NEW s, ScaleRight(v, s), s.vmZeros
  PROVE  s.vm # 0
<1> SUFFICES ASSUME s.vm = 0 PROVE FALSE
  OBVIOUS
<1> DEFINE e == R!e10(v)
           c == BinSig(v)
           N == Twos(BinExp(v), e)
           T == Tens(BinExp(v), e)
           l == LowerQuarters(v)
<1>1. /\ c \in Nat \ {0} /\ N \in Nat \ {0} /\ T \in Nat \ {0} /\ l \in Nat \ {0}
  BY RyuFactors
<1>2. s.vp \in Nat /\ 0 % 10 = 0 /\ 0 \in Nat
  BY DEF ScaleRight, IsScaled
<1>3. \A n \in Nat : n % 10 = 0 =>
        (RoundTrips(v, n, e) <=> (s.vm < n \/ (n = s.vm /\ s.vmZeros)) /\ n <= s.vp)
  BY DEF ScaleRight
<1>4. RoundTrips(v, 0, e)
  <2> HIDE DEF e
  <2> QED BY <1>2, <1>3
<1>5. l * N <= (4 * 0) * T \/ l * N < (4 * 0) * T
  <2> HIDE DEF e
  <2> QED BY <1>1, <1>2, <1>4, RoundTripsInIntegers DEF c, N, T, l
<1> HIDE DEF l, N, T
<1>6. l * N \in Nat \ {0}
  BY <1>1
<1>7. (4 * 0) * T = 0
  BY <1>1
<1> QED BY <1>5, <1>6, <1>7

(* The loops stop at a level where something is in the interval and        *)
(* nothing is one digit further.                                           *)
StopsAt(v, J) ==
  /\ J \in 0 .. Spare(v) - 1
  /\ J # 0 => \E d \in Nat : RoundTrips(v, d, R!e10(v) + J)
  /\ \A d \in Nat : ~RoundTrips(v, d, R!e10(v) + (J + 1))

(* Where the loops stop something is in the interval, and nothing one      *)
(* digit further.                                                          *)
LEMMA Stopped ==
  ASSUME NEW v \in Ordinary, NEW s, ScaleRight(v, s), NEW J \in 0..max_digits,
         ~Wide(s, J), ~(s.vmZeros /\ s.vm % 10^(J + 1) = 0),
         J # 0 => Wide(s, J - 1) \/ (s.vmZeros /\ s.vm % 10^J = 0)
  PROVE  StopsAt(v, J)
<1>1. /\ max_digits \in Nat
      /\ \A j \in 0 .. max_digits + 1 : 10^j \in Nat \ {0}
  BY RyuTens
<1>2. IsScaled(s) /\ s.vm \in Nat /\ s.vp \in Nat /\ s.vm <= s.vp
  BY DEF ScaleRight, IsScaled
<1>3. Spare(v) \in 2..max_digits
  BY RyuScaled
<1> DEFINE P == 10^J
           a == s.vm \div P
           b == s.vp \div P
<1>4. P \in Nat \ {0}
  <2>1. J \in 0 .. max_digits + 1
    BY <1>1
  <2> QED BY <1>1, <2>1
<1> HIDE DEF P
<1>5. a \in Nat /\ b \in Nat /\ a <= b /\ (1 * P <= s.vp <=> 1 <= b)
  BY <1>2, <1>4, DivisionCompares, DivisionMonotone
<1>6. J # 0 /\ Wide(s, J - 1) => a < b
  <2> SUFFICES ASSUME J # 0, Wide(s, J - 1) PROVE a < b
    OBVIOUS
  <2>1. (J - 1) + 1 = J
    OBVIOUS
  <2>2. s.vp \div 10^((J - 1) + 1) > s.vm \div 10^((J - 1) + 1)
    BY DEF Wide
  <2>3. b > a
    BY <2>1, <2>2 DEF P
  <2> HIDE DEF a, b
  <2> QED BY <1>5, <2>3
<1>7. ASSUME J # 0, s.vmZeros, s.vm % P = 0 PROVE 1 <= b
  <2>1. s.vm # 0
    BY <1>7, LowEndPositive
  <2>2. a * P = s.vm
    <3>1. a \in Nat
      BY <1>5
    <3> QED BY <1>2, <1>4, <1>7, <3>1, DivisionCompares
  <2> HIDE DEF a, b
  <2>3. a # 0
    BY <1>4, <2>1, <2>2
  <2> QED BY <1>5, <2>3
<1>8. J < Spare(v)
  <2>1. CASE J = 0
    BY <1>3, <2>1
  <2>2. CASE J # 0
    <3>1. 1 <= b
      <4>1. CASE Wide(s, J - 1)
        <5>1. a < b
          BY <1>6, <2>2, <4>1
        <5> HIDE DEF a, b
        <5> QED BY <1>5, <5>1
      <4>2. CASE s.vmZeros /\ s.vm % 10^J = 0
        BY <1>7, <2>2, <4>2 DEF P
      <4> QED BY <2>2, <4>1, <4>2
    <3>2. P <= s.vp
      BY <1>4, <1>5, <3>1
    <3> QED BY <3>2, LevelFits DEF P
  <2> QED BY <2>1, <2>2
<1>9. J \in 0 .. Spare(v) - 1 /\ J + 1 \in 1..Spare(v)
  BY <1>3, <1>8
<1>10. ASSUME J # 0 PROVE \E d \in Nat : RoundTrips(v, d, R!e10(v) + J)
  <2> DEFINE t == Level(s, J)
  <2>1. J \in 1..Spare(v)
    BY <1>9, <1>10, <1>3
  <2>2. t.vm = a /\ t.vp = b /\ (t.vmZeros <=> s.vmZeros /\ s.vm % P = 0)
    BY DEF Level, P
  <2>3. \A d \in Nat : RoundTrips(v, d, R!e10(v) + J) <=>
          (t.vm < d \/ (d = t.vm /\ t.vmZeros)) /\ d <= t.vp
    BY <2>1, LevelInside
  <2> HIDE DEF t, a, b
  <2>4. CASE Wide(s, J - 1)
    <3>1. a < b
      BY <1>6, <1>10, <2>4
    <3> QED BY <1>5, <2>2, <2>3, <3>1
  <2>5. CASE s.vmZeros /\ s.vm % 10^J = 0
    <3>1. t.vmZeros
      BY <2>2, <2>5 DEF P
    <3> QED BY <1>5, <2>2, <2>3, <3>1
  <2> QED BY <1>10, <2>4, <2>5
<1>11. ASSUME NEW d \in Nat, RoundTrips(v, d, R!e10(v) + (J + 1)) PROVE FALSE
  <2> DEFINE t == Level(s, J + 1)
             Q == 10^(J + 1)
  <2>1. t.vm = s.vm \div Q /\ t.vp = s.vp \div Q /\ ~t.vmZeros
    BY DEF Level
  <2>2. (t.vm < d \/ (d = t.vm /\ t.vmZeros)) /\ d <= t.vp
    BY <1>9, <1>11, LevelInside
  <2>3. Q \in Nat \ {0}
    <3>1. J + 1 \in 0 .. max_digits + 1
      BY <1>1
    <3> QED BY <1>1, <3>1
  <2>4. ~(s.vp \div Q > s.vm \div Q)
    BY DEF Wide
  <2> HIDE DEF t, Q
  <2>5. s.vm \div Q \in Nat /\ s.vp \div Q \in Nat
    BY <1>2, <2>3, DivisionCompares
  <2> QED BY <2>1, <2>2, <2>4, <2>5
<1> QED BY <1>9, <1>10, <1>11 DEF StopsAt

-----------------------------------------------------------------------------
(* What d2d returns.                                                       *)

(* Whether the digits that remain are rounded up.                          *)
RyuUp(t) ==
  \/ t.vr = t.vm /\ ~t.vmZeros
  \/ t.last >= 5 /\ ~(t.vrZeros /\ t.last = 5 /\ t.vr % 2 = 0)

(* What is returned there.                                                 *)
RyuOut(s, J) == Level(s, J).vr + R!Bit(RyuUp(Level(s, J)))

(* The fields of the levels.                                               *)
LEMMA LevelFields ==
  ASSUME NEW s, IsScaled(s), NEW j \in 0..max_digits
  PROVE  LET t == Level(s, j)
         IN /\ t.vr \in Nat /\ t.vp \in Nat /\ t.vm \in Nat
            /\ t.removed = j /\ t.last \in 0..9
            /\ t.vrZeros \in BOOLEAN /\ t.vmZeros \in BOOLEAN
            /\ t.vmZeros <=> s.vmZeros /\ s.vm % 10^j = 0
<1> DEFINE t == Level(s, j)
<1>1. /\ max_digits \in Nat
      /\ \A n \in 0 .. max_digits + 1 : 10^n \in Nat \ {0}
  BY RyuTens
<1>2. 10^j \in Nat \ {0} /\ (j # 0 => 10^(j - 1) \in Nat \ {0})
  <2>1. j \in 0 .. max_digits + 1 /\ (j # 0 => j - 1 \in 0 .. max_digits + 1)
    BY <1>1
  <2> QED BY <1>1, <2>1
<1>3. /\ s.vr \in Nat /\ s.vp \in Nat /\ s.vm \in Nat
      /\ s.vrZeros \in BOOLEAN /\ s.vmZeros \in BOOLEAN
  BY DEF IsScaled
<1>4. t.vr \in Nat /\ t.vp \in Nat /\ t.vm \in Nat
  <2>1. t.vr = s.vr \div 10^j /\ t.vp = s.vp \div 10^j /\ t.vm = s.vm \div 10^j
    BY DEF Level
  <2> HIDE DEF t
  <2> QED BY <1>2, <1>3, <2>1, DivisionCompares
<1>5. t.removed = j
  BY DEF Level
<1>6. t.last \in 0..9
  <2>1. t.last = IF j = 0 THEN 0 ELSE (s.vr \div 10^(j - 1)) % 10
    BY DEF Level
  <2> HIDE DEF t
  <2>2. CASE j = 0
    BY <2>1, <2>2
  <2>3. CASE j # 0
    <3> DEFINE q == s.vr \div 10^(j - 1)
    <3>1. q \in Nat
      BY <1>2, <1>3, <2>3, DivisionCompares
    <3>2. t.last = q % 10
      BY <2>1, <2>3
    <3> HIDE DEF q
    <3> QED BY <3>1, <3>2
  <2> QED BY <2>2, <2>3
<1>7. t.vrZeros \in BOOLEAN /\ t.vmZeros \in BOOLEAN
      /\ (t.vmZeros <=> s.vmZeros /\ s.vm % 10^j = 0)
  BY <1>3 DEF Level
<1> QED BY <1>4, <1>5, <1>6, <1>7

(* Where the scaled value has fewer than max_digits digits, both loops     *)
(* take it to where it stops.                                              *)
LEMMA RyuScaledFits ==
  ASSUME NEW v \in Ordinary, NEW s, ScaleRight(v, s)
  PROVE  s.vp < 10^max_digits
<1>1. s.vp \in Nat /\ s.vp < 10^Spare(v) /\ Spare(v) \in 2..max_digits
  BY RyuScaled DEF ScaleRight, IsScaled
<1>2. /\ max_digits \in Nat /\ PowersUpTo(10, max_digits)
      /\ \A j \in 0 .. max_digits + 1 : 10^j \in Nat \ {0}
  BY RyuTens
<1> DEFINE n == Spare(v)
           m == max_digits
<1>3. n \in 0..m /\ m \in 0..m /\ n \in 0 .. m + 1 /\ m \in 0 .. m + 1 /\ (n < m \/ n = m)
  BY <1>1, <1>2
<1>4. 10^n \in Nat /\ 10^m \in Nat
  BY <1>2, <1>3
<1>5. n < m => 10^n < 10^m
  <2> HIDE DEF n
  <2>1. \A a, b \in 0..m : a < b => 10 * 10^a <= 10^b /\ 10^a < 10^b
    BY <1>2, PowerOrder
  <2> QED BY <1>3, <2>1
<1> DEFINE p == 10^n
           r == 10^m
<1>6. p \in Nat /\ r \in Nat /\ (n < m => p < r) /\ (n = m => p = r) /\ s.vp < p
  BY <1>1, <1>4, <1>5
<1>7. n < m \/ n = m
  BY <1>3
<1> HIDE DEF p, r, n, m
<1>8. s.vp < r
  BY <1>1, <1>6, <1>7
<1> QED BY <1>8 DEF r, m

(* The loops of the general case stop there, whatever the flags say.       *)
LEMMA GeneralIs ==
  ASSUME NEW v \in Ordinary, NEW s, ScaleRight(v, s)
  PROVE  \E J : StopsAt(v, J) /\ R!General(v, s) = <<RyuOut(s, J), J>>
<1>1. max_digits \in Nat /\ TensKnown(max_digits) /\ 10^max_digits \in Nat
  <2>1. max_digits \in Nat
    BY RyuTens
  <2>2. max_digits \in 0 .. max_digits + 1
    BY <2>1
  <2> QED BY <2>2, RyuTens
<1>2. IsScaled(s) /\ s.vp < 10^max_digits /\ s.vm \in Nat /\ s.vp \in Nat /\ s.vm <= s.vp
      /\ (s.vmZeros => BinSig(v) % 2 = 0)
  BY RyuScaledFits DEF ScaleRight, IsScaled
<1>3. Level(s, 0) = s
  BY <1>2, LevelStart
<1>4. 0 \in 0..max_digits
  BY <1>1
<1>5. PICK I \in 0..max_digits : /\ R!CutWhileWide(Level(s, 0)) = Level(s, I)
                                 /\ ~Wide(s, I)
                                 /\ I # 0 => Wide(s, I - 1)
  BY <1>1, <1>2, <1>4, WideLoop
<1> DEFINE wide == Level(s, I)
<1>6. R!CutWhileWide(s) = wide
  BY <1>3, <1>5
<1>7. wide.vmZeros \in BOOLEAN /\ (wide.vmZeros <=> s.vmZeros /\ s.vm % 10^I = 0)
  BY <1>2, LevelFields
<1>8. \E J \in 0..max_digits :
        /\ StopsAt(v, J)
        /\ (IF wide.vmZeros THEN R!CutZeros(wide) ELSE wide) = Level(s, J)
  <2>1. CASE wide.vmZeros
    <3>1. s.vmZeros /\ s.vm % 10^I = 0
      BY <1>7, <2>1
    <3>2. s.vm # 0
      BY <3>1, LowEndPositive
    <3>3. s.vm \in 1 .. 10^max_digits - 1
      <4> DEFINE P == 10^max_digits
      <4>1. P \in Nat /\ s.vp < P
        BY <1>1, <1>2
      <4> HIDE DEF P
      <4>2. s.vm \in 1 .. P - 1
        BY <1>2, <3>2, <4>1
      <4> QED BY <4>2 DEF P
    <3>4. PICK J \in I..max_digits : /\ R!CutZeros(Level(s, I)) = Level(s, J)
                                     /\ s.vm % 10^J = 0
                                     /\ s.vm % 10^(J + 1) # 0
      BY <1>1, <1>2, <3>1, <3>3, ZerosLoop
    <3>5. J \in 0..max_digits
      BY <1>1
    <3>6. ~Wide(s, J)
      BY <1>2, <1>5, WideOnce
    <3>7. StopsAt(v, J)
      BY <3>1, <3>4, <3>5, <3>6, Stopped
    <3> QED BY <2>1, <3>4, <3>5, <3>7
  <2>2. CASE ~wide.vmZeros
    <3>1. ~(s.vmZeros /\ s.vm % 10^(I + 1) = 0)
      <4>1. s.vm % 10^(I + 1) = 0 <=> s.vm % 10^I = 0 /\ (s.vm \div 10^I) % 10 = 0
        BY <1>1, <1>2, ZeroTail
      <4> QED BY <1>7, <2>2, <4>1
    <3>2. StopsAt(v, I)
      BY <1>5, <3>1, Stopped
    <3> QED BY <2>2, <3>2
  <2> QED BY <1>7, <2>1, <2>2
<1>9. PICK J \in 0..max_digits :
        /\ StopsAt(v, J)
        /\ (IF wide.vmZeros THEN R!CutZeros(wide) ELSE wide) = Level(s, J)
  BY <1>8
<1> HIDE DEF wide
<1> DEFINE t == Level(s, J)
           last == IF t.vrZeros /\ t.last = 5 /\ t.vr % 2 = 0 THEN 4 ELSE t.last
           up   == \/ t.vr = t.vm /\ (~R!acceptBounds(v) \/ ~t.vmZeros)
                   \/ last >= 5
<1>10. R!General(v, s) = <<t.vr + R!Bit(up), t.removed>>
  <2>1. (IF wide.vmZeros THEN R!CutZeros(wide) ELSE wide) = t
    BY <1>9
  <2> HIDE DEF t
  <2> DEFINE w == R!CutWhileWide(s)
  <2>2. (IF w.vmZeros THEN R!CutZeros(w) ELSE w) = t
    BY <1>6, <2>1
  <2> DEFINE u == IF w.vmZeros THEN R!CutZeros(w) ELSE w
             l == IF u.vrZeros /\ u.last = 5 /\ u.vr % 2 = 0 THEN 4 ELSE u.last
             p == \/ u.vr = u.vm /\ (~R!acceptBounds(v) \/ ~u.vmZeros)
                  \/ l >= 5
  <2>3. R!General(v, s) = <<u.vr + R!Bit(p), u.removed>>
    BY DEF R!General
  <2>4. u = t
    BY <2>2
  <2> HIDE DEF u
  <2> QED BY <2>3, <2>4
<1>11. t.removed = J /\ t.last \in 0..9 /\ t.vmZeros \in BOOLEAN /\ t.vrZeros \in BOOLEAN
       /\ (t.vmZeros <=> s.vmZeros /\ s.vm % 10^J = 0)
  BY <1>2, LevelFields
<1>12. R!acceptBounds(v) <=> BinSig(v) % 2 = 0
  BY RyuEnds
<1> HIDE DEF t
<1>13. up <=> RyuUp(t)
  <2>1. t.vmZeros => R!acceptBounds(v)
    BY <1>2, <1>11, <1>12
  <2>2. last >= 5 <=> t.last >= 5 /\ ~(t.vrZeros /\ t.last = 5 /\ t.vr % 2 = 0)
    <3>1. CASE t.vrZeros /\ t.last = 5 /\ t.vr % 2 = 0
      BY <3>1
    <3>2. CASE ~(t.vrZeros /\ t.last = 5 /\ t.vr % 2 = 0)
      <4>1. last = t.last
        BY <3>2
      <4> HIDE DEF last
      <4> QED BY <3>2, <4>1
    <3> QED BY <3>1, <3>2
  <2> HIDE DEF last
  <2> QED BY <2>1, <2>2 DEF RyuUp
<1> HIDE DEF up
<1>14. R!Bit(up) = R!Bit(RyuUp(t))
  BY <1>13 DEF R!Bit
<1>15. R!General(v, s) = <<RyuOut(s, J), J>>
  BY <1>10, <1>11, <1>14 DEF RyuOut, t
<1> QED BY <1>9, <1>15

(* So do those of the common case, two digits at a time first.             *)
LEMMA CommonIs ==
  ASSUME NEW v \in Ordinary, NEW s, ScaleRight(v, s), ~s.vmZeros, ~s.vrZeros
  PROVE  \E J : StopsAt(v, J) /\ R!Common(s) = <<RyuOut(s, J), J>>
<1>1. max_digits \in Nat /\ TensKnown(max_digits) /\ max_digits >= 3
  BY RyuTens, RyuDigitsKnown
<1>2. IsScaled(s) /\ s.vp < 10^max_digits
  BY RyuScaledFits DEF ScaleRight
<1>3. Level(s, 0) = s
  BY <1>2, LevelStart
<1> DEFINE two == IF s.vp \div 100 > s.vm \div 100 THEN R!Cut(R!Cut(s)) ELSE s
<1>4. \E i \in 0..max_digits : two = Level(s, i) /\ (i # 0 => Wide(s, i - 1))
  <2>1. CASE s.vp \div 100 > s.vm \div 100
    <3>1. R!Cut(Level(s, 0)) = Level(s, 0 + 1) /\ R!Cut(Level(s, 1)) = Level(s, 1 + 1)
      <4>1. 0 \in 0..max_digits /\ 1 \in 0..max_digits
        BY <1>1
      <4> QED BY <1>1, <1>2, <4>1, CutLevel
    <3>2. 0 + 1 = 1 /\ 1 + 1 = 2 /\ 2 - 1 = 1
      OBVIOUS
    <3>3. two = Level(s, 2)
      BY <1>3, <2>1, <3>1, <3>2
    <3>4. 10^2 = 100
      OBVIOUS
    <3>5. Wide(s, 2 - 1)
      BY <2>1, <3>2, <3>4 DEF Wide
    <3>6. 2 \in 0..max_digits
      BY <1>1
    <3> HIDE DEF two
    <3> QED BY <3>3, <3>5, <3>6
  <2>2. CASE ~(s.vp \div 100 > s.vm \div 100)
    <3>1. two = Level(s, 0) /\ 0 \in 0..max_digits
      BY <1>1, <1>3, <2>2
    <3> HIDE DEF two
    <3> QED BY <3>1
  <2> QED BY <2>1, <2>2
<1> HIDE DEF two
<1>5. PICK i \in 0..max_digits : two = Level(s, i) /\ (i # 0 => Wide(s, i - 1))
  BY <1>4
<1>6. PICK J \in i..max_digits : /\ R!CutWhileWide(Level(s, i)) = Level(s, J)
                                 /\ ~Wide(s, J)
                                 /\ J # i => Wide(s, J - 1)
  BY <1>1, <1>2, WideLoop
<1>7. J \in 0..max_digits
  BY <1>1
<1>8. J # 0 => Wide(s, J - 1)
  BY <1>5, <1>6
<1>9. StopsAt(v, J)
  BY <1>6, <1>7, <1>8, Stopped
<1> DEFINE t == Level(s, J)
<1>10. R!Common(s) = <<t.vr + R!Bit(t.vr = t.vm \/ t.last >= 5), t.removed>>
  <2>1. R!CutWhileWide(two) = t
    BY <1>5, <1>6
  <2> HIDE DEF t
  <2> QED BY <2>1 DEF R!Common, two
<1>11. t.removed = J /\ ~t.vmZeros /\ ~t.vrZeros
  BY DEF Level
<1> HIDE DEF t
<1>12. (t.vr = t.vm \/ t.last >= 5) <=> RyuUp(t)
  BY <1>11 DEF RyuUp
<1>13. R!Bit(t.vr = t.vm \/ t.last >= 5) = R!Bit(RyuUp(t))
  BY <1>12 DEF R!Bit
<1>14. R!Common(s) = <<RyuOut(s, J), J>>
  BY <1>10, <1>11, <1>13 DEF RyuOut, t
<1> QED BY <1>9, <1>14

(* d2d returns the rounded digits of the level where it stops.             *)
LEMMA D2dIs ==
  ASSUME NEW v \in Ordinary
  PROVE  \E J : /\ StopsAt(v, J)
                /\ R!d2d(v) = <<RyuOut(R!Scale(v), J), R!e10(v) + J>>
<1> DEFINE s == R!Scale(v)
           out == IF s.vmZeros \/ s.vrZeros THEN R!General(v, s) ELSE R!Common(s)
<1>1. ScaleRight(v, s)
  BY ScaleIs
<1>2. R!d2d(v) = <<out[1], R!e10(v) + out[2]>>
  BY DEF R!d2d
<1> HIDE DEF s
<1>3. PICK J : StopsAt(v, J) /\ out = <<RyuOut(s, J), J>>
  <2>1. CASE s.vmZeros \/ s.vrZeros
    <3>1. out = R!General(v, s)
      BY <2>1
    <3> QED BY <1>1, <3>1, GeneralIs
  <2>2. CASE ~(s.vmZeros \/ s.vrZeros)
    <3>1. out = R!Common(s)
      BY <2>2
    <3> QED BY <1>1, <2>2, <3>1, CommonIs
  <2> QED BY <2>1, <2>2
<1> HIDE DEF out
<1>4. out[1] = RyuOut(s, J) /\ out[2] = J
  BY <1>3
<1> QED BY <1>2, <1>3, <1>4 DEF s

-----------------------------------------------------------------------------
(* The digits returned are in the interval, and the nearest there.         *)

(* At least half of what was cut off the last place; "round even if the    *)
(* exact number is .....50..0".                                            *)
HalfUp(t) == t.last >= 5 /\ ~(t.vrZeros /\ t.last = 5 /\ t.vr % 2 = 0)

(* The value between the digits that remain and the next, at the scale.    *)
RyuMiddle(v) == (4 * BinSig(v)) * Twos(BinExp(v), R!e10(v))
RyuPlace(v, n) == n * Tens(BinExp(v), R!e10(v))

(* Places at the scale are ordered as the digits are.                      *)
LEMMA RyuPlaceOrder ==
  ASSUME NEW v \in Ordinary, NEW a \in Nat, NEW b \in Nat
  PROVE  /\ RyuPlace(v, a) \in Nat /\ RyuMiddle(v) \in Nat
         /\ a < b <=> RyuPlace(v, a) < RyuPlace(v, b)
         /\ a <= b <=> RyuPlace(v, a) <= RyuPlace(v, b)
<1> DEFINE e == R!e10(v)
           N == Twos(BinExp(v), e)
           T == Tens(BinExp(v), e)
<1>1. N \in Nat \ {0} /\ T \in Nat \ {0} /\ BinSig(v) \in Nat
  BY RyuFactors
<1> HIDE DEF N, T
<1>2. (a < b <=> a * T < b * T) /\ (a <= b <=> a * T <= b * T)
  BY <1>1, ProductOrder
<1>3. a * T \in Nat /\ (4 * BinSig(v)) * N \in Nat
  BY <1>1
<1> QED BY <1>2, <1>3 DEF RyuPlace, RyuMiddle, N, T, e

(* last and vrZeros decide on which side of the half the value is.         *)
LEMMA LevelRounds ==
  ASSUME NEW v \in Ordinary, NEW s, ScaleRight(v, s), NEW J \in 1..max_digits
  PROVE  LET t == Level(s, J)
             P == 10^J
             y == RyuMiddle(v)
         IN /\ t.vr \in Nat /\ P \in Nat \ {0} /\ t.vr * P \in Nat
            /\ RyuPlace(v, 4 * (t.vr * P)) <= y
            /\ y < RyuPlace(v, 4 * (t.vr * P) + 4 * P)
            /\ HalfUp(t) => RyuPlace(v, 4 * (t.vr * P) + 2 * P) <= y
            /\ ~HalfUp(t) => y <= RyuPlace(v, 4 * (t.vr * P) + 2 * P)
<1> DEFINE t == Level(s, J)
           P == 10^J
           Q == 10^(J - 1)
           y == RyuMiddle(v)
           w == t.vr
           a == w * P
           r == s.vr
           g == r \div Q
           f == r % Q
           b == Q * t.last
<1>1. IsScaled(s) /\ r \in Nat /\ s.vrZeros \in BOOLEAN
  BY DEF ScaleRight, IsScaled
<1>2. RyuPlace(v, 4 * r) <= y /\ y < RyuPlace(v, 4 * (r + 1))
      /\ (s.vrZeros => RyuPlace(v, 4 * r) = y)
  BY DEF ScaleRight, IsPart, RyuPlace, RyuMiddle
<1>3. w \in Nat /\ t.last \in 0..9 /\ t.vrZeros \in BOOLEAN
  <2>1. J \in 0..max_digits
    BY RyuTens
  <2> QED BY <1>1, <2>1, LevelFields
<1>4. P \in Nat \ {0} /\ Q \in Nat \ {0} /\ P = 10 * Q /\ P = Q * 10
  <2>1. max_digits \in Nat /\ TensKnown(max_digits)
    BY RyuTens
  <2>2. J - 1 \in 0..max_digits /\ (J - 1) + 1 = J
    BY <2>1
  <2>3. 10^(J - 1) \in Nat \ {0} /\ 10^((J - 1) + 1) \in Nat \ {0} /\ 10^((J - 1) + 1) = 10 * 10^(J - 1)
    BY <2>1, <2>2, TensOf
  <2>4. Q \in Nat \ {0} /\ P = 10 * Q /\ P \in Nat \ {0}
    BY <2>2, <2>3
  <2> HIDE DEF P, Q
  <2> QED BY <2>4
<1>5. w = r \div P /\ t.last = g % 10 /\ (t.vrZeros <=> s.vrZeros /\ f = 0)
  <2>1. J # 0
    OBVIOUS
  <2> QED BY <1>1, <2>1 DEF Level
<1> HIDE DEF P, Q, t, r
<1>6. g \in Nat /\ f \in 0 .. Q - 1 /\ r = Q * g + f
  BY <1>1, <1>4, Division
<1>7. w = g \div 10
  <2>1. (r \div Q) \div 10 = r \div (Q * 10)
    BY <1>1, <1>4, DivisionTwice
  <2> QED BY <1>4, <1>5, <2>1
<1> HIDE DEF g, f
<1>8. g = 10 * w + t.last
  <2>1. g = 10 * (g \div 10) + (g % 10)
    BY <1>6, Division
  <2> QED BY <1>5, <1>7, <2>1
<1>9. a \in Nat /\ b \in Nat /\ r = a + (b + f)
  <2>1. Q * (10 * w + t.last) = w * (Q * 10) + Q * t.last
    BY <1>3, <1>4
  <2>2. a \in Nat /\ b \in Nat
    BY <1>3, <1>4
  <2>3. Q * g = a + b
    BY <1>4, <1>8, <2>1
  <2> HIDE DEF a, b
  <2> QED BY <1>4, <1>6, <2>2, <2>3
<1>10. /\ t.last >= 5 => b >= 5 * Q
       /\ t.last = 5 => b = 5 * Q
       /\ t.last < 5 => b <= 4 * Q
       /\ b <= 9 * Q
  <2>1. t.last \in Nat
    BY <1>3
  <2>2. (5 <= t.last <=> 5 * Q <= t.last * Q) /\ (t.last <= 4 <=> t.last * Q <= 4 * Q)
        /\ (t.last <= 9 <=> t.last * Q <= 9 * Q)
    BY <1>4, <2>1, ProductOrder
  <2>3. t.last * Q = b
    BY <1>4, <2>1
  <2> HIDE DEF b
  <2>4. t.last = 5 => b = 5 * Q
    BY <2>3
  <2> QED BY <1>3, <2>2, <2>3, <2>4
<1>11. 4 * a <= 4 * r /\ 4 * (r + 1) <= 4 * a + 4 * P
  <2> HIDE DEF a, b
  <2> QED BY <1>1, <1>4, <1>6, <1>9, <1>10
<1>12. HalfUp(t) => 4 * a + 2 * P <= 4 * r
  <2>1. HalfUp(t) => t.last >= 5
    BY DEF HalfUp
  <2> HIDE DEF a, b
  <2> QED BY <1>1, <1>3, <1>4, <1>6, <1>9, <1>10, <2>1
<1>13. ~HalfUp(t) => 4 * (r + 1) <= 4 * a + 2 * P \/ (s.vrZeros /\ 4 * r = 4 * a + 2 * P)
  <2> SUFFICES ASSUME ~HalfUp(t)
               PROVE  4 * (r + 1) <= 4 * a + 2 * P \/ (s.vrZeros /\ 4 * r = 4 * a + 2 * P)
    OBVIOUS
  <2> HIDE DEF a, b
  <2>1. CASE t.last < 5
    BY <1>1, <1>3, <1>4, <1>6, <1>9, <1>10, <2>1
  <2>2. CASE ~(t.last < 5)
    <3>1. t.last >= 5
      BY <1>3, <2>2
    <3>2. t.vrZeros /\ t.last = 5
      BY <3>1 DEF HalfUp
    <3>3. s.vrZeros /\ f = 0
      BY <1>5, <3>2
    <3>4. 4 * r = 4 * a + 2 * P
      BY <1>1, <1>3, <1>4, <1>6, <1>9, <1>10, <3>2, <3>3
    <3> QED BY <3>3, <3>4
  <2> QED BY <2>1, <2>2
<1>14. /\ 4 * a \in Nat /\ 4 * r \in Nat /\ 4 * (r + 1) \in Nat
       /\ 4 * a + 2 * P \in Nat /\ 4 * a + 4 * P \in Nat /\ y \in Nat
  <2>1. y \in Nat
    BY RyuPlaceOrder
  <2> HIDE DEF a, y
  <2> QED BY <1>1, <1>4, <1>9, <2>1
<1> DEFINE A0 == 4 * a
           A2 == 4 * a + 2 * P
           A4 == 4 * a + 4 * P
           B0 == 4 * r
           B4 == 4 * (r + 1)
<1>15. A0 \in Nat /\ A2 \in Nat /\ A4 \in Nat /\ B0 \in Nat /\ B4 \in Nat
       /\ A0 <= B0 /\ B4 <= A4
       /\ (HalfUp(t) => A2 <= B0)
       /\ (~HalfUp(t) => B4 <= A2 \/ (s.vrZeros /\ B0 = A2))
       /\ RyuPlace(v, B0) <= y /\ y < RyuPlace(v, B4)
       /\ (s.vrZeros => RyuPlace(v, B0) = y)
  BY <1>2, <1>11, <1>12, <1>13, <1>14
<1> HIDE DEF A0, A2, A4, B0, B4, y
<1>16. /\ RyuPlace(v, A0) \in Nat /\ RyuPlace(v, A2) \in Nat /\ RyuPlace(v, A4) \in Nat
       /\ RyuPlace(v, B0) \in Nat /\ RyuPlace(v, B4) \in Nat
       /\ RyuPlace(v, A0) <= RyuPlace(v, B0)
       /\ RyuPlace(v, B4) <= RyuPlace(v, A4)
       /\ (A2 <= B0 => RyuPlace(v, A2) <= RyuPlace(v, B0))
       /\ (B4 <= A2 => RyuPlace(v, B4) <= RyuPlace(v, A2))
  BY <1>15, RyuPlaceOrder
<1>17. RyuPlace(v, A0) <= y /\ y < RyuPlace(v, A4)
       /\ (HalfUp(t) => RyuPlace(v, A2) <= y) /\ (~HalfUp(t) => y <= RyuPlace(v, A2))
  BY <1>14, <1>15, <1>16
<1> QED BY <1>3, <1>4, <1>9, <1>17 DEF A0, A2, A4, y, t, P

(* What is at least half a place below the value is in the interval only   *)
(* if the next place is too: the gap above is not the smaller one.         *)
LEMMA HalfInside ==
  ASSUME NEW v \in Ordinary, NEW a \in Nat, NEW P \in Nat \ {0},
         RoundTrips(v, a, R!e10(v)), RyuPlace(v, 4 * a + 2 * P) <= RyuMiddle(v)
  PROVE  RoundTrips(v, a + P, R!e10(v))
<1> DEFINE e == R!e10(v)
           c == BinSig(v)
           N == Twos(BinExp(v), e)
           T == Tens(BinExp(v), e)
           l == LowerQuarters(v)
           u == 4 * c + 2
           y == (4 * c) * N
           x == (4 * a) * T
           h == (2 * P) * T
           z == (4 * (a + P)) * T
           L == l * N
           H == u * N
<1>1. c \in Nat \ {0} /\ N \in Nat \ {0} /\ T \in Nat \ {0} /\ l \in Nat \ {0}
      /\ l < 4 * c /\ (l = 4 * c - 1 \/ l = 4 * c - 2)
  BY RyuFactors
<1>2. \A d \in Nat : RoundTrips(v, d, e) <=>
        IF c % 2 = 0 THEN L <= (4 * d) * T /\ (4 * d) * T <= H
                     ELSE L < (4 * d) * T /\ (4 * d) * T < H
  <2> SUFFICES ASSUME NEW d \in Nat
               PROVE  RoundTrips(v, d, e) <=>
                        IF c % 2 = 0 THEN L <= (4 * d) * T /\ (4 * d) * T <= H
                                     ELSE L < (4 * d) * T /\ (4 * d) * T < H
    OBVIOUS
  <2> HIDE DEF e
  <2> QED BY <1>1, RoundTripsInIntegers DEF c, N, T, l
<1>3. (4 * a + 2 * P) * T <= y
  BY DEF RyuPlace, RyuMiddle
<1> HIDE DEF c, N, T, l, e
<1>4. (4 * a + 2 * P) * T = x + h /\ z = x + (h + h) /\ x \in Nat /\ h \in Nat
  <2>1. (4 * a + 2 * P) * T = (4 * a) * T + (2 * P) * T
    BY <1>1
  <2>2. (4 * (a + P)) * T = (4 * a) * T + ((2 * P) * T + (2 * P) * T)
    BY <1>1
  <2>3. (4 * a) * T \in Nat /\ (2 * P) * T \in Nat
    BY <1>1
  <2> QED BY <2>1, <2>2, <2>3
<1>5. H = y + 2 * N /\ y <= L + 2 * N /\ y \in Nat /\ L \in Nat
  <2>1. u * N = (4 * c) * N + 2 * N
    BY <1>1
  <2>2. (4 * c - 1) * N = (4 * c) * N - N /\ (4 * c - 2) * N = (4 * c) * N - 2 * N
    BY <1>1
  <2>3. l = 4 * c - 1 => L = y - N
    BY <2>2
  <2>4. l = 4 * c - 2 => L = y - 2 * N
    BY <2>2
  <2>5. y \in Nat /\ L \in Nat
    BY <1>1
  <2> HIDE DEF y, L
  <2>6. y <= L + 2 * N
    BY <1>1, <2>3, <2>4, <2>5
  <2> QED BY <2>1, <2>5, <2>6 DEF y
<1> HIDE DEF x, h, z, y, L, H
<1>6. IF c % 2 = 0 THEN L <= x /\ x <= H ELSE L < x /\ x < H
  BY <1>2 DEF x, e
<1>7. x + h <= y
  BY <1>3, <1>4
<1>8. IF c % 2 = 0 THEN L <= z /\ z <= H ELSE L < z /\ z < H
  BY <1>1, <1>4, <1>5, <1>6, <1>7
<1>9. a + P \in Nat
  OBVIOUS
<1> QED BY <1>2, <1>8, <1>9 DEF z, e

(* The two reasons to round up.                                            *)
LEMMA OutIs ==
  ASSUME NEW s, IsScaled(s), NEW J \in 0..max_digits
  PROVE  LET t == Level(s, J)
         IN /\ RyuOut(s, J) \in Nat
            /\ RyuUp(t) <=> (t.vr = t.vm /\ ~t.vmZeros) \/ HalfUp(t)
            /\ RyuUp(t) => RyuOut(s, J) = t.vr + 1
            /\ ~RyuUp(t) => RyuOut(s, J) = t.vr
<1> DEFINE t == Level(s, J)
<1>1. t.vr \in Nat
  BY LevelFields
<1> HIDE DEF t
<1>2. RyuUp(t) <=> (t.vr = t.vm /\ ~t.vmZeros) \/ HalfUp(t)
  BY DEF RyuUp, HalfUp
<1>3. R!Bit(RyuUp(t)) = IF RyuUp(t) THEN 1 ELSE 0
  BY DEF R!Bit
<1>4. RyuOut(s, J) = t.vr + R!Bit(RyuUp(t))
  BY DEF RyuOut, t
<1>5. RyuUp(t) => RyuOut(s, J) = t.vr + 1
  BY <1>3, <1>4
<1>6. ~RyuUp(t) => RyuOut(s, J) = t.vr
  BY <1>1, <1>3, <1>4
<1>7. RyuOut(s, J) \in Nat
  BY <1>1, <1>5, <1>6
<1> QED BY <1>2, <1>5, <1>6, <1>7 DEF t

(* The ends of the interval stay around the value.                         *)
LEMMA LevelOrder ==
  ASSUME NEW v \in Ordinary, NEW s, ScaleRight(v, s), NEW J \in 0..max_digits
  PROVE  LET t == Level(s, J)
         IN /\ t.vm \in Nat /\ t.vr \in Nat /\ t.vp \in Nat
            /\ t.vm <= t.vr /\ t.vr <= t.vp
<1> DEFINE t == Level(s, J)
           P == 10^J
<1>1. IsScaled(s) /\ s.vm \in Nat /\ s.vr \in Nat /\ s.vp \in Nat /\ s.vm <= s.vr /\ s.vr <= s.vp
  BY DEF ScaleRight, IsScaled
<1>2. P \in Nat \ {0}
  <2>1. max_digits \in Nat /\ \A j \in 0 .. max_digits + 1 : 10^j \in Nat \ {0}
    BY RyuTens
  <2>2. J \in 0 .. max_digits + 1
    BY <2>1
  <2> QED BY <2>1, <2>2
<1>3. t.vm = s.vm \div P /\ t.vr = s.vr \div P /\ t.vp = s.vp \div P
  BY DEF Level
<1>4. t.vm \in Nat /\ t.vr \in Nat /\ t.vp \in Nat
  BY <1>1, LevelFields
<1> HIDE DEF t, P
<1>5. s.vm \div P <= s.vr \div P /\ s.vr \div P <= s.vp \div P
  BY <1>1, <1>2, DivisionMonotone
<1>6. t.vm <= t.vr /\ t.vr <= t.vp
  BY <1>3, <1>5
<1> QED BY <1>4, <1>6 DEF t

(* Where it may stop.                                                      *)
LEMMA StopsLevel ==
  ASSUME NEW v \in Ordinary, NEW J, StopsAt(v, J), J # 0
  PROVE  J \in 1..Spare(v) /\ J \in 1..max_digits /\ J \in 0..max_digits /\ J \in 0..Spare(v)
<1>1. Spare(v) \in 2..max_digits /\ J \in 0 .. Spare(v) - 1
  BY RyuScaled DEF StopsAt
<1>2. max_digits \in Nat
  BY RyuDigitsKnown
<1> QED BY <1>1, <1>2

(* Rounded, the digits stay in the interval.                               *)
LEMMA OutInside ==
  ASSUME NEW v \in Ordinary, NEW s, ScaleRight(v, s), NEW J, StopsAt(v, J), J # 0
  PROVE  RoundTrips(v, RyuOut(s, J), R!e10(v) + J)
<1> DEFINE t == Level(s, J)
           e == R!e10(v)
           P == 10^J
           o == RyuOut(s, J)
<1>1. J \in 1..Spare(v) /\ J \in 1..max_digits /\ J \in 0..max_digits /\ J \in 0..Spare(v)
  BY StopsLevel
<1>2. IsScaled(s)
  BY DEF ScaleRight
<1>3. t.vm \in Nat /\ t.vr \in Nat /\ t.vp \in Nat /\ t.vm <= t.vr /\ t.vr <= t.vp
  BY <1>1, LevelOrder
<1>4. \A d \in Nat : RoundTrips(v, d, e + J) <=>
        (t.vm < d \/ (d = t.vm /\ t.vmZeros)) /\ d <= t.vp
  BY <1>1, LevelInside
<1>5. PICK x \in Nat : RoundTrips(v, x, e + J)
  BY DEF StopsAt
<1>6. /\ o \in Nat
      /\ RyuUp(t) <=> (t.vr = t.vm /\ ~t.vmZeros) \/ HalfUp(t)
      /\ RyuUp(t) => o = t.vr + 1
      /\ ~RyuUp(t) => o = t.vr
  BY <1>1, <1>2, OutIs
<1>7. t.vmZeros \in BOOLEAN
  BY <1>1, <1>2, LevelFields
<1>8. \A d \in Nat : RoundTrips(v, d, e + J) <=> RoundTrips(v, d * P, e)
  BY <1>1, LevelRoundTrips
<1>9. /\ P \in Nat \ {0} /\ t.vr * P \in Nat
      /\ HalfUp(t) => RyuPlace(v, 4 * (t.vr * P) + 2 * P) <= RyuMiddle(v)
  BY <1>1, LevelRounds
<1> HIDE DEF t, e, o, P
<1>10. t.vr > t.vm \/ t.vmZeros => RoundTrips(v, t.vr, e + J)
  BY <1>3, <1>4
<1>11. CASE ~RyuUp(t)
  <2>1. t.vr > t.vm \/ t.vmZeros
    BY <1>3, <1>6, <1>11
  <2> QED BY <1>6, <1>10, <1>11, <2>1 DEF o, e
<1>12. CASE t.vr = t.vm /\ ~t.vmZeros
  <2>1. t.vm < x /\ x <= t.vp
    BY <1>4, <1>5, <1>12
  <2>2. o = t.vr + 1
    BY <1>6, <1>12
  <2>3. t.vm < o /\ o <= t.vp
    BY <1>3, <1>12, <2>1, <2>2
  <2> QED BY <1>4, <1>6, <2>3 DEF o, e
<1>13. CASE HalfUp(t) /\ ~(t.vr = t.vm /\ ~t.vmZeros)
  <2>1. RoundTrips(v, t.vr, e + J)
    BY <1>3, <1>10, <1>13
  <2> DEFINE a == t.vr * P
  <2>2. a \in Nat /\ RoundTrips(v, a, e) /\ RyuPlace(v, 4 * a + 2 * P) <= RyuMiddle(v)
    BY <1>3, <1>8, <1>9, <1>13, <2>1
  <2> HIDE DEF a
  <2>3. RoundTrips(v, a + P, e)
    BY <1>9, <2>2, HalfInside DEF e
  <2>4. (t.vr + 1) * P = a + P
    BY <1>3, <1>9 DEF a
  <2>5. RoundTrips(v, (t.vr + 1) * P, e)
    BY <2>3, <2>4
  <2>6. t.vr + 1 \in Nat /\ o = t.vr + 1
    BY <1>3, <1>6, <1>13
  <2> QED BY <1>8, <2>5, <2>6 DEF o, e
<1> QED BY <1>6, <1>11, <1>12, <1>13

(* The middle of the interval, at the level of the unit.                   *)
LEMMA LevelMiddle ==
  ASSUME NEW v \in Ordinary, NEW j \in 0..2, NEW b \in Nat
  PROVE  LET N == Twos(BinExp(v), R!e10(v) + j)
             T == Tens(BinExp(v), R!e10(v) + j)
             m == (4 * BinSig(v)) * N
         IN /\ N \in Nat \ {0} /\ T \in Nat \ {0}
            /\ b * T <= m <=> RyuPlace(v, b * 10^j) <= RyuMiddle(v)
            /\ m <= b * T <=> RyuMiddle(v) <= RyuPlace(v, b * 10^j)
<1> DEFINE e == R!e10(v)
           q == BinExp(v)
           a == 4 * BinSig(v)
           m == Spare(v) - 1
           N0 == Twos(q, e)
           T0 == Tens(q, e)
           N1 == Twos(q, e + 1)
           T1 == Tens(q, e + 1)
           N2 == Twos(q, e + 2)
           T2 == Tens(q, e + 2)
<1>1. Scalable(v, e + 1, m) /\ e \in Int /\ m \in Nat \ {0} /\ BinSig(v) \in Nat \ {0}
  BY RyuScaled, RyuFactors
<1>2. /\ e \in (e + 1) - 1 .. (e + 1) + m
      /\ e + 1 \in (e + 1) - 1 .. (e + 1) + m
      /\ (e + 1) + 1 = e + 2
  <2> HIDE DEF e, m
  <2> QED BY <1>1
<1>3. /\ N0 \in Nat \ {0} /\ T0 \in Nat \ {0} /\ N1 \in Nat \ {0} /\ T1 \in Nat \ {0}
      /\ T1 * N0 = 10 * (T0 * N1)
  <2> HIDE DEF e, m
  <2> QED BY <1>1, <1>2, ScaleFactors
<1>4. /\ N2 \in Nat \ {0} /\ T2 \in Nat \ {0}
      /\ T2 * N1 = 10 * (T1 * N2)
  <2> HIDE DEF e, m
  <2>1. /\ Twos(q, (e + 1) + 1) \in Nat \ {0} /\ Tens(q, (e + 1) + 1) \in Nat \ {0}
        /\ Tens(q, (e + 1) + 1) * Twos(q, e + 1) = 10 * (Tens(q, e + 1) * Twos(q, (e + 1) + 1))
    BY <1>1, <1>2, ScaleFactors
  <2> QED BY <1>2, <2>1
<1>5. a \in Nat /\ 10 * b \in Nat
  BY <1>1
<1>6. RyuMiddle(v) = a * N0 /\ \A n : RyuPlace(v, n) = n * T0
  BY DEF RyuMiddle, RyuPlace
<1>7. e + 0 = e /\ 10^0 = 1 /\ 10^1 = 10 /\ 10^2 = 100
  <2>1. e + 0 = e
    BY <1>1
  <2> QED BY <2>1
<1> SUFFICES LET N == Twos(q, e + j)
                 T == Tens(q, e + j)
             IN /\ N \in Nat \ {0} /\ T \in Nat \ {0}
                /\ b * T <= a * N <=> (b * 10^j) * T0 <= a * N0
                /\ a * N <= b * T <=> a * N0 <= (b * 10^j) * T0
  BY <1>6
<1> HIDE DEF q, a, m
<1>8. CASE j = 0
  <2>1. b * 10^j = b
    BY <1>7, <1>8
  <2> QED BY <1>3, <1>7, <1>8, <2>1
<1>9. CASE j = 1
  <2>1. b * 10^j = 10 * b
    BY <1>7, <1>9
  <2> HIDE DEF N0, T0, e
  <2>2. /\ a * N1 <= b * T1 <=> a * N0 <= (10 * b) * T0
        /\ b * T1 <= a * N1 <=> (10 * b) * T0 <= a * N0
    <3> HIDE DEF N1, T1
    <3> QED BY <1>3, <1>5, CrossScale
  <2> QED BY <1>3, <1>9, <2>1, <2>2
<1>10. CASE j = 2
  <2>1. b * 10^j = 10 * (10 * b)
    BY <1>7, <1>10
  <2> HIDE DEF N0, T0, e
  <2>2. /\ a * N2 <= b * T2 <=> a * N1 <= (10 * b) * T1
        /\ b * T2 <= a * N2 <=> (10 * b) * T1 <= a * N1
    <3> HIDE DEF N1, T1, N2, T2
    <3> QED BY <1>3, <1>4, <1>5, CrossScale
  <2> DEFINE d == 10 * b
  <2>3. /\ a * N1 <= d * T1 <=> a * N0 <= (10 * d) * T0
        /\ d * T1 <= a * N1 <=> (10 * d) * T0 <= a * N0
    <3>1. d \in Nat
      OBVIOUS
    <3> HIDE DEF N1, T1, d
    <3> QED BY <1>3, <1>5, <3>1, CrossScale
  <2> QED BY <1>4, <1>10, <2>1, <2>2, <2>3
<1> QED BY <1>8, <1>9, <1>10

(* Stopped at the unit, the digits are the nearest ones.                   *)
LEMMA OutClosest ==
  ASSUME NEW v \in Ordinary, NEW s, ScaleRight(v, s), NEW J \in 1..2, StopsAt(v, J),
         R!e10(v) + J = UscaleExp(v)
  PROVE  ClosestAt(v, RyuOut(s, J), UscaleExp(v))
<1> DEFINE t == Level(s, J)
           k == UscaleExp(v)
           P == 10^J
           w == t.vr
           o == RyuOut(s, J)
           N == Twos(BinExp(v), k)
           T == Tens(BinExp(v), k)
           m == (4 * BinSig(v)) * N
           a == (4 * w) * T
<1>1. J \in 1..Spare(v) /\ J \in 1..max_digits /\ J \in 0..max_digits /\ J \in 0..2 /\ J # 0
  <2>1. J # 0 /\ J \in 0..2
    OBVIOUS
  <2> QED BY <2>1, StopsLevel
<1>2. IsScaled(s)
  BY DEF ScaleRight
<1>3. Framed(v, k, ryu_digits)
  BY RyuFramed
<1>4. /\ w \in Nat /\ P \in Nat \ {0} /\ w * P \in Nat
      /\ RyuPlace(v, 4 * (w * P)) <= RyuMiddle(v)
      /\ RyuMiddle(v) < RyuPlace(v, 4 * (w * P) + 4 * P)
      /\ HalfUp(t) => RyuPlace(v, 4 * (w * P) + 2 * P) <= RyuMiddle(v)
      /\ ~HalfUp(t) => RyuMiddle(v) <= RyuPlace(v, 4 * (w * P) + 2 * P)
  BY <1>1, LevelRounds
<1>5. /\ o \in Nat
      /\ RyuUp(t) <=> (t.vr = t.vm /\ ~t.vmZeros) \/ HalfUp(t)
      /\ RyuUp(t) => o = w + 1
      /\ ~RyuUp(t) => o = w
  BY <1>1, <1>2, OutIs
<1>6. \A x \in Nat : RoundTrips(v, x, k) <=> (t.vm < x \/ (x = t.vm /\ t.vmZeros)) /\ x <= t.vp
  BY <1>1, LevelInside
<1>7. \A b \in Nat : /\ N \in Nat \ {0} /\ T \in Nat \ {0}
                     /\ b * T <= m <=> RyuPlace(v, b * P) <= RyuMiddle(v)
                     /\ m <= b * T <=> RyuMiddle(v) <= RyuPlace(v, b * P)
  BY <1>1, LevelMiddle
<1>8. t.vm \in Nat
  BY <1>1, LevelOrder
<1>9. BinSig(v) \in Nat
  BY RyuFactors
<1> HIDE DEF t, k, N, T, P, o
<1>10. /\ 4 * w \in Nat /\ 4 * w + 2 \in Nat /\ 4 * w + 4 \in Nat
       /\ (4 * w) * P = 4 * (w * P) /\ (4 * w + 2) * P = 4 * (w * P) + 2 * P
       /\ (4 * w + 4) * P = 4 * (w * P) + 4 * P
  BY <1>4
<1>11. N \in Nat \ {0} /\ T \in Nat \ {0} /\ m \in Nat /\ a \in Nat
       /\ (4 * w + 2) * T = a + 2 * T /\ (4 * w + 4) * T = a + 4 * T
       /\ (4 * (w + 1)) * T = a + 4 * T
  <2>1. N \in Nat \ {0} /\ T \in Nat \ {0}
    BY <1>7, <1>10
  <2> QED BY <1>4, <1>9, <2>1
<1>12. /\ a <= m
       /\ m <= a + 4 * T
       /\ HalfUp(t) => a + 2 * T <= m
       /\ ~HalfUp(t) => m <= a + 2 * T
  <2>1. RyuMiddle(v) \in Nat /\ RyuPlace(v, 4 * (w * P) + 4 * P) \in Nat
    <3>1. 4 * (w * P) + 4 * P \in Nat
      BY <1>4
    <3> QED BY <3>1, RyuPlaceOrder
  <2>2. RyuMiddle(v) <= RyuPlace(v, 4 * (w * P) + 4 * P)
    <3> DEFINE g == RyuMiddle(v)
               h == RyuPlace(v, 4 * (w * P) + 4 * P)
    <3>1. g \in Nat /\ h \in Nat /\ g < h
      BY <1>4, <2>1
    <3> HIDE DEF g, h
    <3>2. g <= h
      BY <3>1
    <3> QED BY <3>2 DEF g, h
  <2>3. a <= m
    BY <1>4, <1>7, <1>10
  <2>4. m <= (4 * w + 4) * T
    <3> DEFINE b == 4 * w + 4
    <3>1. b \in Nat /\ RyuMiddle(v) <= RyuPlace(v, b * P)
      BY <1>10, <2>2
    <3> HIDE DEF b, m
    <3>2. m <= b * T
      BY <1>7, <3>1
    <3> QED BY <3>2 DEF b
  <2>5. (HalfUp(t) => (4 * w + 2) * T <= m) /\ (~HalfUp(t) => m <= (4 * w + 2) * T)
    <3> DEFINE b == 4 * w + 2
    <3>1. b \in Nat /\ (HalfUp(t) => RyuPlace(v, b * P) <= RyuMiddle(v))
          /\ (~HalfUp(t) => RyuMiddle(v) <= RyuPlace(v, b * P))
      BY <1>4, <1>10
    <3> HIDE DEF b, m
    <3>2. (HalfUp(t) => b * T <= m) /\ (~HalfUp(t) => m <= b * T)
      BY <1>7, <3>1
    <3> QED BY <3>2 DEF b
  <2> HIDE DEF a, m
  <2> QED BY <1>11, <2>3, <2>4, <2>5
<1>13. Place(v, o, k) = (4 * o) * T /\ Middle(v, k) = m
  BY DEF Place, Middle, N, T
<1>14. CASE ~RyuUp(t)
  <2>1. Place(v, o, k) = a /\ ~HalfUp(t)
    BY <1>5, <1>13, <1>14
  <2> HIDE DEF a, m
  <2>2. a <= m + 2 * T /\ m <= a + 2 * T
    BY <1>11, <1>12, <2>1
  <2>3. IsNear(v, o, k)
    BY <1>13, <2>1, <2>2 DEF IsNear, T
  <2> QED BY <1>3, <1>5, <2>3, NearIsNearest DEF o, k
<1>15. CASE HalfUp(t)
  <2>1. o = w + 1
    BY <1>5, <1>15
  <2>2. Place(v, o, k) = a + 4 * T
    BY <1>11, <1>13, <2>1
  <2> HIDE DEF a, m
  <2>3. a + 4 * T <= m + 2 * T /\ m <= (a + 4 * T) + 2 * T
    BY <1>11, <1>12, <1>15
  <2>4. IsNear(v, o, k)
    BY <1>13, <2>2, <2>3 DEF IsNear, T
  <2> QED BY <1>3, <1>5, <2>4, NearIsNearest DEF o, k
<1>16. CASE t.vr = t.vm /\ ~t.vmZeros
  <2>1. o = w + 1
    BY <1>5, <1>16
  <2>2. Place(v, o, k) = a + 4 * T
    BY <1>11, <1>13, <2>1
  <2>3. Middle(v, k) <= Place(v, o, k)
    BY <1>12, <1>13, <2>2
  <2>4. \A x \in Nat : RoundTrips(v, x, k) => o <= x
    <3> SUFFICES ASSUME NEW x \in Nat, RoundTrips(v, x, k) PROVE o <= x
      OBVIOUS
    <3>1. t.vm < x
      BY <1>6, <1>16
    <3> QED BY <1>8, <1>16, <2>1, <3>1
  <2> HIDE DEF a, m
  <2> QED BY <1>3, <1>5, <2>3, <2>4, FirstAboveIsNearest DEF o, k
<1> QED BY <1>5, <1>14, <1>15, <1>16

-----------------------------------------------------------------------------
(* Where d2d stops early or late, the same decimal is found.               *)

(* Nothing removed: the scale is that of the unit already, and the value   *)
(* is exact there.                                                         *)
LEMMA ExactOut ==
  ASSUME NEW v \in Ordinary, NEW s, ScaleRight(v, s), R!e10(v) = UscaleExp(v)
  PROVE  /\ RyuOut(s, 0) \in Nat
         /\ RoundTrips(v, RyuOut(s, 0), UscaleExp(v))
         /\ ClosestAt(v, RyuOut(s, 0), UscaleExp(v))
<1> DEFINE k == UscaleExp(v)
           c == BinSig(v)
           N == Twos(BinExp(v), k)
           T == Tens(BinExp(v), k)
           l == LowerQuarters(v)
           u == 4 * c + 2
           r == s.vr
           o == RyuOut(s, 0)
           y == (4 * c) * N
<1>1. IsScaled(s) /\ r \in Nat /\ s.vm \in Nat /\ s.last = 0
  <2>1. /\ s.vr \in Nat /\ s.vm \in Nat
        /\ s = [vr |-> s.vr, vp |-> s.vp, vm |-> s.vm, removed |-> 0, last |-> 0,
                vrZeros |-> s.vrZeros, vmZeros |-> s.vmZeros]
    BY DEF ScaleRight, IsScaled
  <2>2. s.last = 0
    BY <2>1
  <2> QED BY <2>1, <2>2 DEF ScaleRight
<1>2. T = 1
  BY RyuLogAssumption
<1>3. c \in Nat \ {0} /\ N \in Nat \ {0} /\ l \in Nat \ {0} /\ l < 4 * c
  BY RyuFactors
<1>4. (4 * r) * T <= y /\ y < (4 * (r + 1)) * T /\ (4 * s.vm) * T < y
  BY DEF ScaleRight, IsPart
<1> HIDE DEF c, N, T, r, l, k
<1>5. (4 * r) * T = y /\ s.vm < r
  <2> DEFINE n == c * N
  <2>1. n \in Nat /\ y = 4 * n
    BY <1>3
  <2> HIDE DEF n, y
  <2> QED BY <1>1, <1>2, <1>4, <2>1
<1>6. Level(s, 0) = s /\ 0 \in 0..max_digits
  BY <1>1, LevelStart, RyuTens
<1>7. o = r
  <2>1. /\ RyuUp(s) <=> (s.vr = s.vm /\ ~s.vmZeros) \/ HalfUp(s)
        /\ ~RyuUp(s) => o = s.vr
    BY <1>1, <1>6, OutIs
  <2>2. ~HalfUp(s)
    BY <1>1 DEF HalfUp
  <2>3. s.vr # s.vm
    BY <1>1, <1>5 DEF r
  <2> QED BY <2>1, <2>2, <2>3 DEF r
<1> HIDE DEF o
<1>8. l * N < y /\ y < u * N /\ y \in Nat
  <2>1. 4 * c \in Nat /\ u \in Nat /\ 4 * c < u
    BY <1>3
  <2>2. l * N < (4 * c) * N /\ (4 * c) * N < u * N
    BY <1>3, <2>1, ProductOrder
  <2>3. (4 * c) * N \in Nat
    BY <1>3
  <2> QED BY <2>2, <2>3
<1>9. RoundTrips(v, r, k)
  <2>1. IF c % 2 = 0 THEN l * N <= (4 * r) * T /\ (4 * r) * T <= u * N
                     ELSE l * N < (4 * r) * T /\ (4 * r) * T < u * N
    <3> DEFINE a == l * N
               b == u * N
    <3>1. a \in Nat /\ b \in Nat /\ a < y /\ y < b
      BY <1>3, <1>8
    <3> HIDE DEF a, b, y
    <3>2. a <= y /\ y <= b
      BY <1>8, <3>1
    <3> QED BY <1>5, <3>1, <3>2 DEF a, b
  <2>2. RoundTrips(v, r, k) <=>
          IF c % 2 = 0 THEN l * N <= (4 * r) * T /\ (4 * r) * T <= u * N
                       ELSE l * N < (4 * r) * T /\ (4 * r) * T < u * N
    <3>1. T \in Nat \ {0}
      BY <1>2
    <3> QED BY <1>1, <1>3, <3>1, RoundTripsInIntegers DEF c, N, T, l
  <2> QED BY <2>1, <2>2
<1>10. IsNear(v, r, k)
  <2>1. Place(v, r, k) = y /\ Middle(v, k) = y
    BY <1>5 DEF Place, Middle, c, N, T
  <2> HIDE DEF y
  <2>2. y <= y + 2 * T
    BY <1>2, <1>8
  <2> QED BY <2>1, <2>2 DEF IsNear, T
<1>11. ClosestAt(v, r, k)
  BY <1>1, <1>10, RyuFramed, NearIsNearest DEF k
<1> QED BY <1>1, <1>7, <1>9, <1>11 DEF o, k

(* Whichever the level, d2d finds the best decimal.                        *)
LEMMA D2dBest ==
  ASSUME NEW v \in Ordinary
  PROVE  \E sig, z : /\ R!d2d(v) = <<sig, UscaleExp(v) + z>>
                   /\ GoodAnswer(v, sig, z, ryu_digits)
<1> DEFINE k == UscaleExp(v)
           e == R!e10(v)
           s == R!Scale(v)
           h == k - e
           m == Spare(v) - 1
<1>1. PICK J : StopsAt(v, J) /\ R!d2d(v) = <<RyuOut(s, J), e + J>>
  BY D2dIs
<1>2. ScaleRight(v, s) /\ IsScaled(s)
  BY ScaleIs DEF ScaleRight
<1>3. /\ k \in Int /\ e \in Int /\ h \in 0..2 /\ e + h = k
      /\ Spare(v) = ryu_digits + h /\ m \in Nat /\ m \in 1..max_digits
      /\ Scalable(v, e + 1, m)
  <2>1. /\ k \in Int /\ e \in Int /\ k - e \in 0..2
        /\ Spare(v) = ryu_digits + (k - e) /\ Spare(v) \in 2..max_digits
        /\ Scalable(v, e + 1, Spare(v) - 1)
    BY RyuScaled
  <2> HIDE DEF k, e
  <2>2. h \in 0..2 /\ e + h = k
    BY <2>1
  <2>3. m \in 1..max_digits /\ m \in Nat /\ m = Spare(v) - 1
    <3> DEFINE n == Spare(v)
    <3>1. n \in 2..max_digits /\ max_digits \in Nat
      BY <2>1, RyuDigitsKnown
    <3> HIDE DEF n
    <3>2. n - 1 \in 1..max_digits /\ n - 1 \in Nat
      BY <3>1
    <3> QED BY <3>2 DEF n
  <2> QED BY <2>1, <2>2, <2>3
<1>4. max_digits \in Nat /\ ryu_digits \in Nat
  BY RyuDigitsKnown
<1>5. J \in 0..m /\ J \in 0..max_digits
  <2>1. J \in 0..m
    BY <1>1 DEF StopsAt
  <2> HIDE DEF m
  <2> QED BY <1>3, <1>4, <2>1
<1> DEFINE o == RyuOut(s, J)
<1>6. o \in Nat
  BY <1>2, <1>5, OutIs
<1>7. \A n \in Nat : ~RoundTrips(v, n, e + (J + 1))
  BY <1>1 DEF StopsAt
<1>8. \A n \in Nat : RoundTrips(v, n, e + (J + 1)) <=> RoundTrips(v, 10 * n, e + J)
  <2> HIDE DEF e, m
  <2>1. e + J \in (e + 1) - 1 .. (e + 1) + m /\ (e + J) + 1 = e + (J + 1)
    BY <1>3, <1>5
  <2> DEFINE j == e + J
  <2>2. \A n \in Nat : RoundTrips(v, n, j + 1) <=> RoundTrips(v, 10 * n, j)
    <3>1. j \in (e + 1) - 1 .. (e + 1) + m
      BY <2>1
    <3> HIDE DEF j
    <3> QED BY <1>3, <3>1, ScaleOnce
  <2> QED BY <2>1, <2>2
<1>9. \A n \in Nat : ~RoundTrips(v, 10 * n, e + J)
  BY <1>7, <1>8
<1>10. Framed(v, k, ryu_digits)
  BY RyuFramed
<1> HIDE DEF s, o
<1>11. J >= h
  <2> SUFFICES ASSUME J < h PROVE FALSE
    BY <1>3, <1>5
  <2>1. PICK x \in Nat : RoundTrips(v, x, k)
    BY <1>10, OneInside
  <2> HIDE DEF k, e, m
  <2>2. CASE J + 1 = h
    <3>1. e + (J + 1) = k
      BY <1>3, <2>2
    <3> QED BY <1>7, <2>1, <3>1
  <2>3. CASE J + 1 # h
    <3>1. J = 0 /\ (e + (J + 1)) + 1 = k /\ e + (J + 1) \in (e + 1) - 1 .. (e + 1) + m
      BY <1>3, <1>5, <2>3
    <3> DEFINE j == e + (J + 1)
    <3>2. RoundTrips(v, x, j + 1) <=> RoundTrips(v, 10 * x, j)
      <4>1. j \in (e + 1) - 1 .. (e + 1) + m
        BY <3>1
      <4> HIDE DEF j
      <4> QED BY <1>3, <4>1, ScaleOnce
    <3>3. RoundTrips(v, 10 * x, j)
      BY <2>1, <3>1, <3>2
    <3>4. 10 * x \in Nat
      OBVIOUS
    <3> QED BY <1>7, <3>3, <3>4
  <2> QED BY <2>2, <2>3
<1>12. ASSUME RoundTrips(v, o, e + J) PROVE o % 10 # 0
  <2> SUFFICES ASSUME o % 10 = 0 PROVE FALSE
    OBVIOUS
  <2> DEFINE n == o \div 10
  <2>1. o = 10 * n /\ n \in Nat
    BY <1>6
  <2> HIDE DEF n, e
  <2> QED BY <1>9, <1>12, <2>1
<1>13. J # 0 => RoundTrips(v, o, e + J)
  BY <1>1, <1>2, OutInside DEF o
<1>14. CASE J = h
  <2>1. e + J = k /\ k + 0 = k
    BY <1>3, <1>14
  <2>2. RoundTrips(v, o, k) /\ ClosestAt(v, o, k)
    <3>1. CASE J = 0
      <4>1. e = k
        BY <1>3, <1>14, <3>1
      <4> QED BY <1>2, <3>1, <4>1, ExactOut DEF o
    <3>2. CASE J # 0
      <4>1. J \in 1..2
        BY <1>3, <1>14, <3>2
      <4>2. ClosestAt(v, o, k)
        BY <1>1, <1>2, <2>1, <4>1, OutClosest DEF o
      <4> QED BY <1>13, <2>1, <3>2, <4>2
    <3> QED BY <3>1, <3>2
  <2>3. \A n \in Nat : ~RoundTrips(v, 10 * n, k)
    BY <1>9, <2>1
  <2>4. GoodAnswer(v, o, 0, ryu_digits)
    BY <1>6, <1>10, <2>2, <2>3, PlainGood
  <2>5. R!d2d(v) = <<o, k + 0>>
    BY <1>1, <2>1 DEF o
  <2> QED BY <2>4, <2>5
<1>15. CASE J # h
  <2> DEFINE z == J - h
  <2>1. z \in 1..ryu_digits /\ k + z = e + J /\ J # 0
    <3> HIDE DEF k, e, m
    <3> DEFINE n == Spare(v)
    <3>1. n = ryu_digits + h /\ m = n - 1
      BY <1>3 DEF m
    <3> HIDE DEF h, n
    <3> QED BY <1>3, <1>4, <1>5, <1>11, <1>15, <3>1
  <2> HIDE DEF z
  <2>2. RoundTrips(v, o, k + z) /\ o % 10 # 0
    BY <1>12, <1>13, <2>1
  <2>3. GoodAnswer(v, o, z, ryu_digits)
    BY <1>6, <1>10, <2>1, <2>2, ShiftedGood
  <2>4. R!d2d(v) = <<o, k + z>>
    BY <1>1, <2>1 DEF o
  <2> QED BY <2>3, <2>4
<1> QED BY <1>14, <1>15

-----------------------------------------------------------------------------
(* Small integers.                                                         *)

(* Integers whose significand reaches the units.                           *)
RyuInt(v) == (implicit_bit + v.sig) \div 2^(exp_offset - v.exp)

(* The integer is the value, and it is short enough.                       *)
LEMMA SmallIntIs ==
  ASSUME NEW v \in Ordinary, R!IsSmallInt(v)
  PROVE  LET q == BinExp(v)
             m == RyuInt(v)
         IN /\ m \in Nat \ {0} /\ m < 10^ryu_digits
            /\ Twos(q, 0) = 1 /\ Tens(q, 0) \in Nat \ {0}
            /\ m * Tens(q, 0) = BinSig(v)
<1> DEFINE q == BinExp(v)
           p == exp_offset - v.exp
           c == BinSig(v)
           m == RyuInt(v)
           B == 2^p
           I == implicit_bit
<1>1. /\ v.exp - exp_offset \in -num_sig_bits..0
      /\ (I + v.sig) % B = 0
  BY RyuFields DEF R!IsSmallInt
<1>2. v.sig \in 0 .. I - 1 /\ v.exp \in 0..exp_mask /\ I \in Nat \ {0} /\ c \in 1 .. 2 * I - 1
  BY OrdinaryIs, WordIs
<1>3. exp_offset \in Int /\ exp_offset > num_sig_bits /\ num_sig_bits \in Nat
  <2>1. exp_mask \in Nat /\ exp_mask >= 2 /\ num_sig_bits \in Nat
    BY Widths, RyuWidthAssumption
  <2>2. exp_mask \div 2 \in Nat /\ exp_mask \div 2 >= 1
    BY <2>1
  <2> QED BY <2>1, <2>2 DEF exp_offset
<1>4. v.exp # 0 /\ p \in 0..num_sig_bits
  BY <1>1, <1>2, <1>3
<1>5. c = I + v.sig /\ q = -p
  <2>1. c = v.sig + I
    BY <1>4 DEF BinSig
  <2>2. q = v.exp - exp_offset
    BY <1>4 DEF BinExp
  <2> HIDE DEF c, q, I
  <2> QED BY <1>2, <1>3, <1>4, <2>1, <2>2
<1>6. B \in Nat \ {0}
  BY <1>4, RyuPowersAssumption DEF PowerAt
<1>7. m = c \div B /\ c % B = 0
  BY <1>1, <1>5 DEF RyuInt
<1> HIDE DEF c, B, m, I
<1>8. m \in Nat /\ c = B * m
  <2>1. c \div B \in Nat /\ c % B \in 0 .. B - 1 /\ c = B * (c \div B) + (c % B)
    <3>1. c \in Nat
      BY <1>2
    <3> QED BY <1>6, <3>1, Division
  <2> QED BY <1>2, <1>6, <1>7, <2>1
<1>9. m # 0
  <2> SUFFICES ASSUME m = 0 PROVE FALSE
    OBVIOUS
  <2> QED BY <1>2, <1>6, <1>8
<1>10. m <= c
  <2>1. 1 * m <= B * m <=> 1 <= B
    BY <1>6, <1>8, <1>9, ProductOrder
  <2> QED BY <1>6, <1>8, <2>1
<1>11. m < 10^ryu_digits
  <2>1. ryu_digits \in 1..max_digits /\ ryu_digits \in 0..ryu_digits
    BY RyuDigitsKnown
  <2>2. TensKnown(ryu_digits)
    BY <2>1, RyuDigitsKnown
  <2> DEFINE P == 10^ryu_digits
  <2>3. P \in Nat /\ 20 * I <= P
    BY <2>1, <2>2, TensOf, RyuWidthAssumption DEF I
  <2> HIDE DEF P
  <2>4. m < P
    BY <1>2, <1>8, <1>10, <2>3
  <2> QED BY <2>4 DEF P
<1>12. Twos(q, 0) = 1 /\ Tens(q, 0) = B
  <2> HIDE DEF q, p
  <2>1. q \in Int /\ p \in Nat /\ q + p = 0
    BY <1>3, <1>4, <1>5
  <2> QED BY <1>6, <2>1, UnitFactors DEF B
<1>13. m * B = c
  BY <1>6, <1>8
<1> QED BY <1>6, <1>8, <1>9, <1>11, <1>12, <1>13 DEF m, c, q

(* The loop takes all the zeros off.                                       *)
CutTo(f, m, n) ==
  \E sig \in Nat \ {0}, i \in 0..n :
    f[n] = <<sig, i>> /\ m = sig * 10^i /\ (sig % 10 = 0 => i = n)

(* The loop removes its zeros.                                             *)
LEMMA SmallIntLoop ==
  ASSUME NEW v \in Ordinary, R!IsSmallInt(v)
  PROVE  \E sig \in Nat \ {0}, i \in 0..max_digits :
           /\ R!d2d_small_int(v) = <<sig, i>>
           /\ RyuInt(v) = sig * 10^i
           /\ sig % 10 # 0
<1> DEFINE E == max_digits
           m == RyuInt(v)
           Eq(f) == f = [n \in 0..E |->
                          IF n = 0 THEN <<(implicit_bit + v.sig) \div 2^(exp_offset - v.exp), 0>>
                          ELSE LET u == f[n - 1]
                               IN IF u[1] % 10 = 0 THEN <<u[1] \div 10, n>> ELSE u]
           h == CHOOSE f : Eq(f)
<1>1. E \in Nat /\ TensKnown(E) /\ PowersUpTo(10, E)
      /\ \A j \in 0 .. E + 1 : 10^j \in Nat \ {0}
  BY RyuTens
<1>2. m \in Nat \ {0} /\ m < 10^ryu_digits
  BY SmallIntIs
<1>3. m < 10^E
  <2>1. ryu_digits \in 0..E /\ E \in 0..E /\ ryu_digits < E /\ ryu_digits \in 0 .. E + 1
        /\ E \in 0 .. E + 1
    BY <1>1, RyuDigitsKnown
  <2>2. \A a, b \in 0..E : a < b => 10 * 10^a <= 10^b /\ 10^a < 10^b
    BY <1>1, PowerOrder
  <2> DEFINE a == 10^ryu_digits
             b == 10^E
  <2>3. a \in Nat /\ b \in Nat /\ a < b /\ m < a
    BY <1>1, <1>2, <2>1, <2>2
  <2> HIDE DEF a, b, m
  <2>4. m < b
    BY <1>2, <2>3
  <2> QED BY <2>4 DEF b
<1> HIDE DEF E
<1>4. \E f : Eq(f)
  <2> DEFINE N2 == Nat \X Nat
             c == <<m, 0>>
             K == [x \in N2 \X Nat |-> IF x[1][1] % 10 = 0 THEN <<x[1][1] \div 10, x[2]>> ELSE x[1]]
  <2>1. c \in N2
    BY <1>2
  <2>2. K \in [N2 \X Nat -> N2]
    <3> SUFFICES ASSUME NEW x \in N2 \X Nat
                 PROVE  (IF x[1][1] % 10 = 0 THEN <<x[1][1] \div 10, x[2]>> ELSE x[1]) \in N2
      OBVIOUS
    <3>1. x[1] \in N2 /\ x[2] \in Nat /\ x[1][1] \in Nat
      OBVIOUS
    <3>2. x[1][1] \div 10 \in Nat
      BY <3>1
    <3> QED BY <3>1, <3>2
  <2>3. \A x \in N2, n \in Nat :
          K[<<x, n>>] = IF x[1] % 10 = 0 THEN <<x[1] \div 10, n>> ELSE x
    OBVIOUS
  <2> HIDE DEF N2, c, K
  <2>4. PICK f : IsRecursive(f, N2, c, K, E)
    BY <1>1, <2>1, <2>2, Recursion
  <2>5. /\ f \in [0..E -> N2]
        /\ f[0] = c
        /\ \A n \in 1..E : f[n] = K[<<f[n - 1], n>>]
    BY <2>4 DEF IsRecursive
  <2>6. \A n \in 0..E : f[n] = IF n = 0 THEN <<m, 0>>
                              ELSE LET u == f[n - 1]
                                   IN IF u[1] % 10 = 0 THEN <<u[1] \div 10, n>> ELSE u
    <3> SUFFICES ASSUME NEW n \in 0..E
                 PROVE  f[n] = IF n = 0 THEN <<m, 0>>
                               ELSE LET u == f[n - 1]
                                    IN IF u[1] % 10 = 0 THEN <<u[1] \div 10, n>> ELSE u
      OBVIOUS
    <3>1. CASE n = 0
      BY <2>5, <3>1 DEF c
    <3>2. CASE n # 0
      <4>1. n \in 1..E /\ n - 1 \in 0..E /\ n \in Nat
        BY <1>1, <3>2
      <4>2. f[n - 1] \in N2 /\ f[n] = K[<<f[n - 1], n>>]
        BY <2>5, <4>1
      <4> QED BY <2>3, <3>2, <4>1, <4>2
    <3> QED BY <3>1, <3>2
  <2>7. f = [n \in 0..E |-> f[n]]
    BY <2>5
  <2> HIDE DEF m
  <2>8. f = [n \in 0..E |-> IF n = 0 THEN <<m, 0>>
                           ELSE LET u == f[n - 1]
                                IN IF u[1] % 10 = 0 THEN <<u[1] \div 10, n>> ELSE u]
    BY <2>6, <2>7
  <2> QED BY <2>8 DEF m, RyuInt
<1>5. Eq(h)
  <2> HIDE DEF Eq
  <2> QED BY <1>4, Zenon
<1>6. R!d2d_small_int(v) = h[E]
  BY RyuFields DEF R!d2d_small_int, E
<1>7. h = [n \in 0..E |-> IF n = 0 THEN <<m, 0>>
                         ELSE LET u == h[n - 1]
                              IN IF u[1] % 10 = 0 THEN <<u[1] \div 10, n>> ELSE u]
  BY <1>5 DEF RyuInt
<1> HIDE DEF h, m
<1> DEFINE W == {n \in 0..E : CutTo(h, m, n)}
<1>8. 0 \in W
  <2>1. h[0] = <<m, 0>> /\ 0 \in 0..E /\ 0 \in 0..0
    BY <1>1, <1>7
  <2>2. 10^0 = 1
    OBVIOUS
  <2>3. m = m * 10^0
    BY <1>2, <2>2
  <2> QED BY <1>2, <2>1, <2>3 DEF CutTo
<1>9. \A n \in 0 .. E - 1 : n \in W => n + 1 \in W
  <2> SUFFICES ASSUME NEW n \in 0 .. E - 1, CutTo(h, m, n) PROVE n + 1 \in W
    OBVIOUS
  <2>1. PICK sig \in Nat \ {0}, i \in 0..n :
          h[n] = <<sig, i>> /\ m = sig * 10^i /\ (sig % 10 = 0 => i = n)
    BY DEF CutTo
  <2>2. n + 1 \in 0..E /\ n + 1 # 0 /\ (n + 1) - 1 = n /\ n \in 0..E /\ n \in 0 .. E + 1
    BY <1>1
  <2>3. h[n + 1] = LET u == h[n] IN IF u[1] % 10 = 0 THEN <<u[1] \div 10, n + 1>> ELSE u
    BY <1>7, <2>2
  <2>4. CASE sig % 10 = 0
    <3> DEFINE t == sig \div 10
               P == 10^n
    <3>1. sig = 10 * t /\ t \in Nat
      BY <2>4
    <3>2. t \in Nat \ {0}
      BY <3>1
    <3>3. h[n + 1] = <<t, n + 1>>
      BY <2>1, <2>3, <2>4
    <3>4. P \in Nat \ {0} /\ 10^(n + 1) = 10 * P /\ m = sig * P
      BY <1>1, <2>1, <2>2, <2>4, TensOf
    <3> HIDE DEF t, P
    <3>5. m = t * (10 * P)
      BY <3>1, <3>4
    <3>6. m = t * 10^(n + 1)
      BY <3>4, <3>5
    <3>7. n + 1 \in 0 .. n + 1
      BY <2>2
    <3>8. CutTo(h, m, n + 1)
      BY <3>2, <3>3, <3>6, <3>7 DEF CutTo
    <3> QED BY <2>2, <3>8
  <2>5. CASE sig % 10 # 0
    <3>1. h[n + 1] = <<sig, i>>
      BY <2>1, <2>3, <2>5
    <3>2. i \in 0 .. n + 1
      BY <2>2
    <3>3. CutTo(h, m, n + 1)
      BY <2>1, <2>5, <3>1, <3>2 DEF CutTo
    <3> QED BY <2>2, <3>3
  <2> QED BY <2>4, <2>5
<1>10. \A n \in 0..E : n \in W
  <2> HIDE DEF W
  <2> QED BY <1>1, <1>8, <1>9, IntervalInduction
<1>11. PICK sig \in Nat \ {0}, i \in 0..E :
         h[E] = <<sig, i>> /\ m = sig * 10^i /\ (sig % 10 = 0 => i = E)
  <2>1. E \in W
    BY <1>1, <1>10
  <2> QED BY <2>1 DEF CutTo
<1>12. sig % 10 # 0
  <2> SUFFICES ASSUME sig % 10 = 0 PROVE FALSE
    OBVIOUS
  <2> DEFINE P == 10^E
  <2>1. P \in Nat \ {0}
    <3>1. E \in 0 .. E + 1
      BY <1>1
    <3> QED BY <1>1, <3>1
  <2>2. m = sig * P /\ m < P
    BY <1>3, <1>11
  <2> HIDE DEF P
  <2>3. 1 * P <= sig * P <=> 1 <= sig
    BY <2>1, ProductOrder
  <2> QED BY <1>2, <2>1, <2>2, <2>3
<1> QED BY <1>6, <1>11, <1>12 DEF E, m

(* The value is that integer, and no other is in its interval.             *)
LEMMA SmallIntInside ==
  ASSUME NEW v \in Ordinary, R!IsSmallInt(v), NEW d \in Nat
  PROVE  RoundTrips(v, d, 0) <=> d = RyuInt(v)
<1> DEFINE c == BinSig(v)
           m == RyuInt(v)
           N == Twos(BinExp(v), 0)
           T == Tens(BinExp(v), 0)
           l == LowerQuarters(v)
           u == 4 * c + 2
           x == (4 * d) * T
           y == (4 * m) * T
<1>1. m \in Nat \ {0} /\ N = 1 /\ T \in Nat \ {0} /\ m * T = c
  BY SmallIntIs
<1>2. c \in Nat \ {0} /\ l \in Nat \ {0} /\ l < 4 * c /\ 4 * c - 2 <= l
  <2>1. c \in Nat \ {0} /\ l \in Nat \ {0} /\ l < 4 * c /\ (l = 4 * c - 1 \/ l = 4 * c - 2)
    BY RyuFactors
  <2> HIDE DEF c, l
  <2> QED BY <2>1
<1>3. RoundTrips(v, d, 0) <=>
        IF c % 2 = 0 THEN l * N <= x /\ x <= u * N ELSE l * N < x /\ x < u * N
  <2>1. N \in Nat \ {0}
    BY <1>1
  <2> QED BY <1>1, <1>2, <2>1, RoundTripsInIntegers DEF c, N, T, l
<1> HIDE DEF c, m, N, T, l
<1>4. l * N = l /\ u * N = 4 * c + 2 /\ u \in Nat
  BY <1>1, <1>2
<1>5. y = 4 * c /\ x \in Nat
  <2>1. y = 4 * (m * T)
    BY <1>1
  <2> QED BY <1>1, <2>1
<1>6. d < m => x + 4 <= y
  <2> SUFFICES ASSUME d < m PROVE x + 4 <= y
    OBVIOUS
  <2>1. d + 1 <= m /\ 4 * (d + 1) \in Nat /\ 4 * m \in Nat
    BY <1>1
  <2>2. (4 * (d + 1)) * T <= (4 * m) * T
    BY <1>1, <2>1, ProductOrder
  <2>3. (4 * (d + 1)) * T = x + 4 * T /\ 4 * T >= 4
    BY <1>1
  <2> HIDE DEF x, y
  <2> QED BY <1>1, <1>5, <2>2, <2>3 DEF y
<1>7. d > m => y + 4 <= x
  <2> SUFFICES ASSUME d > m PROVE y + 4 <= x
    OBVIOUS
  <2>1. m + 1 <= d /\ 4 * (m + 1) \in Nat /\ 4 * d \in Nat
    BY <1>1
  <2>2. (4 * (m + 1)) * T <= (4 * d) * T
    BY <1>1, <2>1, ProductOrder
  <2>3. (4 * (m + 1)) * T = y + 4 * T /\ 4 * T >= 4
    BY <1>1
  <2>4. y \in Nat
    BY <1>1
  <2> HIDE DEF x, y
  <2> QED BY <1>1, <1>5, <2>2, <2>3, <2>4 DEF x
<1>8. d = m => x = y
  OBVIOUS
<1> HIDE DEF x, y, u
<1>9. d < m \/ d = m \/ d > m
  BY <1>1
<1>10. RoundTrips(v, d, 0) <=> d = m
  <2>1. RoundTrips(v, d, 0) <=>
          IF c % 2 = 0 THEN l <= x /\ x <= 4 * c + 2 ELSE l < x /\ x < 4 * c + 2
    BY <1>3, <1>4
  <2> QED BY <1>1, <1>2, <1>5, <1>6, <1>7, <1>8, <1>9, <2>1
<1> QED BY <1>10 DEF m

(* An integer is nearest to itself.                                        *)
LEMMA SmallIntNear ==
  ASSUME NEW v \in Ordinary, R!IsSmallInt(v)
  PROVE  IsNear(v, RyuInt(v), 0)
<1> DEFINE c == BinSig(v)
           m == RyuInt(v)
           N == Twos(BinExp(v), 0)
           T == Tens(BinExp(v), 0)
           w == Place(v, m, 0)
<1>1. m \in Nat \ {0} /\ N = 1 /\ T \in Nat \ {0} /\ m * T = c
  BY SmallIntIs
<1>2. w = (4 * m) * T /\ Middle(v, 0) = (4 * c) * N
  BY DEF Place, Middle
<1> HIDE DEF c, m, N, T, w
<1>3. w = 4 * (m * T) /\ m * T \in Nat
  BY <1>1, <1>2
<1>4. w = Middle(v, 0) /\ w \in Nat
  BY <1>1, <1>2, <1>3
<1>5. w <= w + 2 * T
  BY <1>1, <1>4
<1> QED BY <1>4, <1>5 DEF IsNear, w, m, T

(* The early answer is the best decimal too.                               *)
LEMMA SmallIntBest ==
  ASSUME NEW v \in Ordinary, R!IsSmallInt(v)
  PROVE  \E sig, z : /\ R!d2d_small_int(v) = <<sig, UscaleExp(v) + z>>
                   /\ GoodAnswer(v, sig, z, ryu_digits)
<1> DEFINE k == UscaleExp(v)
           M == ryu_digits
           m == RyuInt(v)
           a == 0 - k
<1>1. Framed(v, k, M) /\ Scalable(v, k, M) /\ TensKnown(M)
  BY RyuFramed DEF Framed, Scalable
<1>2. k \in -M .. 0 /\ M \in Nat \ {0} /\ k \in Int
  BY RyuLogAssumption, RyuDigitsKnown, UscaleLogAssumption
<1>3. PICK sig \in Nat \ {0}, i \in 0..max_digits :
        /\ R!d2d_small_int(v) = <<sig, i>>
        /\ m = sig * 10^i
        /\ sig % 10 # 0
  BY SmallIntLoop
<1>4. m \in Nat \ {0}
  BY SmallIntIs
<1>5. RoundTrips(v, m, 0) /\ (\A d \in Nat : RoundTrips(v, d, 0) => d = m)
  <2>1. \A d \in Nat : RoundTrips(v, d, 0) <=> d = m
    BY SmallIntInside
  <2> HIDE DEF m
  <2> QED BY <1>4, <2>1
<1> HIDE DEF k, M, m
<1>6. a \in 0..M /\ k + a = 0 /\ i \in Nat
  BY <1>2, <1>3
<1> HIDE DEF a
<1> DEFINE p == 10^a
           r == 10^i
           d == m * p
<1>7. p \in Nat \ {0} /\ r \in Nat \ {0} /\ PowersUpTo(10, max_digits) /\ max_digits \in Nat
      /\ M + 2 = max_digits
  <2>1. p \in Nat \ {0}
    BY <1>1, <1>6, TensOf
  <2>2. /\ max_digits \in Nat /\ PowersUpTo(10, max_digits)
        /\ \A j \in 0 .. max_digits + 1 : 10^j \in Nat \ {0}
    BY RyuTens
  <2>3. i \in 0 .. max_digits + 1
    BY <1>3, <2>2
  <2>4. M + 2 = max_digits
    BY RyuDigitsKnown DEF M
  <2> QED BY <2>1, <2>2, <2>3, <2>4
<1>8. d \in Nat
  <2> HIDE DEF p
  <2> QED BY <1>4, <1>7
<1>9. RoundTrips(v, d, k)
  <2>1. RoundTrips(v, m, k + a) <=> RoundTrips(v, m * 10^a, k)
    BY <1>1, <1>4, <1>6, ScaleRoundTrips
  <2>2. RoundTrips(v, m, k + a)
    BY <1>5, <1>6
  <2> QED BY <2>1, <2>2
<1>10. d < 10^M
  <2> HIDE DEF d
  <2>1. d \in 1 .. 10^M - 1
    BY <1>1, <1>8, <1>9, InsideBound
  <2> DEFINE P == 10^M
  <2>2. P \in Nat
    <3>1. M \in 0..M
      BY <1>2
    <3> QED BY <1>1, <3>1, TensOf
  <2> HIDE DEF P
  <2>3. d < P
    BY <1>8, <2>1, <2>2 DEF P
  <2> QED BY <2>3 DEF P
<1> DEFINE z == i + a
<1>11. z < M
  <2> SUFFICES ASSUME ~(z < M) PROVE FALSE
    OBVIOUS
  <2> DEFINE n == M - a
             g == 10^n
  <2>1. n \in 0..M /\ n + a = M /\ n <= i /\ n \in 0..max_digits /\ i \in 0..max_digits /\ n \in Nat
    BY <1>2, <1>6, <1>7
  <2>2. g \in Nat \ {0}
    <3> HIDE DEF n
    <3> QED BY <1>1, <2>1, TensOf
  <2>3. g <= r
    <3> HIDE DEF n
    <3>1. \A b, c \in 0..max_digits : b < c => 10 * 10^b <= 10^c /\ 10^b < 10^c
      BY <1>7, PowerOrder
    <3>2. n < i \/ n = i
      BY <2>1
    <3>3. n < i => g < r
      BY <2>1, <3>1
    <3>4. n = i => g = r
      OBVIOUS
    <3> HIDE DEF g, r
    <3> QED BY <1>7, <2>2, <3>2, <3>3, <3>4
  <2>4. 10^M = g * p
    <3> HIDE DEF n
    <3>1. n + a <= M + 1
      BY <1>2, <2>1
    <3>2. 10^(n + a) = 10^n * 10^a
      BY <1>1, <1>6, <2>1, <3>1, TensSum
    <3> QED BY <2>1, <3>2
  <2>5. m = sig * r
    BY <1>3
  <2> HIDE DEF g, r, p
  <2>6. r <= m
    <3>1. 1 * r <= sig * r <=> 1 <= sig
      BY <1>7, ProductOrder
    <3> QED BY <1>7, <2>5, <3>1
  <2>7. g <= m
    BY <1>4, <1>7, <2>2, <2>3, <2>6
  <2>8. g * p <= m * p
    BY <1>4, <1>7, <2>2, <2>7, ProductOrder
  <2>9. g * p \in Nat
    BY <1>7, <2>2
  <2> QED BY <1>8, <1>10, <2>4, <2>8, <2>9
<1>12. z \in 0..M /\ k + z = i /\ z \in Nat /\ i + a <= M + 1
  BY <1>2, <1>6, <1>11
<1>13. sig * 10^z = d
  <2>1. 10^(i + a) = 10^i * 10^a
    BY <1>1, <1>6, <1>12, TensSum
  <2>2. m = sig * r
    BY <1>3
  <2>3. 10^z = r * p
    BY <2>1
  <2> HIDE DEF z, r, p
  <2>4. sig * (r * p) = (sig * r) * p
    BY <1>7
  <2> QED BY <2>2, <2>3, <2>4
<1> HIDE DEF z, d
<1>14. RoundTrips(v, sig, k + z)
  <2>1. RoundTrips(v, sig, k + z) <=> RoundTrips(v, sig * 10^z, k)
    BY <1>1, <1>12, ScaleRoundTrips
  <2> QED BY <1>9, <1>13, <2>1
<1>15. GoodAnswer(v, sig, z, M)
  <2>1. CASE z = 0
    <3>1. i = 0 /\ a = 0 /\ k = 0
      BY <1>2, <1>6, <2>1 DEF z
    <3>2. 10^0 = 1
      OBVIOUS
    <3>3. m = sig
      BY <1>3, <3>1, <3>2
    <3>4. RoundTrips(v, sig, k)
      BY <1>5, <3>1, <3>3
    <3>5. IsNear(v, sig, k)
      BY <3>1, <3>3, SmallIntNear DEF m
    <3>6. ClosestAt(v, sig, k)
      BY <1>1, <3>5, NearIsNearest
    <3>7. \A n \in Nat : ~RoundTrips(v, 10 * n, k)
      <4> SUFFICES ASSUME NEW n \in Nat, RoundTrips(v, 10 * n, k) PROVE FALSE
        OBVIOUS
      <4>1. 10 * n \in Nat
        OBVIOUS
      <4>2. 10 * n = sig
        BY <1>5, <3>1, <3>3, <4>1
      <4>3. (10 * n) % 10 = 0
        OBVIOUS
      <4> QED BY <1>3, <4>2, <4>3
    <3>8. GoodAnswer(v, sig, 0, M)
      BY <1>1, <3>4, <3>6, <3>7, PlainGood DEF k
    <3> QED BY <2>1, <3>8
  <2>2. CASE z # 0
    <3>1. z \in 1..M
      BY <1>2, <1>12, <2>2
    <3> QED BY <1>1, <1>3, <1>14, <3>1, ShiftedGood DEF k
  <2> QED BY <2>1, <2>2
<1>16. R!d2d_small_int(v) = <<sig, k + z>>
  BY <1>3, <1>12
<1> QED BY <1>15, <1>16 DEF k, M

-----------------------------------------------------------------------------
(* The text, and the theorem.                                              *)

(* Early or not, the answer is the best one.                               *)
LEMMA RyuBest ==
  ASSUME NEW v \in Ordinary
  PROVE  \E sig, z : /\ (IF R!IsSmallInt(v) THEN R!d2d_small_int(v) ELSE R!d2d(v))
                          = <<sig, UscaleExp(v) + z>>
                   /\ GoodAnswer(v, sig, z, ryu_digits)
<1>1. CASE R!IsSmallInt(v)
  BY <1>1, SmallIntBest
<1>2. CASE ~R!IsSmallInt(v)
  BY <1>2, D2dBest
<1> QED BY <1>1, <1>2

(* The length of the answer is found.                                      *)
LEMMA DecimalLengthIs ==
  ASSUME NEW x \in 1 .. 10^ryu_digits - 1
  PROVE  LET L == R!decimalLength17(x)
         IN L \in 1..ryu_digits /\ HasLength(x, L)
<1> DEFINE M == ryu_digits
           E == max_digits
           L == R!decimalLength17(x)
           Fits(n) == 10^(n - 1) <= x /\ x < 10^n
<1>1. /\ E \in Nat /\ PowersUpTo(10, E)
      /\ \A j \in 0 .. E + 1 : 10^j \in Nat \ {0}
  BY RyuTens
<1>2. M \in Nat /\ M >= 2 /\ E = M + 2
  BY RyuDigitsKnown
<1> HIDE DEF M, E
<1>3. \A j \in 0..E : 10^j \in Nat \ {0}
  BY <1>1
<1>4. x \in Nat /\ x >= 1 /\ x < 10^M
  <2> DEFINE P == 10^M
  <2>1. P \in Nat
    BY <1>2, <1>3
  <2>2. x \in 1 .. P - 1
    BY DEF M
  <2> HIDE DEF P
  <2>3. x \in Nat /\ x >= 1 /\ x < P
    BY <2>1, <2>2
  <2> QED BY <2>3 DEF P
<1> DEFINE W == {n \in Nat : n \in 0..M /\ x < 10^n}
<1>5. PICK n \in W : \A i \in W : n <= i
  <2>1. M \in W
    BY <1>2, <1>4
  <2>2. W \subseteq Nat /\ W # {}
    BY <2>1
  <2> HIDE DEF W
  <2> QED BY <2>2, LeastNatural
<1>6. n \in 0..M /\ x < 10^n
  BY <1>5
<1>7. n # 0
  <2> SUFFICES ASSUME n = 0 PROVE FALSE
    OBVIOUS
  <2>1. 10^0 = 1
    OBVIOUS
  <2> QED BY <1>4, <1>6, <2>1
<1>8. n \in 1..E /\ n - 1 \in 0..E /\ n - 1 \in 0..M /\ n - 1 \in Nat /\ ~(n <= n - 1)
  BY <1>2, <1>6, <1>7
<1>9. 10^(n - 1) <= x
  <2>1. n - 1 \notin W
    BY <1>5, <1>8
  <2> DEFINE P == 10^(n - 1)
  <2>2. P \in Nat /\ ~(x < P)
    BY <1>3, <1>8, <2>1
  <2> HIDE DEF P
  <2>3. P <= x
    BY <1>4, <2>2
  <2> QED BY <2>3 DEF P
<1>10. \E i \in 1..E : Fits(i)
  BY <1>6, <1>8, <1>9
<1>11. L \in 1..E /\ Fits(L)
  <2>1. L = CHOOSE i \in 1..E : Fits(i)
    BY DEF R!decimalLength17, E
  <2> HIDE DEF L, Fits
  <2> QED BY <1>10, <2>1
<1> HIDE DEF L
<1>12. L - 1 < M
  <2> SUFFICES ASSUME ~(L - 1 < M) PROVE FALSE
    OBVIOUS
  <2>1. M \in 0..E /\ L - 1 \in 0..E /\ (M < L - 1 \/ M = L - 1)
    BY <1>2, <1>11
  <2>2. \A a, b \in 0..E : a < b => 10 * 10^a <= 10^b /\ 10^a < 10^b
    BY <1>1, PowerOrder
  <2> DEFINE P == 10^M
             Q == 10^(L - 1)
  <2>3. P \in Nat /\ Q \in Nat /\ (P < Q \/ P = Q) /\ Q <= x /\ x < P
    BY <1>3, <1>4, <1>11, <2>1, <2>2
  <2> HIDE DEF P, Q
  <2> QED BY <1>4, <2>3
<1>13. L \in 1..M
  BY <1>2, <1>11, <1>12
<1> QED BY <1>11, <1>13 DEF HasLength, L, M

(* Its text is written as its digits and its exponent.                     *)
LEMMA RyuTextIs ==
  ASSUME NEW v \in Ordinary, NEW sig, NEW z,
         (IF R!IsSmallInt(v) THEN R!d2d_small_int(v) ELSE R!d2d(v)) = <<sig, UscaleExp(v) + z>>
  PROVE  R!d2s_buffered_n(v) = AnswerText(v, sig, z, R!decimalLength17(sig))
<1> DEFINE d == IF R!IsSmallInt(v) THEN R!d2d_small_int(v) ELSE R!d2d(v)
           e == UscaleExp(v) + z
           L == R!decimalLength17(sig)
<1>1. ~(R!IsSpecial(v) \/ R!IsZero(v))
  BY OrdinaryIs, RyuFields DEF IsOrdinary
<1>2. R!d2s_buffered_n(v) =
        [negative |-> v.negative,
         digits   |-> [i \in 1 .. R!decimalLength17(d[1]) |->
                         (d[1] \div 10^(R!decimalLength17(d[1]) - i)) % 10],
         exp      |-> d[2] + R!decimalLength17(d[1]) - 1]
  BY <1>1 DEF R!d2s_buffered_n
<1> HIDE DEF d, e
<1>3. d[1] = sig /\ d[2] = e
  BY DEF d, e
<1>4. R!d2s_buffered_n(v) = [negative |-> v.negative,
                             digits   |-> [i \in 1..L |-> (sig \div 10^(L - i)) % 10],
                             exp      |-> e + L - 1]
  BY <1>2, <1>3
<1> QED BY <1>4 DEF DigitPlaces, AnswerText, e

(* The text is the shortest that identifies the value and, of those, the   *)
(* closest.                                                                *)
LEMMA RyuTextAcceptable ==
  ASSUME NEW v \in Ordinary
  PROVE  LET t == R!d2s_buffered_n(v)
         IN /\ RoundTrips(v, DigitsValue(t.digits), t.exp - (Len(t.digits) - 1))
            /\ ~IsSmallest(v) => C!Acceptable(v, t)
<1> DEFINE M == ryu_digits
<1>1. PICK sig, z : /\ (IF R!IsSmallInt(v) THEN R!d2d_small_int(v) ELSE R!d2d(v))
                         = <<sig, UscaleExp(v) + z>>
                    /\ GoodAnswer(v, sig, z, M)
  BY RyuBest
<1> DEFINE L == R!decimalLength17(sig)
<1>2. R!d2s_buffered_n(v) = AnswerText(v, sig, z, L)
  BY <1>1, RyuTextIs
<1>3. TensKnown(M) /\ Scalable(v, UscaleExp(v), M)
  BY RyuFramed DEF Framed, Scalable
<1>4. sig \in 1 .. 10^M - 1
  BY <1>1, <1>3, AnswerSmall
<1>5. L \in 1..M /\ HasLength(sig, L)
  BY <1>4, DecimalLengthIs
<1> HIDE DEF L, M
<1> QED BY <1>1, <1>2, <1>3, <1>5, AnswerAcceptable

-----------------------------------------------------------------------------
(* ryu's text, in the same way.                                            *)
RyuInv ==
  /\ value \in Arguments \cup {NoValue}
  /\ RyuShortest

(* The invariant holds at first, ...                                       *)
LEMMA InitRyuInv == Init => RyuInv
BY DEF Init, RyuInv, RyuShortest, Answered

(* ... the step of ryu establishes it, ...                                 *)
LEMMA RyuStep ==
  ASSUME RyuInv, RyuWrites
  PROVE  RyuInv'
<1>1. value \in Arguments /\ value' = value /\ text' = R!d2s_buffered_n(value)
  BY DEF RyuInv, RyuWrites, Busy
<1>2. ASSUME Answered("ryu")' PROVE ShortestAbove(value, text)'
  <2>1. value \in Ordinary
    BY <1>1, <1>2 DEF Answered, Ordinary
  <2>2. /\ RoundTrips(value', DigitsValue(text'.digits), text'.exp - (Len(text'.digits) - 1))
        /\ ~IsSmallest(value') => C!Acceptable(value', text')
    BY <1>1, <2>1, RyuTextAcceptable
  <2> QED BY <2>2 DEF ShortestAbove, ReadsBack
<1> QED BY <1>1, <1>2 DEF RyuInv, RyuShortest

(* ... and the steps of the others keep it.                                *)
LEMMA NextRyuInv == RyuInv /\ [Next]_vars => RyuInv'
<1> SUFFICES ASSUME RyuInv, [Next]_vars PROVE RyuInv'
  OBVIOUS
<1>1. ASSUME value' \in Arguments \cup {NoValue}, ~Answered("ryu")'
      PROVE  RyuInv'
  BY <1>1 DEF RyuInv, RyuShortest
<1>2. ASSUME method # "ryu", method' = method, value' = value PROVE RyuInv'
  BY <1>1, <1>2 DEF RyuInv, Answered
<1>3. ASSUME text' = text, method' = method, value' = value PROVE RyuInv'
  BY <1>3 DEF RyuInv, RyuShortest, Answered, ShortestAbove, ReadsBack
<1>4. CASE Call
  BY <1>1, <1>4 DEF Call, Answered
<1>5. CASE UscaleWrites
  BY <1>2, <1>5 DEF UscaleWrites, Busy
<1>6. CASE RyuWrites
  BY <1>6, RyuStep
<1>7. CASE MiloWrites
  BY <1>2, <1>7 DEF MiloWrites, Busy
<1>8. CASE DragonboxWrites
  BY <1>2, <1>8 DEF DragonboxWrites, Busy
<1>9. CASE FmtWrites
  BY <1>2, <1>9 DEF FmtWrites, Busy
<1>10. CASE ZmijWrites
  BY <1>2, <1>10 DEF ZmijWrites, Busy
<1>11. CASE XjbWrites
  BY <1>2, <1>11 DEF XjbWrites, Busy
<1>12. CASE YyWrites
  BY <1>2, <1>12 DEF YyWrites, Busy
<1>13. CASE DoubleConversionWrites
  BY <1>2, <1>13 DEF DoubleConversionWrites, Busy
<1>14. CASE AsteriaWrites
  BY <1>2, <1>14 DEF AsteriaWrites, Busy
<1>15. CASE Snprintf
  BY <1>1, <1>15 DEF Snprintf, Answered, RyuInv
<1>16. CASE FromChars
  BY <1>3, <1>16 DEF FromChars
<1>17. CASE Return
  BY <1>1, <1>17 DEF Return, Answered
<1>18. CASE UNCHANGED vars
  BY <1>3, <1>18 DEF vars
<1> QED BY <1>4, <1>5, <1>6, <1>7, <1>8, <1>9, <1>10, <1>11, <1>12, <1>13, <1>14,
           <1>15, <1>16, <1>17, <1>18 DEF Next

(* The text ryu writes (src/ryu/d2s.c:148-372) is the shortest decimal     *)
(* that identifies the value and, of those, the closest, whichever of its  *)
(* two loops has removed the digits; for the smallest double of the format *)
(* it identifies the value.                                                *)
THEOREM AlwaysRyuShortest == Spec => []RyuShortest
<1>1. RyuInv => RyuShortest
  BY DEF RyuInv
<1> QED BY <1>1, InitRyuInv, NextRyuInv, PTL DEF Spec
=============================================================================
