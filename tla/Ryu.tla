-------------------------------- MODULE Ryu --------------------------------
(***************************************************************************)
(* Ryu (src/ryu/d2s.c).  The value and the two ends of its rounding        *)
(* interval are scaled by a power of ten that keeps at least one digit too *)
(* many, each rounded down; digits are then removed from the three of them *)
(* together until removing one more would make the interval empty.  Two    *)
(* flags remember whether what was cut off the value and off the lower end *)
(* was exactly zero.  Integers below the first that needs no fraction bits *)
(* are taken apart beforehand.                                             *)
(***************************************************************************)
EXTENDS BinaryFloat

CONSTANTS
  DOUBLE_POW5_INV_BITCOUNT,
  DOUBLE_POW5_BITCOUNT,
  DOUBLE_POW5_INV_SPLIT,   \* q |-> the inverse of 5^q, rounded up, low word first
  DOUBLE_POW5_SPLIT,       \* i |-> the leading bits of 5^i, low word first
  pow5_word,               \* 64: bits of the words of the tables
  max_pow5_tested,         \* 21: largest power of five tested for divisibility
  max_pow2_tested,         \* 63: shifts below it fit the word
  max_digits               \* 19: digits of the longest scaled value

(* What the parameters have to satisfy. *)
RyuParameters ==
  /\ num_sig_bits \in Nat \ {0}
  /\ exp_mask \in Nat \ {0}
  /\ max_digits \in Nat \ {0}
  /\ max_pow5_tested \in Nat /\ max_pow2_tested \in Nat

Bit(b) == IF b THEN 1 ELSE 0

log10Pow2(e) == (e * 78913) \div 2^18
log10Pow5(e) == (e * 732923) \div 2^20
pow5bits(e)  == (e * 1217359) \div 2^19 + 1

multipleOfPowerOf5(x, q) == x % 5^q = 0
multipleOfPowerOf2(x, q) == x % 2^q = 0
mulShift64(m, mul, j) ==
  ((m * mul[1]) \div 2^pow5_word + m * mul[2]) \div 2^(j - pow5_word)

-----------------------------------------------------------------------------
(* The value in quarters, so that the ends of its interval are integers.   *)
Quarters(v) == 4 * BinSig(v)
mmShift(v)  == Bit(v.sig # 0 \/ v.exp <= 1)
Plus(v)     == Quarters(v) + 2
Minus(v)    == Quarters(v) - 1 - mmShift(v)
acceptBoundsAlways(v) == TRUE            \* mutant of acceptBounds
acceptBounds(v) == BinSig(v) % 2 = 0

e2(v) == BinExp(v) - 2

(* The power of ten divided by if e2 >= 0, and shifted by if e2 < 0, where *)
(* the value is multiplied by 5^(-e2 - q).                                 *)
DownPow(v) == log10Pow2(e2(v)) - Bit(e2(v) > 3)
UpPow(v)   == log10Pow5(-e2(v)) - Bit(-e2(v) > 1)
e10(v)     == IF e2(v) >= 0 THEN DownPow(v) ELSE UpPow(v) + e2(v)

mulShiftAll64(v, mul, j) ==
  [vr |-> mulShift64(Quarters(v), mul, j), vp |-> mulShift64(Plus(v), mul, j),
   vm |-> mulShift64(Minus(v), mul, j),
   removed |-> 0, last |-> 0, vrZeros |-> FALSE, vmZeros |-> FALSE]

Product(v) ==
  IF e2(v) >= 0
    THEN LET q == DownPow(v)
             k == DOUBLE_POW5_INV_BITCOUNT + pow5bits(q) - 1
         IN mulShiftAll64(v, DOUBLE_POW5_INV_SPLIT[q], -e2(v) + q + k)
    ELSE LET q == UpPow(v)
             i == -e2(v) - q
         IN mulShiftAll64(v, DOUBLE_POW5_SPLIT[i], q - (pow5bits(i) - DOUBLE_POW5_BITCOUNT))

(* What is known of t when the value was divided by 10^q.                  *)
ScaleDown(v, t, q) ==
  IF q > max_pow5_tested THEN t
  ELSE IF Quarters(v) % 5 = 0
  THEN [t EXCEPT !.vrZeros = multipleOfPowerOf5(Quarters(v), q)]
  ELSE IF acceptBounds(v)
  THEN [t EXCEPT !.vmZeros = multipleOfPowerOf5(Minus(v), q)]
  ELSE [t EXCEPT !.vp = @ - Bit(multipleOfPowerOf5(Plus(v), q))]

(* And when it was multiplied by 5^i and shifted by q.                     *)
ScaleUp(v, t, q) ==
  CASE q <= 1 /\ acceptBounds(v) ->
         [t EXCEPT !.vrZeros = TRUE, !.vmZeros = mmShift(v) = 1]
    [] q <= 1 /\ ~acceptBounds(v) ->
         [t EXCEPT !.vrZeros = TRUE, !.vp = @ - 1]
    [] q > 1 /\ q < max_pow2_tested ->
         [t EXCEPT !.vrZeros = multipleOfPowerOf2(Quarters(v), q)]
    [] q > 1 /\ q >= max_pow2_tested -> t

Scale(v) == IF e2(v) >= 0 THEN ScaleDown(v, Product(v), DownPow(v))
                          ELSE ScaleUp(v, Product(v), UpPow(v))

-----------------------------------------------------------------------------
(* One turn of a removing loop.                                            *)
Cut(t) ==
  [vr |-> t.vr \div 10, vp |-> t.vp \div 10, vm |-> t.vm \div 10,
   removed |-> t.removed + 1,
   last    |-> t.vr % 10,
   vrZeros |-> t.vrZeros /\ t.last = 0,
   vmZeros |-> t.vmZeros /\ t.vm % 10 = 0]

(* while (vp / 10 > vm / 10)                                               *)
CutWhileWide(t) ==
  LET after[n \in 0..max_digits] ==
        IF n = 0 THEN t
        ELSE LET u == after[n - 1]
             IN IF u.vp \div 10 > u.vm \div 10 THEN Cut(u) ELSE u
  IN after[max_digits]

(* while (vm % 10 == 0)                                                    *)
CutZeros(t) ==
  LET after[n \in 0..max_digits] ==
        IF n = 0 THEN t
        ELSE LET u == after[n - 1] IN IF u.vm % 10 = 0 THEN Cut(u) ELSE u
  IN after[max_digits]

(* Something cut off may have been exactly zero.                           *)
General(v, s) ==
  LET wide == CutWhileWide(s)
      t    == IF wide.vmZeros THEN CutZeros(wide) ELSE wide
      last == IF t.vrZeros /\ t.last = 5 /\ t.vr % 2 = 0 THEN 4 ELSE t.last
      up   == \/ t.vr = t.vm /\ (~acceptBounds(v) \/ ~t.vmZeros)
              \/ last >= 5
  IN <<t.vr + Bit(up), t.removed>>

(* The common case: two digits at a time first, then one.                  *)
Common(s) ==
  LET t == CutWhileWide(IF s.vp \div 100 > s.vm \div 100 THEN Cut(Cut(s)) ELSE s)
  IN <<t.vr + Bit(t.vr = t.vm \/ t.last >= 5), t.removed>>

(* <<mantissa, exponent>>                                                  *)
d2d(v) ==
  LET s   == Scale(v)
      out == IF s.vmZeros \/ s.vrZeros THEN General(v, s) ELSE Common(s)
  IN <<out[1], e10(v) + out[2]>>

(* Integers whose significand reaches the units: an early answer.          *)
IsSmallInt(v) ==
  /\ v.exp - exp_offset \in -num_sig_bits..0
  /\ (implicit_bit + v.sig) % 2^(exp_offset - v.exp) = 0

d2d_small_int(v) ==
  LET cut[n \in 0..max_digits] ==
        IF n = 0 THEN <<(implicit_bit + v.sig) \div 2^(exp_offset - v.exp), 0>>
        ELSE LET u == cut[n - 1]
             IN IF u[1] % 10 = 0 THEN <<u[1] \div 10, n>> ELSE u
  IN cut[max_digits]

decimalLength17(x) == CHOOSE n \in 1..max_digits : 10^(n - 1) <= x /\ x < 10^n

(* What d2s_buffered_n leaves in result; nan is written without its sign.  *)
d2s_buffered_n(v) ==
  LET d   == IF IsSmallInt(v) THEN d2d_small_int(v) ELSE d2d(v)
      len == decimalLength17(d[1])
  IN IF IsSpecial(v) \/ IsZero(v)
       THEN [negative |-> v.negative /\ ~(IsSpecial(v) /\ v.sig # 0),
             word     |-> CASE v.sig # 0 -> "nan"
                            [] v.sig = 0 /\ v.exp # 0 -> "inf"
                            [] v.sig = 0 /\ v.exp = 0 -> "0"]
       ELSE [negative |-> v.negative,
             digits   |-> [i \in 1..len |-> (d[1] \div 10^(len - i)) % 10],
             exp      |-> d[2] + len - 1]
=============================================================================
