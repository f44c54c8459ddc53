-------------------------- MODULE DoubleConversion --------------------------
(***************************************************************************)
(* DoubleToStringConverter::EcmaScriptConverter().ToShortest of            *)
(* src/double-conversion, as src/double-conversion-test.cc calls it.       *)
(* Grisu3 (fast-dtoa.cc) works with one-word numbers whose errors it       *)
(* keeps count of, and gives up when they could matter; BignumDtoa         *)
(* (bignum-dtoa.cc), exact, then answers in its place.                     *)
(***************************************************************************)
EXTENDS BinaryFloat, DiyFp, Bignum

CONSTANTS
  kCachedPowers_F,      \* the cached powers of ten, from 0
  kCachedPowers_E,
  cached_min,           \* decimal exponent of the first one (-348)
  cached_step,          \* kDecimalExponentDistance (8)
  kMinimalTargetExponent,       \* -60
  log10_2_num,          \* k1Log10, kD_1_LOG2_10 (0.30102999566398114)
  log10_2_den,
  decimal_in_shortest_low,      \* -6
  decimal_in_shortest_high      \* 21

(* What the parameters have to satisfy. *)
DoubleConversionParameters ==
  /\ num_sig_bits \in Nat \ {0}
  /\ kSignificandSize \in Nat
  /\ kSignificandSize > num_sig_bits + 2
  /\ cached_step \in Nat \ {0}

LowerBoundaryIsCloser(v) == v.sig = 0 /\ v.exp # 1
CeilLog10(x) == -((-x * log10_2_num) \div log10_2_den)

-----------------------------------------------------------------------------
(* A power of ten that brings an exponent e to the target's range.         *)
GetCachedPower(e) ==
  LET min_exponent == kMinimalTargetExponent - (e + kSignificandSize)
      k     == CeilLog10(min_exponent + kSignificandSize - 1)
      index == ((k - cached_min - 1) \div cached_step) + 1
  IN [c |-> [f |-> kCachedPowers_F[index], e |-> kCachedPowers_E[index]],
      mk |-> cached_min + cached_step * index]

(* Mutant of RoundWeed: the first digit that is no longer moved is taken. *)
RoundWeedTrusting(digits, distance, unsafe_interval, rest, ten_kappa, unit) ==
  LET down(r) == /\ r < distance - unit
                 /\ unsafe_interval - r >= ten_kappa
                 /\ \/ r + ten_kappa < distance - unit
                    \/ distance - unit - r >= r + ten_kappa - (distance - unit)
      times == CHOOSE n \in 0..9 :
                 /\ ~down(rest + n * ten_kappa)
                 /\ \A m \in 0..n - 1 : down(rest + m * ten_kappa)
  IN [digits |-> digits - times, ok |-> TRUE]

(* The last digit goes down towards w while it certainly comes closer; the *)
(* answer is refused when w, less exact, might want one step more, or when *)
(* it may be outside the interval.                                         *)
RoundWeed(digits, distance, unsafe_interval, rest, ten_kappa, unit) ==
  LET Lower(r, dist, better(_, _)) ==
        /\ r < dist
        /\ unsafe_interval - r >= ten_kappa
        /\ r + ten_kappa < dist \/ better(dist - r, r + ten_kappa - dist)
      down(r) == Lower(r, distance - unit, LAMBDA here, below : here >= below)
      times == CHOOSE n \in 0..9 :
                 /\ ~down(rest + n * ten_kappa)
                 /\ \A m \in 0..n - 1 : down(rest + m * ten_kappa)
      r == rest + times * ten_kappa
  IN [digits |-> digits - times,
      ok |-> /\ ~Lower(r, distance + unit, LAMBDA here, below : here > below)
             /\ 2 * unit <= r
             /\ r <= unsafe_interval - 4 * unit]

(* The power of ten below a number of number_bits bits, from an estimate   *)
(* that may be one too large.                                              *)
BiggestPowerTen(number, number_bits) ==
  LET guess == (((number_bits + 1) * 1233) \div 2^12) + 1
  IN IF number < 10^(guess - 1) THEN guess - 1 ELSE guess

(* The digits of too_high, until what is left is inside the interval:      *)
(* first those of its integral part, then of its fraction, which is        *)
(* multiplied by ten with the unit and the interval.                       *)
DigitGen(low, w, high) ==
  LET one       == 2^(-w.e)
      too_high  == high.f + 1
      unsafe    == too_high - (low.f - 1)
      integrals == too_high \div one
      fractionals[j \in Nat] ==
        IF j = 0 THEN too_high % one ELSE (10 * fractionals[j - 1]) % one
      fraction_digits[j \in Nat] ==
        IF j = 0 THEN integrals
        ELSE 10 * fraction_digits[j - 1] + ((10 * fractionals[j - 1]) \div one)
      kappas == 0 .. BiggestPowerTen(integrals, kSignificandSize + w.e) - 1
      rest(kappa) == (integrals % 10^kappa) * one + fractionals[0]
      enough == {kappa \in kappas : rest(kappa) < unsafe}
      top    == Max(enough)
      part   == CHOOSE j \in 1..kSignificandSize :
                  /\ fractionals[j] < unsafe * 10^j
                  /\ \A i \in 1..j - 1 : fractionals[i] >= unsafe * 10^i
  IN IF enough # {}
       THEN [weed  |-> RoundWeed(integrals \div 10^top, too_high - w.f, unsafe,
                                 rest(top), 10^top * one, 1),
             kappa |-> top]
       ELSE [weed  |-> RoundWeed(fraction_digits[part], (too_high - w.f) * 10^part,
                                 unsafe * 10^part, fractionals[part], one, 10^part),
             kappa |-> -part]

Grisu3(v) ==
  LET w     == Normalize([f |-> BinSig(v), e |-> BinExp(v)])
      plus  == Normalize([f |-> 2 * BinSig(v) + 1, e |-> BinExp(v) - 1])
      lower == IF LowerBoundaryIsCloser(v)
                 THEN [f |-> 4 * BinSig(v) - 1, e |-> BinExp(v) - 2]
                 ELSE [f |-> 2 * BinSig(v) - 1, e |-> BinExp(v) - 1]
      minus == [f |-> lower.f * 2^(lower.e - plus.e), e |-> plus.e]
      power == GetCachedPower(w.e)
      gen   == DigitGen(Times(minus, power.c), Times(w, power.c), Times(plus, power.c))
  IN [ok |-> gen.weed.ok, digits |-> gen.weed.digits, exp |-> gen.kappa - power.mk]

-----------------------------------------------------------------------------
(* numerator / denominator is v / 10^estimated_power; a delta over the     *)
(* denominator is half the distance to the neighbour on its side.          *)
Num(n)        == AssignUInt64(NewBignum, n)
PowerOfTen(n) == AssignPowerUInt16(NewBignum, 10, n)

StartValues(v, e, estimated_power) ==
  CASE e >= 0 ->
         [numerator   |-> ShiftLeft(ShiftLeft(Num(BinSig(v)), e), 1),
          denominator |-> ShiftLeft(PowerOfTen(estimated_power), 1),
          delta       |-> ShiftLeft(Num(1), e)]
    [] e < 0 /\ estimated_power >= 0 ->
         [numerator   |-> ShiftLeft(Num(BinSig(v)), 1),
          denominator |-> ShiftLeft(ShiftLeft(PowerOfTen(estimated_power), -e), 1),
          delta       |-> Num(1)]
    [] e < 0 /\ estimated_power < 0 ->
         [numerator   |-> ShiftLeft(MultiplyByUInt64(PowerOfTen(-estimated_power),
                                                     BinSig(v)), 1),
          denominator |-> ShiftLeft(ShiftLeft(Num(1), -e), 1),
          delta       |-> AssignBignum(NewBignum, PowerOfTen(-estimated_power))]

Widened(start, closer) ==
  [numerator   |-> ShiftLeft(start.numerator, closer),
   denominator |-> ShiftLeft(start.denominator, closer),
   delta_minus |-> start.delta,
   delta_plus  |-> ShiftLeft(start.delta, closer),
   value |-> 0, length |-> 0, stop |-> FALSE]

InitialScaledStartValues(v, estimated_power) ==
  Widened(StartValues(v, BinExp(v), estimated_power),
          IF LowerBoundaryIsCloser(v) THEN 1 ELSE 0)

Times10(x) == MultiplyByUInt32(x, 10)

(* Equal deltas are one object afterwards.                                 *)
TimesTen(s) ==
  LET minus == Times10(s.delta_minus)
  IN [s EXCEPT !.numerator = Times10(@), !.delta_minus = minus,
               !.delta_plus = IF Compare(s.delta_minus, @) = 0 THEN minus ELSE Times10(@)]

(* Whether what is left of the numerator rounds up to the denominator.     *)
RoomAbove(s, is_even) ==
  LET sum == PlusCompare(s.numerator, s.delta_plus, s.denominator)
  IN IF is_even THEN sum >= 0 ELSE sum > 0
RoomBelow(s, is_even) ==
  LET less == Compare(s.numerator, s.delta_minus)
  IN IF is_even THEN less <= 0 ELSE less < 0

(* The digit just divided out, rounded if it is the last: the rest is     *)
(* inside a delta.                                                         *)
Concluded(s, digit, below, above) ==
  LET half == PlusCompare(s.numerator, s.numerator, s.denominator)
      up   == above /\ (below => half > 0 \/ (half = 0 /\ digit % 2 = 1))
  IN [s EXCEPT !.value = 10 * @ + digit + (IF up THEN 1 ELSE 0),
               !.length = @ + 1,
               !.stop = below \/ above]

WithRest(s, digit, is_even) ==
  Concluded(s, digit, RoomBelow(s, is_even), RoomAbove(s, is_even))
Divided(s, d, is_even) == WithRest([s EXCEPT !.numerator = d.rest], d.result, is_even)
NextDigit(s, is_even) ==
  Divided(s, DivideModuloIntBignum(s.numerator, s.denominator), is_even)

GenerateShortestDigits(start, is_even) ==
  LET State == [numerator : BignumType, denominator : BignumType,
                delta_minus : BignumType, delta_plus : BignumType,
                value : Nat, length : Nat, stop : BOOLEAN]
      digits[s \in State] == IF s.stop THEN s ELSE digits[NextDigit(TimesTen(s), is_even)]
  IN digits[NextDigit(start, is_even)]

(* Its estimate of the power of ten may be one too small.                  *)
Decimal(d, decimal_point) == [digits |-> d.value, exp |-> decimal_point - d.length]
FixupMultiply10(s, in_range, is_even, estimated_power) ==
  Decimal(GenerateShortestDigits(IF in_range THEN s ELSE TimesTen(s), is_even),
          IF in_range THEN estimated_power + 1 ELSE estimated_power)
Started(s, is_even, estimated_power) ==
  FixupMultiply10(s, RoomAbove(s, is_even), is_even, estimated_power)

BignumDtoa(v) ==
  LET is_even == BinSig(v) % 2 = 0
      normalized == BinExp(v) - (num_sig_bits + 1 - BitLength(BinSig(v)))
      estimated_power == CeilLog10(normalized + num_sig_bits)
  IN Started(InitialScaledStartValues(v, estimated_power), is_even, estimated_power)

-----------------------------------------------------------------------------
Ascii(d) ==
  LET n == CHOOSE i \in 1..10 : 10^(i - 1) <= d.digits /\ (i = 10 \/ d.digits < 10^i)
  IN [digits |-> [i \in 1..n |-> (d.digits \div 10^(n - i)) % 10], point |-> d.exp + n]
Checked(fast, v) == IF fast.ok THEN fast ELSE BignumDtoa(v)

DoubleToAscii(v) == Ascii(Checked(Grisu3(v), v))

(* The characters of a representation, without the sign.                   *)
DecimalRepresentation(length, point) ==
  CASE point <= 0                     -> 2 - point + length
    [] point > 0 /\ point >= length   -> point
    [] point > 0 /\ point < length    -> length + 1
ExponentialRepresentation(length, exponent) ==
  LET size == IF exponent < 0 THEN -exponent ELSE exponent
  IN length + (IF length # 1 THEN 1 ELSE 0) + 2
       + (CHOOSE n \in 1..10 : size < 10^n /\ (n = 1 \/ size >= 10^(n - 1)))

(* What ToShortest adds to the builder, and the builder's position.        *)
Position(negative, length, exponent) ==
  (IF negative THEN 1 ELSE 0)
    + (IF exponent \in decimal_in_shortest_low .. decimal_in_shortest_high - 1
         THEN DecimalRepresentation(length, exponent + 1)
         ELSE ExponentialRepresentation(length, exponent))
Represented(negative, d) ==
  [negative |-> negative, digits |-> d.digits, exp |-> d.point - 1,
   position |-> Position(negative, Len(d.digits), d.point - 1)]

ToShortest(v) ==
  IF IsOrdinary(v)
    THEN Represented(v.negative, DoubleToAscii(v))
    ELSE [negative |-> v.negative /\ IsSpecial(v) /\ v.sig = 0,
          word |-> IF IsZero(v) THEN "0" ELSE IF v.sig = 0 THEN "Infinity" ELSE "NaN"]
=============================================================================
