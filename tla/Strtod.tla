-------------------------------- MODULE Strtod --------------------------------
(***************************************************************************)
(* The reader by which verify() judges a text: StringToDoubleConverter of  *)
(* src/double-conversion as from_chars (src/benchmark.cc:71-79) calls it,  *)
(* with trailing junk allowed, no symbols for infinity and nan, and a      *)
(* buffer that is much longer than its text, so that the end it checks for *)
(* is never reached and the null behind the text ends the scan.            *)
(*                                                                         *)
(* A text is a sequence of character codes.  strtod.cc reads a few digits  *)
(* exactly in doubles; more, in one-word numbers with a count of the error *)
(* (DiyFpStrtod), which is refused when it could matter; then a bignum     *)
(* comparison with the boundary above the refused guess decides.           *)
(***************************************************************************)
EXTENDS BinaryFloat, DiyFp, Bignum

CONSTANTS
  kMaxExactDoubleIntegerDecimalDigits,  \* 15
  kExactPowersOfTenSize,        \* powers of ten that are doubles (23)
  kMaxDecimalPower,             \* 10^this and above is infinity (309)
  kMinDecimalPower,             \* 10^this and below is zero (-324)
  kMaxSignificantDigits,        \* digits StringToIeee keeps (772)
  kMaxSignificantDecimalDigits, \* digits Strtod keeps (780)
  kDecimalPowers_F,             \* the cached powers of ten, from 0
  kDecimalPowers_E,
  kMinDecimalExponent,          \* decimal exponent of the first one (-348)
  kDecimalExponentDistance      \* 8

(* What the parameters have to satisfy: the remaining powers are exact and *)
(* all that TrimAndCut may keep was kept before.                           *)
StrtodParameters ==
  /\ 10^(kDecimalExponentDistance - 1) < 2^kSignificandSize
  /\ 10^kMaxExactDoubleIntegerDecimalDigits <= 2 * implicit_bit
  /\ 5^(kExactPowersOfTenSize - 1) < 2 * implicit_bit
  /\ kMaxSignificantDigits < kMaxSignificantDecimalDigits

kDenormalExponent == 1 - exp_offset
kMaxExponent      == exp_mask - exp_offset
Signed(negative, v) == [v EXCEPT !.negative = negative]
Infinity == [negative |-> FALSE, exp |-> exp_mask, sig |-> 0]
NoDouble == [negative |-> FALSE, exp |-> 0, sig |-> 0]     \* 0.0

-----------------------------------------------------------------------------
(* ieee.h.                                                                 *)

(* The double f * 2^e; bits that do not fit are dropped.                   *)
DiyFpToUint64(f, e) ==
  LET more == Max({0, BitLength(f) - (num_sig_bits + 1)})
      significand == f \div 2^more
      exponent    == e + more
      up == Min({num_sig_bits + 1 - BitLength(significand), exponent - kDenormalExponent})
  IN CASE exponent >= kMaxExponent     -> Infinity
       [] exponent < kDenormalExponent -> NoDouble
       [] exponent \in kDenormalExponent .. kMaxExponent - 1 ->
            [negative |-> FALSE,
             exp |-> IF significand * 2^up < implicit_bit THEN 0
                                                         ELSE exponent - up + exp_offset,
             sig |-> (significand * 2^up) % implicit_bit]

NextDouble(v) ==
  IF v.sig = implicit_bit - 1 THEN [v EXCEPT !.exp = @ + 1, !.sig = 0]
                              ELSE [v EXCEPT !.sig = @ + 1]

UpperBoundary(v) == [f |-> 2 * BinSig(v) + 1, e |-> BinExp(v) - 1]

(* The bits a number of this magnitude has as a double.                    *)
SignificandSizeForOrderOfMagnitude(order) ==
  Max({0, Min({num_sig_bits + 1, order - kDenormalExponent})})

-----------------------------------------------------------------------------
(* What the processor makes of num / den * 2^q: the nearest double, the    *)
(* even one in the middle.  (Nothing it is asked here leaves the range of  *)
(* normal numbers.)                                                        *)
Nearest(num, den, q) ==
  LET least == BitLength(num) - BitLength(den) - num_sig_bits
      Above(e) == num * 2^Positive(-e) >= den * 2^Positive(e) * implicit_bit
      e    == IF Above(least) THEN least ELSE least - 1
      n    == num * 2^Positive(-e)
      d    == den * 2^Positive(e)
      up   == 2 * (n % d) > d \/ (2 * (n % d) = d /\ (n \div d) % 2 = 1)
  IN DiyFpToUint64((n \div d) + (IF up THEN 1 ELSE 0), e + q)

DividedBy(v, n) == Nearest(BinSig(v), n, BinExp(v))
MultipliedBy(v, n) == Nearest(BinSig(v) * n, 1, BinExp(v))

-----------------------------------------------------------------------------
(* strtod.cc.  Digits are sequences of 0..9.                               *)

TrimLeadingZeros(buffer) ==
  SubSeq(buffer, Min({Len(buffer) + 1} \cup {i \in DOMAIN buffer : buffer[i] # 0}),
         Len(buffer))
TrimTrailingZeros(buffer) ==
  SubSeq(buffer, 1, Max({0} \cup {i \in DOMAIN buffer : buffer[i] # 0}))

(* Digits too many are cut; the last one kept says that there were more.   *)
TrimAndCut(buffer, exponent) ==
  LET left  == TrimLeadingZeros(buffer)
      right == TrimTrailingZeros(left)
      shown == exponent + Len(left) - Len(right)
  IN IF Len(right) > kMaxSignificantDecimalDigits
       THEN [digits |-> Append(SubSeq(right, 1, kMaxSignificantDecimalDigits - 1), 1),
             exponent |-> shown + Len(right) - kMaxSignificantDecimalDigits]
       ELSE [digits |-> right, exponent |-> shown]

(* As many digits as certainly fit in a word.                              *)
ReadUint64(buffer) ==
  LET last == (2^kSignificandSize - 1) \div 10 - 1
      read[i \in 0 .. Len(buffer)] ==
        IF i = 0 THEN [value |-> 0, count |-> 0]
        ELSE LET prev == read[i - 1]
             IN IF prev.count = i - 1 /\ prev.value <= last
                  THEN [value |-> 10 * prev.value + buffer[i], count |-> i]
                  ELSE prev
  IN read[Len(buffer)]

(* The first digit that was not read rounds.                               *)
ReadDiyFp(buffer) ==
  LET read == ReadUint64(buffer)
      more == Len(buffer) - read.count
      up   == more > 0 /\ buffer[read.count + 1] >= 5
  IN [diy_fp |-> [f |-> read.value + (IF up THEN 1 ELSE 0), e |-> 0],
      remaining_decimals |-> more]

-----------------------------------------------------------------------------
(* Few digits and a small power of ten are doubles, and so the operation   *)
(* rounds just once.  An answer is right if "ok".                          *)
Answer(v) == [ok |-> TRUE, value |-> v]
Refused   == [ok |-> FALSE, value |-> NoDouble]

DoubleStrtod(trimmed, exponent) ==
  LET n      == Nearest(ReadUint64(trimmed).value, 1, 0)
      spare  == kMaxExactDoubleIntegerDecimalDigits - Len(trimmed)
      exact  == 0 .. kExactPowersOfTenSize - 1
  IN CASE spare < 0 -> Refused
       [] spare >= 0 /\ exponent < 0 /\ -exponent \in exact ->
            Answer(DividedBy(n, 10^(-exponent)))
       [] spare >= 0 /\ exponent \in exact ->
            Answer(MultipliedBy(n, 10^exponent))
       [] spare >= 0 /\ exponent >= kExactPowersOfTenSize /\ exponent - spare \in exact ->
            Answer(MultipliedBy(MultipliedBy(n, 10^spare), 10^(exponent - spare)))
       [] OTHER -> Refused

-----------------------------------------------------------------------------
(* The error of a number is counted in eighths of its last place.          *)
kDenominatorLog == 3
kDenominator    == 2^kDenominatorLog
kMaxUint64DecimalDigits ==
  CHOOSE n \in 0..kSignificandSize :
    10^n < 2^kSignificandSize /\ 2^kSignificandSize <= 10^(n + 1)

(* x with its error, normalized.                                           *)
Normalized(x, error) ==
  LET n == Normalize(x)
  IN [f |-> n.f, e |-> n.e, error |-> error * 2^(x.e - n.e)]

AdjustmentPowerOfTen(exponent) == Normalize([f |-> 10^exponent, e |-> 0])

(* The cached power at or below 10^exponent.                               *)
GetCachedPowerForDecimalExponent(exponent) ==
  LET index == (exponent - kMinDecimalExponent) \div kDecimalExponentDistance
  IN [f |-> kDecimalPowers_F[index], e |-> kDecimalPowers_E[index],
      decimal |-> kMinDecimalExponent + index * kDecimalExponentDistance]

(* Times the exact power between the cached one and 10^exponent.           *)
Adjusted(input, adjustment, length) ==
  LET x == Times(input, AdjustmentPowerOfTen(adjustment))
  IN IF adjustment = 0 THEN input
     ELSE [f |-> x.f, e |-> x.e,
           error |-> input.error
             + (IF kMaxUint64DecimalDigits - length >= adjustment THEN 0
                                                                  ELSE kDenominator \div 2)]

(* Times the cached power: half a unit for its own error, and another for  *)
(* the rounding of the product.                                            *)
Scaled(input, power) ==
  Normalized(Times(input, power),
             input.error + (kDenominator \div 2) + (IF input.error = 0 THEN 0 ELSE 1)
               + (kDenominator \div 2))

(* Room for the eighths, which the smallest denormals do not leave.        *)
Shifted(input, precision_digits_count) ==
  LET shift == Max({0, precision_digits_count + kDenominatorLog - kSignificandSize + 1})
  IN IF shift = 0 THEN [input |-> input, count |-> precision_digits_count]
     ELSE [input |-> [f |-> input.f \div 2^shift, e |-> input.e + shift,
                      error |-> input.error \div 2^shift + 1 + kDenominator],
           count |-> precision_digits_count - shift]

(* Mutant of Rounded: the guess is trusted. *)
RoundedTrusting(input, count) ==
  LET bits == kDenominator * (input.f % 2^count)
      half == kDenominator * 2^(count - 1)
      up   == bits >= half + input.error
  IN Answer(DiyFpToUint64(input.f \div 2^count + (IF up THEN 1 ELSE 0), input.e + count))

(* Rounded down when the error leaves it open.                             *)
Rounded(input, count) ==
  LET bits == kDenominator * (input.f % 2^count)
      half == kDenominator * 2^(count - 1)
      up   == bits >= half + input.error
  IN [ok    |-> ~(half - input.error < bits /\ bits < half + input.error),
      value |-> DiyFpToUint64(input.f \div 2^count + (IF up THEN 1 ELSE 0),
                              input.e + count)]

RoundedAtMagnitude(input) ==
  LET shifted == Shifted(input, kSignificandSize
                   - SignificandSizeForOrderOfMagnitude(kSignificandSize + input.e))
  IN Rounded(shifted.input, shifted.count)

DiyFpStrtod(buffer, trimmed_exponent) ==
  LET read     == ReadDiyFp(buffer)
      dropped  == read.remaining_decimals
      exponent == trimmed_exponent + dropped
      input    == Normalized(read.diy_fp, IF dropped = 0 THEN 0 ELSE kDenominator \div 2)
      power    == GetCachedPowerForDecimalExponent(exponent)
  IN IF exponent < kMinDecimalExponent THEN Answer(NoDouble)
     ELSE RoundedAtMagnitude(Scaled(Adjusted(input, exponent - power.decimal, Len(buffer)),
                                    power))

-----------------------------------------------------------------------------
(* -1, 0 or 1 as buffer * 10^exponent is below, at or above diy_fp.        *)
CompareBufferWithDiyFp(buffer, exponent, diy_fp) ==
  LET digits == AssignDecimalString(NewBignum, buffer)
      f      == AssignUInt64(NewBignum, diy_fp.f)
      left   == IF exponent >= 0 THEN MultiplyByPowerOfTen(digits, exponent) ELSE digits
      right  == IF exponent >= 0 THEN f ELSE MultiplyByPowerOfTen(f, -exponent)
  IN IF diy_fp.e > 0 THEN Compare(left, ShiftLeft(right, diy_fp.e))
                     ELSE Compare(ShiftLeft(left, -diy_fp.e), right)

(* The guess is right, or else ("ok" is not) just below what is right.     *)
ComputeGuess(trimmed, exponent) ==
  LET fast == DoubleStrtod(trimmed, exponent)
      diy  == DiyFpStrtod(trimmed, exponent)
  IN CASE trimmed = <<>> -> Answer(NoDouble)
       [] trimmed # <<>> /\ exponent + Len(trimmed) - 1 >= kMaxDecimalPower ->
            Answer(Infinity)
       [] trimmed # <<>> /\ exponent + Len(trimmed) <= kMinDecimalPower ->
            Answer(NoDouble)
       [] OTHER ->
            IF fast.ok THEN fast
            ELSE [diy EXCEPT !.ok = @ \/ diy.value = Infinity]

(* Of a guess and the double above, the right one.                         *)
Decided(guess, comparison) ==
  IF comparison < 0 \/ (comparison = 0 /\ BinSig(guess) % 2 = 0)
    THEN guess ELSE NextDouble(guess)

Judged(guess, digits, exponent) ==
  IF guess.ok THEN guess.value
  ELSE Decided(guess.value,
               CompareBufferWithDiyFp(digits, exponent, UpperBoundary(guess.value)))

StrtodTrimmed(t) == Judged(ComputeGuess(t.digits, t.exponent), t.digits, t.exponent)
Strtod(buffer, exponent) == StrtodTrimmed(TrimAndCut(buffer, exponent))

-----------------------------------------------------------------------------
(* StringToIeee.  Characters by their codes; the null stops every loop.    *)
Digit == 48..57
Zeros == {48}
Plus  == 43
Minus == 45
Point == 46
E     == {69, 101}

(* The first place from i on with another character than these.            *)
Past(chars, i, these) ==
  CHOOSE j \in i .. Len(chars) :
    chars[j] \notin these /\ \A m \in i .. j - 1 : chars[m] \in these

(* An exponent stops growing at INT_MAX / 2.                               *)
max_exponent == 2^30 - 1
ExponentOf(chars, from, to) ==
  LET num[i \in from - 1 .. to] ==
        IF i = from - 1 THEN 0
        ELSE LET digit == chars[i] - 48
             IN IF \/ num[i - 1] > max_exponent \div 10
                   \/ num[i - 1] = max_exponent \div 10 /\ digit > max_exponent % 10
                  THEN max_exponent
                  ELSE 10 * num[i - 1] + digit
  IN num[to]

(* The exponent behind the place of an "e", and the place after it.  The   *)
(* "e" counts as read even if no number follows.                           *)
ExponentPart(chars, i) ==
  LET signed == chars[i + 1] \in {Plus, Minus}
      first  == IF signed THEN i + 2 ELSE i + 1
      end    == Past(chars, first, Digit)
      num    == ExponentOf(chars, first, end - 1)
  IN IF chars[i] \notin E THEN [exponent |-> 0, end |-> i]
     ELSE [exponent |-> IF signed /\ chars[i + 1] = Minus THEN -num ELSE num, end |-> end]

(* The digits without leading zeros, with a 1 for those that were too      *)
(* many, and the exponent of the last one.                                 *)
Kept(integer, fraction, zeros) ==
  LET all     == integer \o fraction
      kept    == SubSeq(all, 1, Min({Len(all), kMaxSignificantDigits}))
      dropped == \E i \in Len(kept) + 1 .. Len(all) : all[i] # 0
      exponent == Len(integer) - zeros - Len(kept)
  IN [buffer   |-> IF dropped THEN Append(kept, 1) ELSE kept,
      exponent |-> IF dropped THEN exponent - 1 ELSE exponent]

(* The value, and how many characters were read.  Without a digit the text *)
(* is junk, 0.0.                                                           *)
StringToIeee(chars) ==
  LET negative == chars[1] = Minus
      start    == IF chars[1] \in {Plus, Minus} THEN 2 ELSE 1
      first    == Past(chars, start, Zeros)
      point    == Past(chars, first, Digit)
      has_fraction == chars[point] = Point
      nonzero  == CASE ~has_fraction -> point
                    [] has_fraction /\ point > first -> point + 1
                    [] has_fraction /\ point = first -> Past(chars, point + 1, Zeros)
      end      == IF has_fraction THEN Past(chars, nonzero, Digit) ELSE point
      Values(from, to) == [i \in 1 .. to - from |-> chars[from + i - 1] - 48]
      kept     == Kept(Values(first, point), Values(nonzero, end),
                       IF has_fraction THEN nonzero - (point + 1) ELSE 0)
      exponent == ExponentPart(chars, end)
      no_digit == first = start /\ kept.exponent = 0 /\ kept.buffer = <<>>
  IN IF no_digit THEN [value |-> NoDouble, count |-> 0]
     ELSE [value |-> Signed(negative, Strtod(kept.buffer, kept.exponent + exponent.exponent)),
           count |-> exponent.end - 1]

(* What verify_value learns of a text: the value read, and whether all of  *)
(* the text was (strlen stops where the scan does, at the null).           *)
from_chars(chars) ==
  LET read == StringToIeee(chars)
  IN [value |-> read.value, whole |-> read.count = Len(chars) - 1]
=============================================================================
