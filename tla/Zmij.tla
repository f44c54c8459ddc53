-------------------------------- MODULE Zmij --------------------------------
(***************************************************************************)
(* Zmij (src/zmij/zmij.cc), a Schubfach that scales by 10^(-dec_exp-1), so *)
(* that the integral part of the product is the shorter candidate and the  *)
(* last digit of the longer one comes out of the fraction.  One table      *)
(* entry, rounded down, serves every double of a decimal exponent; a power *)
(* of two takes a path of its own.                                         *)
(***************************************************************************)
EXTENDS BinaryFloat, SequencesExt

CONSTANTS
  zmij_bits,            \* bits of uint64_t (64)
  extra_shift,          \* integral bits below the point of p.hi (6)
  biased_half,          \* what rounds the last digit: 2^63 + 6
  max_digits10,         \* 17
  pow10_significands    \* e |-> <<hi, lo>>, two words of 10^e, rounded down

(* What the parameters have to satisfy. *)
ZmijParameters ==
  /\ num_sig_bits \in Nat \ {0}
  /\ zmij_bits \in Nat
  /\ extra_shift \in 3 .. zmij_bits - num_sig_bits - 1
  /\ max_digits10 \in Nat /\ max_digits10 > 2

ZWord     == 2^zmij_bits
threshold == 10^(max_digits10 - 2)
bcd_size  == max_digits10 - 1

compute_dec_exp(bin_exp, regular) ==
  (bin_exp * 315653 - (IF regular THEN 0 ELSE 131072)) \div 2^20
compute_exp_shift(bin_exp, dec_exp) ==
  bin_exp + ((-dec_exp * 217707) \div 2^16) + 1

(* The two high words of a product with a table entry, as one number, and  *)
(* its parts before and after the point.                                   *)
umul192_hi128(x, y) == x[1] * y + ((x[2] * y) \div ZWord)
Scale(bin_sig, bin_exp, dec_exp) ==
  LET shift == compute_exp_shift(bin_exp, dec_exp + 1) + extra_shift
      pow10 == pow10_significands[-dec_exp - 1]
      p     == umul192_hi128(pow10, bin_sig * 2^shift) \div 2^extra_shift
  IN [integral   |-> p \div ZWord,
      fractional |-> p % ZWord,
      half_ulp   |-> pow10[1] \div 2^(extra_shift + 1 - shift)]

(* The interval ends above the next integer, or below this one: the last   *)
(* digit is not needed.                                                    *)
Rounded(scaled, dec_exp, up, down, digit) ==
  [sig |-> scaled.integral + (IF up THEN 1 ELSE 0), exp |-> dec_exp,
   last_digit |-> digit, has_last_digit |-> ~up /\ ~down]

Irregular(bin_sig, bin_exp) ==
  LET dec_exp == compute_dec_exp(bin_exp, FALSE)
      s     == Scale(bin_sig, bin_exp, dec_exp)
      below == s.half_ulp \div 2
      digit == (s.fractional * 10 + ZWord \div 2 - 1) \div ZWord
      lo    == (((s.fractional - below) % ZWord) * 10 + ZWord - 1) \div ZWord
  IN Rounded(s, dec_exp, s.fractional + s.half_ulp >= ZWord, below > s.fractional,
             IF digit < lo THEN lo ELSE digit)

Regular(bin_sig, bin_exp) ==
  LET dec_exp  == compute_dec_exp(bin_exp, TRUE)
      s        == Scale(bin_sig, bin_exp, dec_exp)
      half_ulp == s.half_ulp + (1 - (bin_sig % 2))     \* an even end is inside
  IN Rounded(s, dec_exp, s.fractional + half_ulp >= ZWord, half_ulp > s.fractional,
             IF s.fractional = ZWord \div 4 THEN 2   \* 2.5 is rounded to 2
             ELSE (s.fractional * 10 + biased_half) \div ZWord)

(* Mutant of to_decimal: powers of two are as any other value. *)
to_decimal_regular(bin_sig, raw_exp, regular) == Regular(bin_sig, raw_exp - exp_offset)

to_decimal(bin_sig, raw_exp, regular) ==
  IF regular THEN Regular(bin_sig, raw_exp - exp_offset)
             ELSE Irregular(bin_sig, raw_exp - exp_offset)

-----------------------------------------------------------------------------
LastDigit(dec) == IF dec.has_last_digit THEN dec.last_digit ELSE 0

(* A subnormal's decimal, multiplied by ten until it fills the buffer.     *)
Widened(dec) ==
  LET sig   == 10 * dec.sig + LastDigit(dec)
      times == CHOOSE n \in 0..max_digits10 :
                 /\ sig * 10^n >= threshold
                 /\ n = 0 \/ sig * 10^(n - 1) < threshold
      wide  == sig * 10^times
  IN [sig |-> wide \div 10, exp |-> dec.exp - times,
      last_digit |-> wide % 10, has_last_digit |-> wide % 10 # 0]

(* bcd_size digits, the first dropped when it is a zero, then the last     *)
(* digit; without a last digit the zeros at the end are dropped.           *)
Significand(dec) ==
  LET first == IF dec.sig >= threshold THEN 1 ELSE 2
      bcd   == [i \in 1..bcd_size |-> (dec.sig \div 10^(bcd_size - i)) % 10]
      num_digits == SelectLastInSeq(bcd, LAMBDA d : d # 0)
  IN IF dec.has_last_digit
       THEN Append(SubSeq(bcd, first, bcd_size), dec.last_digit)
       ELSE SubSeq(bcd, first, num_digits)

(* What write leaves in buffer.                                            *)
zmij_write(v) ==
  LET dec == CASE v.exp # 0 -> to_decimal(BinSig(v), v.exp, v.sig # 0)
               [] v.exp = 0 -> Widened(to_decimal(v.sig, 1, TRUE))
  IN IF IsOrdinary(v)
       THEN [negative |-> v.negative, digits |-> Significand(dec),
             exp |-> dec.exp + max_digits10 - 2
                       + (IF dec.sig >= threshold THEN 1 ELSE 0)]
       ELSE [negative |-> v.negative,
             word |-> IF IsZero(v) THEN "0" ELSE IF v.sig = 0 THEN "inf" ELSE "nan"]
=============================================================================
