------------------------------ MODULE Asteria ------------------------------
(***************************************************************************)
(* ascii_numput::put_DD (src/asteria/ascii_numput.cpp).  A table says      *)
(* between which powers of ten the value lies and with what it is          *)
(* multiplied to have 18 digits.  The interval is the value less and plus  *)
(* half a unit in the last place, for a power of two as well; digits are   *)
(* removed from its middle, each rounded, until the interval is left.      *)
(***************************************************************************)
EXTENDS BinaryFloat, SequencesExt, FiniteSets

CONSTANTS
  mant_bits,            \* bits of uint64_t (64)
  point_digits,         \* digits after the first (17)
  least_exp,            \* decimal exponent of the table's first row (-324)
  s_decimal_multipliers \* i |-> [bound, mant, exp2], the rows, from 0

(* What the parameters have to satisfy. *)
AsteriaParameters ==
  /\ num_sig_bits \in Nat \ {0}
  /\ mant_bits \in Nat
  /\ mant_bits > num_sig_bits
  /\ point_digits \in Nat

AWord == 2^mant_bits
rows  == Cardinality(DOMAIN s_decimal_multipliers)      \* 633

(* The fields of the value, a subnormal normalized; its hidden bit is set. *)
Binary(v) ==
  LET sh == CHOOSE s \in 0..num_sig_bits : BinSig(v) * 2^s \in implicit_bit .. 2 * implicit_bit - 1
  IN IF v.exp > 0 THEN [mant |-> BinSig(v), exp |-> v.exp]
                  ELSE [mant |-> v.sig * 2^sh, exp |-> 1 - sh]

(* The binary search for the last row whose bound the bits reach, between  *)
(* two rows that the exponent gives.                                       *)
Row(v, exp) ==
  LET bits == v.exp * implicit_bit + v.sig
      mlo  == 1 + ((num_sig_bits - 1 + exp) * 1262611) \div 4194304
      mhi  == rows - ((exp_mask - 1 - exp) * 1262611) \div 4194304
      search[lo \in Nat, hi \in Nat] ==
        LET mid == (lo + hi) \div 2
        IN IF lo = hi THEN lo
           ELSE IF bits < s_decimal_multipliers[mid].bound THEN search[lo, mid]
                                                            ELSE search[mid + 1, hi]
  IN search[mlo, mhi] - 1

mulh128(x, y) == (x * y) \div AWord

(* Digits are removed while the rounded number, less the lower end in      *)
(* unsigned arithmetic, is inside; one more digit is a carry.              *)
Shortened(mant_min, mant_diff) ==
  LET cut[n \in Nat] == IF n = 0 THEN mant_min + (mant_diff \div 2)
                        ELSE (cut[n - 1] + 5) \div 10
      next(n)   == cut[n] * 10^n
      inside(n) == (next(n) - mant_min) % AWord <= mant_diff
      last == CHOOSE n \in 0 .. point_digits + 1 :
                /\ ~inside(n + 1)
                /\ \A m \in 1..n : inside(m)
  IN next(last)

(* <<mantissa, decimal exponent of its first digit>>.                      *)
do_frexp10_17(v) ==
  LET b     == Binary(v)
      row   == Row(v, b.exp)
      mult  == s_decimal_multipliers[row]
      shift == b.exp + mult.exp2 - exp_offset
      half_ulp == 2^(shift - 1)
      bits     == b.mant * 2^shift
      mant_min == mulh128(bits - half_ulp, mult.mant) + 1
      mant_max == mulh128(bits + half_ulp, mult.mant - 1)
      mant     == Shortened(mant_min, mant_max - mant_min)
  IN IF mant >= 10^(point_digits + 1) THEN <<mant \div 10, row + 1 + least_exp>>
                                      ELSE <<mant, row + least_exp>>

(* do_write_mantissa: digits until nothing is left.                        *)
Mantissa(mant) ==
  LET digits == [i \in 1 .. point_digits + 1 |->
                   (mant \div 10^(point_digits + 1 - i)) % 10]
  IN SubSeq(digits, 1, SelectLastInSeq(digits, LAMBDA d : d # 0))

(* What put_DD leaves in the object.                                       *)
put_DD(v) ==
  LET d == do_frexp10_17(v)
  IN IF IsOrdinary(v)
       THEN [negative |-> v.negative, digits |-> Mantissa(d[1]), exp |-> d[2]]
       ELSE [negative |-> v.negative,
             word |-> IF IsZero(v) THEN "0" ELSE IF v.sig = 0 THEN "infinity" ELSE "nan"]
=============================================================================
