-------------------------------- MODULE Xjb --------------------------------
(***************************************************************************)
(* xjb64 (src/xjb/xjb64.cpp).  Like Zmij it scales by 10^(-k-1) and reads  *)
(* the last digit out of the fraction, but its table is rounded up, a      *)
(* power of two is scaled by the high word of the table alone (the         *)
(* product is a shift of it), and the smallest double and zero are         *)
(* constants.                                                              *)
(***************************************************************************)
EXTENDS BinaryFloat, SequencesExt

CONSTANTS
  xjb_bits,             \* bits of uint64_t (64)
  offset,               \* integral bits below the point of hi64 (6)
  c4,                   \* what rounds the last digit: 2^63 + 6
  max_dec_sig_len,      \* 17
  smallest,             \* the text of the smallest double, "5e-324"
  pow10_double          \* e |-> <<hi, lo>>, two words of 10^e, rounded up

(* What the parameters have to satisfy. *)
XjbParameters ==
  /\ num_sig_bits \in Nat \ {0}
  /\ xjb_bits \in Nat
  /\ offset \in 3 .. xjb_bits - num_sig_bits - 2
  /\ max_dec_sig_len \in Nat /\ max_dec_sig_len > 3

XWord == 2^xjb_bits

(* h7[exp]: the shift of the significand, computed from the raw exponent   *)
(* with the k of a regular double.                                         *)
kOf(q)   == (q * 78913) \div 2^18
hOf(q, k) == q + (((-k - 1) * 217707) \div 2^16)
h7(exp)  == LET q == exp - exp_offset + (IF exp = 0 THEN 1 ELSE 0)
            IN hOf(q, kOf(q)) + 1 + offset

(* The two high words of the product, cut at the point.                    *)
mul_u128_u64_high128(p10, cb) ==
  (p10[1] * cb + ((p10[2] * cb) \div XWord)) \div 2^offset

(* The last digit before the tie is settled; 2.5 becomes 2 in either case. *)
TwoAndAHalf(dot_one, one) == IF dot_one = XWord \div 4 THEN 2 ELSE one

(* Mutant of RegularX: the ends of an even significand are outside too. *)
RegularXOpen(c, exp) ==
  LET k    == kOf(exp - exp_offset)
      p10  == pow10_double[-1 - k]
      p    == mul_u128_u64_high128(p10, c * 2^h7(exp))
      dot_one  == p % XWord
      half_ulp == p10[1] \div 2^(offset + 1 - h7(exp))
      up   == half_ulp > XWord - 1 - dot_one
  IN [k |-> k, m |-> (p \div XWord) + (IF up THEN 1 ELSE 0),
      up_down |-> up \/ half_ulp > dot_one,
      one |-> TwoAndAHalf(dot_one, (dot_one * 10 + c4) \div XWord)]

(* k comes from the raw exponent, which a subnormal leaves one too small.  *)
RegularX(c, exp) ==
  LET k    == kOf(exp - exp_offset)
      p10  == pow10_double[-1 - k]
      p    == mul_u128_u64_high128(p10, c * 2^h7(exp))
      dot_one  == p % XWord
      half_ulp == (p10[1] \div 2^(offset + 1 - h7(exp))) + ((c + 1) % 2)
      up   == half_ulp > XWord - 1 - dot_one
  IN [k |-> k, m |-> (p \div XWord) + (IF up THEN 1 ELSE 0),
      up_down |-> up \/ half_ulp > dot_one,
      one |-> TwoAndAHalf(dot_one, (dot_one * 10 + c4) \div XWord)]

(* A power of two: what the regular path computed is thrown away, except   *)
(* the dot_one the last comparison reads.                                  *)
IrregularX(exp) ==
  LET q    == exp - exp_offset
      k    == (q * 315653 - 131072) \div 2^20
      h    == hOf(q, k)
      hi   == pow10_double[-1 - k][1]
      s    == num_sig_bits
      half_ulp == hi \div 2^(-h)
      dot_one  == (hi * 2^(s + 1 + h)) % XWord
      up       == half_ulp > XWord - 1 - dot_one
      top      == (dot_one \div 2^(s + 2)) * 5
      nine     == xjb_bits - s - 3                        \* 9
      rounded  == ((dot_one \div 2^(s + 1 + h)) * 5 + 2^(nine - h))
                    \div 2^(nine + 1 - h)
      regular  == mul_u128_u64_high128(pow10_double[-1 - kOf(q)],
                                       implicit_bit * 2^h7(exp)) % XWord
  IN [k |-> k, m |-> (hi \div 2^(nine + 2 - h)) + (IF up THEN 1 ELSE 0),
      up_down |-> up \/ half_ulp \div 2 > dot_one,
      one |-> TwoAndAHalf(regular,
                IF top % 2^nine > (half_ulp \div 2^(s + 3)) * 5
                  THEN (top \div 2^nine) + 1 ELSE rounded)]

-----------------------------------------------------------------------------
D17(m)   == m >= 10^(max_dec_sig_len - 2)

(* to_ascii16 and the digit after it: the digits of m, from its first      *)
(* place; without one, the zeros at the end are not counted.               *)
Ascii(dec) ==
  LET places == max_dec_sig_len - 2 + (IF D17(dec.m) THEN 1 ELSE 0)
      ascii  == [i \in 1..places |-> (dec.m \div 10^(places - i)) % 10]
  IN IF dec.up_down THEN SubSeq(ascii, 1, SelectLastInSeq(ascii, LAMBDA d : d # 0))
                    ELSE Append(ascii, dec.one)

(* A small subnormal starts with zeros, which are moved out again.         *)
xjb_text(v, dec) ==
  LET e10 == dec.k + max_dec_sig_len - 2 + (IF D17(dec.m) THEN 1 ELSE 0)
      ascii == Ascii(dec)
      lz  == IF v.exp = 0 /\ dec.m < 10^(max_dec_sig_len - 3)
               THEN SelectInSeq(ascii, LAMBDA d : d # 0) - 1 ELSE 0
  IN [negative |-> v.negative, digits |-> SubSeq(ascii, lz + 1, Len(ascii)),
      exp |-> e10 - lz]

(* What xjb64 leaves in buf.                                               *)
xjb64(v) ==
  CASE v.exp = 0 /\ v.sig = 0 -> [negative |-> v.negative, word |-> "0.0"]
    [] v.exp = 0 /\ v.sig = 1 ->
         [negative |-> v.negative, digits |-> smallest.digits, exp |-> smallest.exp]
    [] v.exp = exp_mask ->
         [negative |-> v.negative, word |-> IF v.sig = 0 THEN "inf" ELSE "nan"]
    [] v.exp = 0 /\ v.sig > 1 -> xjb_text(v, RegularX(v.sig, 0))
    [] v.exp \in 1..exp_mask - 1 /\ v.sig = 0 -> xjb_text(v, IrregularX(v.exp))
    [] v.exp \in 1..exp_mask - 1 /\ v.sig > 0 -> xjb_text(v, RegularX(BinSig(v), v.exp))
=============================================================================
