--------------------------------- MODULE Yy ---------------------------------
(***************************************************************************)
(* yy_double_to_string (src/yy/yy_double.c).  The significand is scaled by *)
(* 10^-k, k = floor(log10(2^exp)), so that one unit in the last place is   *)
(* between 1 and 10; the candidates are the neighbouring integers and the  *)
(* neighbouring multiples of ten.  A fast path decides when no comparison  *)
(* is near a tie; otherwise, and for a power of two, a full path does.     *)
(* Integers without a fraction are written as they are.                    *)
(***************************************************************************)
EXTENDS DecimalText

CONSTANTS
  yy_bits,              \* bits of u64 (64)
  yy_digits,            \* digits of the shorter significands of normals (16)
  pow10_sig_table       \* e |-> <<hi, lo>>, two words of 10^e, rounded down

(* What the parameters have to satisfy. *)
YyParameters ==
  /\ num_sig_bits \in Nat \ {0}
  /\ yy_bits \in Nat
  /\ yy_bits >= num_sig_bits + 8
  /\ yy_digits \in Nat

YWord == 2^yy_bits

(* What both paths compute: the integer sig_hi with its fraction sig_lo,   *)
(* and, with four bits before the point, the distance c from the multiple  *)
(* of ten below, half_ulp, and what is left to the multiple of ten above.  *)
Scaled(sig_bin, exp_bin, k) ==
  LET h   == exp_bin + ((-k * 217707) \div 2^16)
      p10 == pow10_sig_table[-k]
      cb  == sig_bin * 2^(h + 1)
      sig    == cb * p10[1] + ((cb * p10[2]) \div YWord)
      sig_hi == sig \div YWord
      sig_lo == sig % YWord
      c      == (sig_hi % 10) * 2^(yy_bits - 4) + (sig_lo \div 16)
      half_ulp == p10[1] \div 2^(4 - h)
  IN [sig_hi |-> sig_hi, sig_lo |-> sig_lo, c |-> c, half_ulp |-> half_ulp,
      t1 |-> c + half_ulp, rest |-> (10 * 2^(yy_bits - 4) - c - half_ulp) % YWord]

Half == YWord \div 2
RoundU0(s) == s.t1 \div 2^(yy_bits - 4) >= 10

(* Trim the last digit, downwards or upwards, or round to the unit.        *)
Chosen(s, round_d0, round_u0, round_u1) ==
  LET ten == s.sig_hi - (s.sig_hi % 10)
  IN IF round_d0 \/ round_u0 THEN ten + (IF round_u0 THEN 10 ELSE 0)
                             ELSE s.sig_hi + (IF round_u1 THEN 1 ELSE 0)

FastAppliesAlways(s) == TRUE             \* mutant of FastApplies
FastApplies(s) == s.sig_lo # Half /\ s.half_ulp # s.c /\ s.rest > 1
FastPath(s)    == Chosen(s, s.half_ulp >= s.c, RoundU0(s), s.sig_lo >= Half)

FullPath(s, sig_bin, k, irregular) ==
  LET even == sig_bin % 2 = 0
      d0   == IF irregular THEN s.half_ulp \div 2 >= s.c
              ELSE s.half_ulp > s.c \/ (s.half_ulp = s.c /\ even)
      u1   == IF irregular
                THEN s.sig_lo > Half \/ s.half_ulp \div 2 < s.sig_lo \div 16
                ELSE s.sig_lo > Half \/ (s.sig_lo = Half /\ s.sig_hi % 2 = 1)
      u0   == IF s.rest <= 1 /\ (k = 0 \/ s.rest = 1) THEN even ELSE RoundU0(s)
  IN Chosen(s, d0, u0, u1)

(* <<sig_dec, exp_dec>>.                                                   *)
f64_bin_to_dec(sig_bin, exp_bin) ==
  LET irregular == sig_bin = implicit_bit
      k == (exp_bin * 315653 - (IF irregular THEN 131237 ELSE 0)) \div 2^20
      s == Scaled(sig_bin, exp_bin, k)
  IN <<IF ~irregular /\ FastApplies(s) THEN FastPath(s)
                                       ELSE FullPath(s, sig_bin, k, irregular), k>>

-----------------------------------------------------------------------------
IsSmallInteger(v) ==
  /\ v.exp # 0
  /\ BinExp(v) \in -num_sig_bits .. 0
  /\ BinSig(v) % 2^(-BinExp(v)) = 0

(* write_u64_len_16_to_17_trim: exactly 16 or 17 digits, zeros at the end  *)
(* trimmed.                                                                *)
WriteNormal(negative, dec) ==
  LET sig_len == yy_digits + (IF dec[1] >= 10^yy_digits THEN 1 ELSE 0)
      digits  == [i \in 1..sig_len |-> (dec[1] \div 10^(sig_len - i)) % 10]
      kept    == CHOOSE n \in 0..sig_len :
                   /\ \A i \in n + 1..sig_len : digits[i] = 0
                   /\ n = 0 \/ digits[n] # 0
  IN [negative |-> negative, digits |-> SubSeq(digits, 1, kept),
      exp |-> dec[2] + sig_len - 1]

WriteTrimmed(negative, d, k) ==
  LET t == Trimmed(d, k) IN Written(negative, t[1], t[2])

(* What yy_double_to_string leaves in buf.                                 *)
yy_double_to_string(v) ==
  CASE v.exp = exp_mask -> [negative |-> v.negative /\ v.sig = 0,
                            word |-> IF v.sig = 0 THEN "Infinity" ELSE "NaN"]
    [] IsZero(v) -> [negative |-> v.negative, word |-> "0.0"]
    [] IsSmallInteger(v) ->
         WriteTrimmed(v.negative, BinSig(v) \div 2^(-BinExp(v)), 0)
    [] v.exp \in 1..exp_mask - 1 /\ ~IsSmallInteger(v) ->
         WriteNormal(v.negative, f64_bin_to_dec(BinSig(v), BinExp(v)))
    [] v.exp = 0 /\ v.sig > 0 ->
         LET dec == f64_bin_to_dec(v.sig, BinExp(v))
         IN WriteTrimmed(v.negative, dec[1], dec[2])
=============================================================================
