-------------------------------- MODULE Fmt --------------------------------
(***************************************************************************)
(* fmt::format_to(buffer, FMT_COMPILE("{}"), value), {fmt}'s own version   *)
(* of Dragonbox (src/fmt/include/fmt/format-inl.h).  It takes the shorter  *)
(* interval as closed at both ends, has its thresholds as literals, rounds *)
(* a tie without looking at the left end, and removes trailing zeros       *)
(* itself, with the inverses of five and 25 modulo the word.               *)
(***************************************************************************)
EXTENDS DecimalText

CONSTANTS
  fmt_bits,         \* bits of carrier_uint (64)
  fmt_kappa,        \* kappa (2)
  base_significands,    \* i |-> <<high, low>>, two words of 10^(min_k + i *
                        \* compression_ratio), rounded up
  min_k,                \* -292
  compression_ratio,    \* 27
  left_endpoint_lower, left_endpoint_upper,     \* 2 and 3
  tie_lower, tie_upper,                         \* -77 and -77
  magic_shift,      \* shift_amount (16)
  power_8,          \* <<8, 10^8>>: zeros removed at once, and half a word is left
  mod_inv           \* bits |-> m |-> mod_inv_m in words of so many bits (64, 32)

FWord == 2^fmt_bits
big_divisor   == 10^(fmt_kappa + 1)
small_divisor == 10^fmt_kappa

(* What the parameters have to satisfy. *)
FmtParameters ==
  /\ num_sig_bits \in Nat \ {0}
  /\ fmt_bits \in Nat /\ fmt_bits > num_sig_bits + 1 /\ fmt_bits % 2 = 0
  /\ fmt_kappa \in Nat \ {0}
  /\ compression_ratio \in Nat \ {0} /\ 5^(compression_ratio - 1) < FWord
  /\ power_8[1] % 2 = 0 /\ power_8[2] = 10^power_8[1]
  /\ \A bits \in {fmt_bits, fmt_bits \div 2} : \A m \in {5, 25} :
       (m * mod_inv[bits][m]) % 2^bits = 1

floor_log10_pow2(e) == (e * 315653) \div 2^20
floor_log2_pow10(e) == (e * 1741647) \div 2^19
floor_log10_pow2_minus_log10_4_over_3(e) == (e * 631305 - 261663) \div 2^21

-----------------------------------------------------------------------------
(* The two upper words of u * cache, and the two lower ones.               *)
umul192_upper128(u, c) == u * c[1] + (u * c[2]) \div FWord
umul192_lower128(u, c) ==
  [high |-> (u * c[1] + (u * c[2]) \div FWord) % FWord, low |-> (u * c[2]) % FWord]

compute_mul(u, c) ==
  LET r == umul192_upper128(u, c)
  IN [result |-> r \div FWord, is_integer |-> r % FWord = 0]

(* One power of ten in compression_ratio is in the table.  The others are  *)
(* the one before, multiplied by a power of five and cut to two words; one *)
(* is added without asking whether anything was cut off.                   *)
get_cached_power(k) ==
  LET cache_index == (k - min_k) \div compression_ratio
      kb     == cache_index * compression_ratio + min_k
      steps  == k - kb
      base   == base_significands[cache_index]
      shift  == floor_log2_pow10(k) - floor_log2_pow10(kb) - steps
      middle_low == base[2] * 5^steps
      recovered  == base[1] * 5^steps + middle_low \div FWord
      carried    == (recovered % 2^shift) * 2^(fmt_bits - shift)
  IN IF steps = 0 THEN base
     ELSE <<(recovered \div 2^shift) % FWord,
            (middle_low % FWord) \div 2^shift + carried + 1>>

compute_delta(c, beta) == c[1] \div 2^(fmt_bits - 1 - beta)

compute_mul_parity(two_f, c, beta) ==
  LET r == umul192_lower128(two_f, c)
  IN [parity     |-> (r.high \div 2^(fmt_bits - beta)) % 2 = 1,
      is_integer |-> /\ (r.high * 2^beta) % FWord = 0
                     /\ r.low \div 2^(fmt_bits - beta) = 0]

(* n / 10^kappa and whether it is exact, from one product.                 *)
check_divisibility_and_divide_by_pow10(n) ==
  LET magic == (2^magic_shift \div small_divisor) + 1
  IN [divisible |-> (n * magic) % 2^magic_shift < magic,
      quotient  |-> (n * magic) \div 2^magic_shift]

-----------------------------------------------------------------------------
(* <<n, s>> without the zeros at the end of n, s counting them, in words   *)
(* of `bits` bits: n is a multiple of 25 * 4 if and only if n times the    *)
(* inverse of 25, rotated by two, is at most a hundredth of the word.      *)
RemoveInWord(t, bits) ==
  LET word  == 2^bits
      rotr(n, by) == (n \div 2^by) + (n % 2^by) * 2^(bits - by)
      q2(n) == rotr((n * mod_inv[bits][25]) % word, 2)
      q1(n) == rotr((n * mod_inv[bits][5]) % word, 1)
      pairs[n \in Nat, s \in Nat] ==
        IF q2(n) > (word - 1) \div 100 THEN <<n, s>> ELSE pairs[q2(n), s + 2]
      p == pairs[t[1], t[2]]
  IN IF q1(p[1]) <= (word - 1) \div 10 THEN <<q1(p[1]), p[2] + 1>> ELSE p

remove_trailing_zeros(n) ==
  IF n % power_8[2] = 0 THEN RemoveInWord(<<n \div power_8[2], power_8[1]>>, fmt_bits \div 2)
                        ELSE RemoveInWord(<<n, 0>>, fmt_bits)

WithoutZeros(significand, exponent) ==
  LET t == remove_trailing_zeros(significand) IN <<t[1], exponent + t[2]>>

shorter_interval_case(exponent) ==
  LET minus_k == floor_log10_pow2_minus_log10_4_over_3(exponent)
      beta == exponent + floor_log2_pow10(-minus_k)
      high == get_cached_power(-minus_k)[1]
      cut  == 2^(fmt_bits - num_sig_bits - 1 - beta)
      xi   == (high - high \div 2^(num_sig_bits + 2)) \div cut
                + (IF exponent \in left_endpoint_lower .. left_endpoint_upper THEN 0 ELSE 1)
      zi   == (high + high \div 2^(num_sig_bits + 1)) \div cut
      y    == (high \div (cut \div 2) + 1) \div 2
      tie  == exponent \in tie_lower .. tie_upper
  IN CASE (zi \div 10) * 10 >= xi -> WithoutZeros(zi \div 10, minus_k + 1)
       [] (zi \div 10) * 10 < xi /\ tie -> <<y - (y % 2), minus_k>>
       [] (zi \div 10) * 10 < xi /\ ~tie -> <<IF y < xi THEN y + 1 ELSE y, minus_k>>

-----------------------------------------------------------------------------
(* Step 3, from the quotient d by the big divisor and its remainder r.     *)
small_divisor_case(two_fc, d, r, deltai, beta, minus_k) ==
  LET dist == r - deltai \div 2 + small_divisor \div 2
      approx_y_parity == (dist + small_divisor \div 2) % 2 = 1
      div  == check_divisibility_and_divide_by_pow10(dist)
      near == 10 * d + div.quotient
      y    == compute_mul_parity(two_fc, get_cached_power(-minus_k), beta)
      down == /\ div.divisible
              /\ \/ y.parity # approx_y_parity
                 \/ y.is_integer /\ near % 2 # 0
  IN <<IF down THEN near - 1 ELSE near, minus_k + fmt_kappa>>

NormalInterval(significand, exponent) ==
  LET even    == significand % 2 = 0
      two_fc  == 2 * significand
      minus_k == floor_log10_pow2(exponent) - fmt_kappa
      c       == get_cached_power(-minus_k)
      beta    == exponent + floor_log2_pow10(-minus_k)
      deltai  == compute_delta(c, beta)
      z       == compute_mul((two_fc + 1) * 2^beta, c)
      d       == z.result \div big_divisor
      r       == z.result % big_divisor
      x       == compute_mul_parity(two_fc - 1, c, beta)
      at_right == r < deltai /\ r = 0 /\ z.is_integer /\ ~even
      inside  == \/ r < deltai /\ ~at_right
                 \/ r = deltai /\ (x.parity \/ (x.is_integer /\ even))
  IN CASE inside   -> WithoutZeros(d, minus_k + fmt_kappa + 1)
       [] at_right -> small_divisor_case(two_fc, d - 1, big_divisor, deltai, beta, minus_k)
       [] ~inside /\ ~at_right -> small_divisor_case(two_fc, d, r, deltai, beta, minus_k)

(* <<significand, exponent>>.                                              *)
to_decimal(v) ==
  IF v.exp # 0 /\ v.sig = 0 THEN shorter_interval_case(BinExp(v))
                            ELSE NormalInterval(BinSig(v), BinExp(v))

(* What write leaves in buffer: every digit of the significand, whether    *)
(* the notation is fixed or exponential; zero has none to be shortened.    *)
fmt_write(v) ==
  IF IsOrdinary(v)
    THEN LET f == to_decimal(v) IN Written(v.negative, f[1], f[2])
    ELSE [negative |-> v.negative,
          word |-> IF IsZero(v) THEN "0" ELSE IF v.sig = 0 THEN "inf" ELSE "nan"]
=============================================================================
