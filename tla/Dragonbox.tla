----------------------------- MODULE Dragonbox -----------------------------
(***************************************************************************)
(* Dragonbox (src/dragonbox/dragonbox.h), with the policies to_chars_n     *)
(* takes: nearest-to-even both ways, the full cache, trailing zeros left   *)
(* to the printing.  The upper end of the rounding interval, scaled so     *)
(* that the interval is 10^kappa to 10^(kappa+1) wide, is divided by       *)
(* 10^(kappa+1); what remains, compared with the width, tells whether the  *)
(* quotient is in the interval.  If not, the next digit is rounded, and a  *)
(* parity bit of one more product settles the last unit.  A power of two   *)
(* has a narrower interval and goes another way.                           *)
(***************************************************************************)
EXTENDS DecimalText

CONSTANTS
  carrier_bits,     \* bits of carrier_uint (64)
  cache             \* k |-> <<high, low>>, two words of 10^k, rounded up

(* What the parameters have to satisfy. *)
DragonboxParameters ==
  /\ num_sig_bits \in Nat \ {0}
  /\ carrier_bits \in Nat
  /\ carrier_bits >= num_sig_bits + 9      \* kappa >= 1

Carrier == 2^carrier_bits

floor_log10_pow2(e) == (e * 315653) \div 2^20
floor_log2_pow10(e) == (e * 1741647) \div 2^19
floor_log5_pow2(e)  == (e * 225799) \div 2^19
floor_log5_pow2_minus_log5_3(e) == (e * 451597 - 715764) \div 2^20
floor_log10_pow2_minus_log10_4_over_3(e) == (e * 631305 - 261663) \div 2^21

kappa         == floor_log10_pow2(carrier_bits - num_sig_bits - 2) - 1
big_divisor   == 10^(kappa + 1)
small_divisor == 10^kappa

-----------------------------------------------------------------------------
(* The three words of u * cache[k], and what the code reads of them.       *)
Lowest(u, c) == (u * c[2]) % Carrier
Upper(u, c)  == u * c[1] + (u * c[2]) \div Carrier
compute_mul(u, c) ==
  [integer_part |-> Upper(u, c) \div Carrier,
   is_integer   |-> Upper(u, c) % Carrier = 0]
compute_delta(c, beta) == c[1] \div 2^(carrier_bits - 1 - beta)
compute_mul_parity(u, c, beta) ==
  LET high == Upper(u, c) % Carrier
  IN [parity     |-> (high \div 2^(carrier_bits - beta)) % 2 = 1,
      is_integer |-> /\ (high * 2^beta) % Carrier = 0
                     /\ Lowest(u, c) \div 2^(carrier_bits - beta) = 0]

Scaling(minus_k, e) == [c |-> cache[-minus_k], beta |-> e + floor_log2_pow10(-minus_k)]
prefer_round_down(d) == d % 2 # 0

-----------------------------------------------------------------------------
(* The binary exponents at which the left end of the shorter interval, or  *)
(* the middle between two decimals, is an integer.                         *)
FloorLog2(n) == CHOOSE b \in 0..30 : 2^b <= n /\ (b = 30 \/ n < 2^(b + 1))
Fives(n)     == CHOOSE f \in 0..13 : n % 5^f = 0 /\ (n \div 5^f) % 5 # 0
left_endpoint_integer  ==
  2 .. 2 + FloorLog2(10^(Fives(2^(num_sig_bits + 2) - 1) + 1) \div 3)
shorter_interval_tie ==
  -floor_log5_pow2_minus_log5_3(num_sig_bits + 4) - 2 - num_sig_bits
    .. -floor_log5_pow2(num_sig_bits + 2) - 2 - num_sig_bits

(* nearest_to_even_t takes the shorter interval closed at both ends.       *)
ShorterInterval(e) ==
  LET minus_k == floor_log10_pow2_minus_log10_4_over_3(e)
      s    == Scaling(minus_k, e)
      high == s.c[1]
      cut  == 2^(carrier_bits - num_sig_bits - 1 - s.beta)
      xi   == (high - high \div 2^(num_sig_bits + 2)) \div cut
                + (IF e \in left_endpoint_integer THEN 0 ELSE 1)
      zi   == (high + high \div 2^(num_sig_bits + 1)) \div cut
      y    == (high \div (cut \div 2) + 1) \div 2
  IN CASE (zi \div 10) * 10 >= xi -> <<zi \div 10, minus_k + 1>>
       [] /\ (zi \div 10) * 10 < xi
          /\ prefer_round_down(y) /\ e \in shorter_interval_tie -> <<y - 1, minus_k>>
       [] /\ (zi \div 10) * 10 < xi
          /\ ~(prefer_round_down(y) /\ e \in shorter_interval_tie) ->
            <<IF y < xi THEN y + 1 ELSE y, minus_k>>

-----------------------------------------------------------------------------
(* Mutant of SmallDivisor: the parity is not asked for. *)
SmallDivisorNoParity(two_fc, d, r, deltai, s, minus_k) ==
  LET dist == r - deltai \div 2 + small_divisor \div 2
  IN <<10 * d + dist \div small_divisor, minus_k + kappa>>

(* Step 3: round at the smaller divisor, from the remainder r.             *)
SmallDivisor(two_fc, d, r, deltai, s, minus_k) ==
  LET dist   == r - deltai \div 2 + small_divisor \div 2
      approx_y_parity == (dist + small_divisor \div 2) % 2 = 1
      near   == 10 * d + dist \div small_divisor
      y      == compute_mul_parity(two_fc, s.c, s.beta)
      down   == /\ dist % small_divisor = 0
                /\ \/ y.parity # approx_y_parity
                   \/ (prefer_round_down(near) /\ y.is_integer)
  IN <<IF down THEN near - 1 ELSE near, minus_k + kappa>>

(* Steps 1 and 2: the quotient by the bigger divisor, if it is inside.     *)
NormalInterval(two_fc, e, even) ==
  LET minus_k == floor_log10_pow2(e) - kappa
      s      == Scaling(minus_k, e)
      deltai == compute_delta(s.c, s.beta)
      z      == compute_mul((two_fc + 1) * 2^s.beta, s.c)   \* two_fc | 1
      d      == z.integer_part \div big_divisor
      r      == z.integer_part % big_divisor
      x      == compute_mul_parity(two_fc - 1, s.c, s.beta)
      at_right == r < deltai /\ r = 0 /\ z.is_integer /\ ~even
      inside == \/ r < deltai /\ ~at_right
                \/ r = deltai /\ (x.parity \/ (x.is_integer /\ even))
  IN CASE inside   -> <<d, minus_k + kappa + 1>>
       [] at_right -> SmallDivisor(two_fc, d - 1, big_divisor, deltai, s, minus_k)
       [] ~inside /\ ~at_right -> SmallDivisor(two_fc, d, r, deltai, s, minus_k)

compute_nearest(v) ==
  IF v.exp # 0 /\ v.sig = 0
    THEN ShorterInterval(BinExp(v))
    ELSE NormalInterval(2 * BinSig(v), BinExp(v), BinSig(v) % 2 = 0)

(* What to_chars_n leaves in buffer: the zeros at the end are not printed, *)
(* and neither is the sign of nan.                                         *)
to_chars_n(v) ==
  LET n == compute_nearest(v)
      t == Trimmed(n[1], n[2])
  IN IF IsOrdinary(v)
       THEN Written(v.negative, t[1], t[2])
       ELSE [negative |-> v.negative /\ (IsZero(v) \/ v.sig = 0),
             word     |-> IF IsZero(v) THEN "0" ELSE IF v.sig = 0 THEN "inf" ELSE "nan"]
=============================================================================
