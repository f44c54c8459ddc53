----------------------------- MODULE MCSchubfach -----------------------------
(***************************************************************************)
(* Schubfach on a 12-bit IEEE format: 1 sign bit, 6 exponent bits, 5       *)
(* stored significand bits.  max_digits10 follows from the 6 significand   *)
(* bits, the word is the narrowest that holds ten times a shifted          *)
(* significand, and the tables are generated the way the code's were: the  *)
(* powers of ten as overestimates in two halves of word_bits - 1 bits, the *)
(* logarithms rounded at 20 fraction bits.                                 *)
(***************************************************************************)
EXTENDS Schubfach, TLC

HalfBits == word_bits - 1

(* floor(2^n / d) by long division, one bit of the dividend at a time.     *)
DividePow2(n, d) ==
  LET step[i \in 0..n] ==
        IF i = 0 THEN <<1 \div d, 1 % d>>
        ELSE LET prev == step[i - 1]
             IN <<2 * prev[1] + (2 * prev[2]) \div d, (2 * prev[2]) % d>>
  IN step[n][1]

(* floor(10^e * 2^(2 * HalfBits - 1 - floor(log2(10^e)))) + 1              *)
Pow10Significand(e) ==
  LET bits == 2 * HalfBits - 1 - Pow10BinExp(-e) + e
      exact == CASE e < 0              -> DividePow2(bits, 5^(-e))
                 [] e >= 0 /\ bits >= 0 -> 5^e * 2^bits
                 [] e >= 0 /\ bits < 0  -> 5^e \div 2^(-bits)
  IN exact + 1

MCpow10_significands ==
  [e \in -8..11 |-> <<Pow10Significand(e) \div HalfWord,
                      Pow10Significand(e) % HalfWord>>]

MCArguments == Double

MCarg_log10_3_over_4_sig == -131008

=============================================================================
