----------------------------- MODULE BinaryFloat -----------------------------
(***************************************************************************)
(* The binary floating-point format every converter of the repository      *)
(* takes apart, with its widths as constants, and the exact meaning of     *)
(* "a decimal identifies a binary value".  The repository fixes the widths *)
(* to those of double (num_sig_bits = 52, exp_mask = 0x7ff); the runs take *)
(* a format with the same structure and fewer bits, whose values TLC can   *)
(* enumerate.                                                              *)
(*                                                                         *)
(* Nothing here is rounded.  A binary number n * 2^q and a decimal number  *)
(* d * 10^k are compared after multiplying both by the positive powers     *)
(* that make them integers.                                                *)
(***************************************************************************)
EXTENDS Integers, Sequences

CONSTANTS
  num_sig_bits,   \* explicitly stored significand bits (52)
  exp_mask        \* the largest raw exponent, of inf and nan (0x7ff)

implicit_bit == 2^num_sig_bits

(* What "Remove the exponent bias" subtracts: num_sig_bits + 1023.         *)
exp_offset == num_sig_bits + exp_mask \div 2

(* The fields of a double, as std::bit_cast shows them.                    *)
Double == [negative : BOOLEAN, exp : 0..exp_mask, sig : 0..implicit_bit - 1]

IsSpecial(v)   == v.exp = exp_mask                  \* inf or nan
IsZero(v)      == v.exp = 0 /\ v.sig = 0
IsOrdinary(v)  == ~IsSpecial(v) /\ ~IsZero(v)

(* IEEE 754: |v| = BinSig(v) * 2^BinExp(v).                                *)
BinSig(v) == IF v.exp = 0 THEN v.sig ELSE v.sig + implicit_bit
BinExp(v) == (IF v.exp = 0 THEN 1 ELSE v.exp) - exp_offset

(* The gap below a power of two is half the gap above it, unless the       *)
(* number below is a subnormal (raw exponent 1).                           *)
HalfGapBelow(v) == v.sig = 0 /\ v.exp > 1

(* The midpoints to the neighbours of |v|, in quarters of 2^BinExp(v).     *)
LowerQuarters(v) == 4 * BinSig(v) - (IF HalfGapBelow(v) THEN 1 ELSE 2)
UpperQuarters(v) == 4 * BinSig(v) + 2

-----------------------------------------------------------------------------
(* What ^ means: the provers know it for numbers only, so a module with    *)
(* proofs assumes it for the bases and the exponents that occur.           *)
PowerAt(b, n) == b^n \in Nat \ {0} /\ b^(n + 1) = b * b^n

(* n * 2^q compared with d * 10^k is n * Twos(q, k) compared with          *)
(* d * Tens(q, k).                                                         *)
Positive(x) == IF x > 0 THEN x ELSE 0

Twos(q, k) == 5^Positive(-k) * 2^Positive(q - k)
Tens(q, k) == 5^Positive(k)  * 2^Positive(k - q)

(* The powers that the factors of the exponents j and j + 1 need are what  *)
(* ^ says.                                                                 *)
PowersNear(q, j) ==
  /\ PowerAt(5, Positive(j)) /\ PowerAt(5, Positive(-j - 1))
  /\ PowerAt(2, Positive(j - q)) /\ PowerAt(2, Positive(q - j - 1))

(* a * b <= c * d over limbs, so that no intermediate number leaves 31     *)
(* bits while a and c stay below 2^19, and a * b and c * d below 2^43.      *)
Limb == 4096
High(a, b) == a * (b \div Limb) + (a * (b % Limb)) \div Limb
Low(a, b)  == (a * (b % Limb)) % Limb
LeqProd(a, b, c, d) ==
  \/ High(a, b) < High(c, d)
  \/ High(a, b) = High(c, d) /\ Low(a, b) <= Low(c, d)

(* d * 10^k on one side, n quarters of 2^q on the other.                   *)
DecimalLeq(d, k, n, q) == LeqProd(4 * d, Tens(q, k), n, Twos(q, k))
DecimalGeq(d, k, n, q) == LeqProd(n, Twos(q, k), 4 * d, Tens(q, k))

(* e is n quarters of 2^q over 10^k rounded to odd: exact if it is even,   *)
(* and off by less than one if it is odd.                                  *)
IsRoundToOdd(e, n, q, k) ==
  IF e % 2 = 0
    THEN /\ LeqProd(e, Tens(q, k), n, Twos(q, k))
         /\ LeqProd(n, Twos(q, k), e, Tens(q, k))
    ELSE /\ ~LeqProd(n, Twos(q, k), e - 1, Tens(q, k))
         /\ ~LeqProd(e + 1, Tens(q, k), n, Twos(q, k))

(* d * 10^k is in the rounding interval of v: a correct, half-to-even      *)
(* strtod reads it as |v|.                                                 *)
RoundTrips(v, d, k) ==
  LET lower == LowerQuarters(v)
      upper == UpperQuarters(v)
      q     == BinExp(v)
  IN IF BinSig(v) % 2 = 0
       THEN DecimalGeq(d, k, lower, q) /\ DecimalLeq(d, k, upper, q)
       ELSE ~DecimalLeq(d, k, lower, q) /\ ~DecimalGeq(d, k, upper, q)

(* m * 10^j, a midpoint doubled, is below (above) 2 * |v|.                 *)
MidpointBelow(v, m, j) == ~DecimalGeq(m, j, 8 * BinSig(v), BinExp(v))
MidpointAbove(v, m, j) == ~DecimalLeq(m, j, 8 * BinSig(v), BinExp(v))

(* Of d * 10^k and e * 10^k, the second is strictly closer to |v|.         *)
Closer(v, d, e, k) ==
  \/ e > d /\ MidpointBelow(v, d + e, k)
  \/ e < d /\ MidpointAbove(v, d + e, k)

(* A decimal with fewer than len digits identifies v; d * 10^k has len     *)
(* digits and identifies v, so any shorter one has an exponent in          *)
(* k + 1 .. k + len.  The interval has no holes: if any multiple of 10^j   *)
(* is in it, one next to d * 10^k is.                                      *)
HasShorter(v, d, k, len) ==
  \E j \in k + 1 .. k + len :
    \E n \in {d \div 10^(j - k), d \div 10^(j - k) + 1} :
      n < 10^(len - 1) /\ RoundTrips(v, n, j)

(* A decimal of the same length as d * 10^k identifies v and is closer to  *)
(* it.  Only the two neighbours can be; below a power of ten the           *)
(* neighbour has the next smaller exponent.                                *)
HasCloser(v, d, k, len) ==
  \/ \E e \in {d - 1, d + 1} :
        e > 0 /\ RoundTrips(v, e, k) /\ Closer(v, d, e, k)
  \/ /\ d = 10^(len - 1)
     /\ RoundTrips(v, 10^len - 1, k - 1)
     /\ Closer(v, 10 * d, 10^len - 1, k - 1)

(* The integer a sequence of digits stands for.                            *)
DigitsValue(digits) ==
  LET val[i \in 0..Len(digits)] ==
        IF i = 0 THEN 0 ELSE 10 * val[i - 1] + digits[i]
  IN val[Len(digits)]
=============================================================================
