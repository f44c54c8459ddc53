------------------------------- MODULE Uscale -------------------------------
(***************************************************************************)
(* Unrounded scaling (src/uscale/uscale.c).  The significand is moved to   *)
(* the top of a word, multiplied by a power of ten of two words, and kept  *)
(* with two fraction bits, the last of which is sticky: an "unrounded"     *)
(* number, from which the floor, the ceiling and the nearest integer of    *)
(* the scaled value can all be read.  Zero is answered apart, a sign is    *)
(* written first; inf and nan are not told from numbers, and no caller     *)
(* passes them.                                                            *)
(***************************************************************************)
EXTENDS BinaryFloat

CONSTANTS
  uscale_bits,    \* bits of uint64_t (64)
  pow10Tab        \* p |-> <<pmHi, pmLo>>, the power 10^p as pmHi words - pmLo

(* What the parameters have to satisfy. *)
UscaleParameters ==
  /\ num_sig_bits \in Nat \ {0}
  /\ uscale_bits \in Nat
  /\ uscale_bits > num_sig_bits + 3

UWord == 2^uscale_bits

(* Arithmetic shifts of a product with a 32-bit reciprocal.                *)
log10Pow2(x) == (x * 78913) \div 2^18
log2Pow10(x) == (x * 108853) \div 2^15
skewed(e)    == (e * 631305 - 261663) \div 2^21

-----------------------------------------------------------------------------
(* Unrounded numbers: four times the value, the lowest bit sticky.         *)
ufloor(u)    == u \div 4
uceil(u)     == (u + 3) \div 4
unudge(u, d) == u + d
uround(u)    == (u + 1 + ((u \div 4) % 2)) \div 4

(* A double as m * 2^e with the top bit of m set.                          *)
spare_bits == uscale_bits - 1 - num_sig_bits
exp_bias   == exp_mask \div 2 + uscale_bits - 1
unpack64(v) ==
  IF v.exp = 0
    THEN LET s == CHOOSE n \in 0..uscale_bits :
                    v.sig * 2^(spare_bits + n) \in UWord \div 2 .. UWord - 1
         IN [m |-> v.sig * 2^(spare_bits + s), e |-> 1 - exp_bias - s]
    ELSE [m |-> UWord \div 2 + v.sig * 2^spare_bits, e |-> v.exp - exp_bias]

(* The table entry and the shift that scale by 2^e * 10^p; 10^p has lp + 1 *)
(* bits before its point.                                                  *)
prescale(e, p, lp) == [pmHi |-> pow10Tab[p][1], pmLo |-> pow10Tab[p][2],
                       s |-> -(e + lp + 3)]

(* The low word of the power is looked at only when the high one leaves    *)
(* the shifted-out bits undecided.                                         *)
uscale_impl(x, c) ==
  LET full      == x * c.pmHi
      mid1      == full % UWord
      mid2      == (x * c.pmLo) \div UWord
      undecided == (full \div UWord) % 2^c.s = 0
      borrow    == IF undecided /\ mid1 < mid2 THEN 1 ELSE 0
      sticky    == ~undecided \/ (mid1 - mid2) % UWord > 1
      u         == ((full \div UWord - borrow) % UWord) \div 2^c.s
  IN IF sticky /\ u % 2 = 0 THEN u + 1 ELSE u

-----------------------------------------------------------------------------
(* The zeros at the end of x are taken away, n of them at a time.          *)
cut(t, n) == IF t[1] % 10^n = 0 THEN <<t[1] \div 10^n, t[2] + n>> ELSE t
trimZeros(x, p) ==
  IF x % 10 # 0 THEN <<x, p>>
                ELSE cut(cut(cut(cut(cut(<<x, p>>, 1), 8), 4), 2), 1)

(* Mutant of Interval: as wide below a power of two as above it. *)
IntervalSymmetric(m, e) ==
  LET min_e == 1 - exp_bias
      b     == IF e < min_e THEN spare_bits + (min_e - e) ELSE spare_bits
  IN [p   |-> -log10Pow2(e + b), min |-> m - 2^(b - 1), max |-> m + 2^(b - 1),
      odd |-> (m \div 2^b) % 2]

(* The end points of the rounding interval, b being the position of the    *)
(* last bit of the significand in m, and the power of ten that leaves the  *)
(* interval an integer or two wide.                                        *)
Interval(m, e) ==
  LET min_e  == 1 - exp_bias
      narrow == m = UWord \div 2 /\ e > min_e
      b      == IF ~narrow /\ e < min_e THEN spare_bits + (min_e - e)
                                         ELSE spare_bits
  IN [p   |-> IF narrow THEN -skewed(e + b) ELSE -log10Pow2(e + b),
      min |-> m - (IF narrow THEN 2^(b - 2) ELSE 2^(b - 1)),
      max |-> m + 2^(b - 1),
      odd |-> (m \div 2^b) % 2]

(* <<d, k>> with d * 10^k the shortest decimal of v.                       *)
Short(v) ==
  LET f    == unpack64(v)
      i    == Interval(f.m, f.e)
      pre  == prescale(f.e, i.p, log2Pow10(i.p))
      dmin == uceil(unudge(uscale_impl(i.min, pre), i.odd))
      dmax == ufloor(unudge(uscale_impl(i.max, pre), -i.odd))
  IN CASE (dmax \div 10) * 10 >= dmin -> trimZeros(dmax \div 10, -(i.p - 1))
       [] (dmax \div 10) * 10 < dmin /\ dmin < dmax ->
            <<uround(uscale_impl(f.m, pre)), -i.p>>
       [] OTHER -> <<dmin, -i.p>>

(* The number of digits, from the number of bits.                          *)
bitsLen64(x)   == CHOOSE n \in 1..uscale_bits : 2^(n - 1) <= x /\ x < 2^n
countDigits(d) == LET nd == log10Pow2(bitsLen64(d))
                  IN nd + (IF d >= 10^nd THEN 1 ELSE 0)

(* What uscale_short leaves in dst: d in nd digit places.                  *)
uscale_short(v) ==
  LET short == Short(v)
      nd    == countDigits(short[1])
  IN IF IsZero(v)
       THEN [negative |-> FALSE, word |-> "0"]
       ELSE [negative |-> v.negative,
             digits   |-> [i \in 1..nd |-> (short[1] \div 10^(nd - i)) % 10],
             exp      |-> short[2] + nd - 1]
=============================================================================
