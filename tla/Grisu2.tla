------------------------------- MODULE Grisu2 -------------------------------
(***************************************************************************)
(* Grisu2 (src/milo/dtoa_milo.h).  The value and its two boundaries, as    *)
(* one-word floating-point numbers, are multiplied by a cached power of    *)
(* ten into a fixed window of binary exponents; digits of the upper        *)
(* boundary are generated until the rest is smaller than the interval, and *)
(* the last one is then moved towards the value.  The power of ten that    *)
(* scales the distance to the value is read at -kappa, which can pass the  *)
(* end of its table: what is read there is any word.                       *)
(***************************************************************************)
EXTENDS BinaryFloat

CONSTANTS
  kDiySignificandSize,   \* bits of a DiyFp's f (64)
  kCachedPowers_F,       \* the cached powers of ten, from 0
  kCachedPowers_E,
  cached_min,            \* decimal exponent of the first one (-348)
  cached_step,           \* distance of their decimal exponents (8)
  alpha,                 \* least exponent a scaled boundary may have (-60)
  log10_2_num,           \* log10(2) (0.30102999566398114)
  log10_2_den,
  kPow10_size            \* elements of the table in DigitGen (10)

(* What the parameters have to satisfy. *)
Grisu2Parameters ==
  /\ num_sig_bits \in Nat \ {0}
  /\ kDiySignificandSize \in Nat
  /\ kDiySignificandSize > num_sig_bits + 2
  /\ cached_step \in Nat \ {0}
  /\ kPow10_size \in Nat \ {0}

DiyWord == 2^kDiySignificandSize

-----------------------------------------------------------------------------
(* DiyFp: f * 2^e.                                                         *)
Times(x, y) ==
  LET p == x.f * y.f
  IN [f |-> p \div DiyWord + (IF p % DiyWord >= DiyWord \div 2 THEN 1 ELSE 0),
      e |-> x.e + y.e + kDiySignificandSize]

Normalize(x) ==
  LET s == CHOOSE n \in 0..kDiySignificandSize - 1 :
             x.f * 2^n \in DiyWord \div 2 .. DiyWord - 1
  IN [f |-> x.f * 2^s, e |-> x.e - s]

(* Mutant of NormalizedBoundaries: a power of two is as any other value. *)
NormalizedBoundariesRegular(x) ==
  LET pl == Normalize([f |-> 2 * x.f + 1, e |-> x.e - 1])
  IN [plus |-> pl, minus |-> [f |-> (2 * x.f - 1) * 2^(x.e - 1 - pl.e), e |-> pl.e]]

(* The midpoints to the neighbours, with the exponent of the upper one.    *)
NormalizedBoundaries(x) ==
  LET pl == Normalize([f |-> 2 * x.f + 1, e |-> x.e - 1])
      mi == IF x.f = implicit_bit THEN [f |-> 4 * x.f - 1, e |-> x.e - 2]
                                  ELSE [f |-> 2 * x.f - 1, e |-> x.e - 1]
  IN [plus |-> pl, minus |-> [f |-> mi.f * 2^(mi.e - pl.e), e |-> pl.e]]

(* The first cached power not below 10^k, and the exponent it leaves.      *)
CeilDiv(a, b) == -((-a) \div b)
GetCachedPower(e) ==
  LET k     == CeilDiv((alpha - 1 - e) * log10_2_num, log10_2_den) - cached_min - 1
      index == k \div cached_step + 1
  IN [c |-> [f |-> kCachedPowers_F[index], e |-> kCachedPowers_E[index]],
      K |-> -(cached_min + cached_step * index)]

-----------------------------------------------------------------------------
(* The last digit goes down while the upper boundary less the rest stays   *)
(* inside the interval and comes closer to the value.                      *)
GrisuRound(d, delta, rest, ten_kappa, wp_w) ==
  LET closer(r) == /\ r < wp_w
                   /\ delta - r >= ten_kappa
                   /\ \/ r + ten_kappa < wp_w
                      \/ wp_w - r > r + ten_kappa - wp_w
      down == CHOOSE n \in 0..9 :
                /\ ~closer(rest + n * ten_kappa)
                /\ \A m \in 0..n - 1 : closer(rest + m * ten_kappa)
  IN d - down

CountDecimalDigit32(n) == CHOOSE k \in 1..10 : 10^(k - 1) <= n /\ n < 10^k

(* After the digit of weight 10^kappa, tmp of Mp is left.  Digits of p1,   *)
(* the integer part, come first; the fraction p2 is multiplied by ten for  *)
(* each of the others, and delta with it.                                  *)
DigitGen(W, Mp, delta, garbage) ==
  LET one  == 2^(-Mp.e)
      wp_w == Mp.f - W.f
      p1   == Mp.f \div one
      p2[j \in Nat] == IF j = 0 THEN Mp.f % one ELSE (10 * p2[j - 1]) % one
      tmp(kappa) == (p1 % 10^kappa) * one + (Mp.f % one)
      whole == {kappa \in 0..CountDecimalDigit32(p1) - 1 : tmp(kappa) <= delta}
      part  == CHOOSE j \in 1..kDiySignificandSize :
                 /\ p2[j] < delta * 10^j
                 /\ \A i \in 1..j - 1 : p2[i] >= delta * 10^i
      d[j \in Nat] == IF j = 0 THEN p1 ELSE 10 * d[j - 1] + ((10 * p2[j - 1]) \div one)
      kPow10 == IF part < kPow10_size THEN 10^part ELSE garbage
      top    == CHOOSE kappa \in whole : \A other \in whole : other <= kappa
  IN IF whole # {}
       THEN <<GrisuRound(p1 \div 10^top, delta, tmp(top), 10^top * one, wp_w), top>>
       ELSE <<GrisuRound(d[part], delta * 10^part, p2[part], one,
                         (wp_w * kPow10) % DiyWord), -part>>

(* <<digits, K>>: the value is near digits * 10^K.                         *)
Grisu(v, garbage) ==
  LET x  == [f |-> BinSig(v), e |-> BinExp(v)]
      b  == NormalizedBoundaries(x)
      cp == GetCachedPower(b.plus.e)
      W  == Times(Normalize(x), cp.c)
      Wp == [Times(b.plus, cp.c) EXCEPT !.f = @ - 1]
      Wm == [Times(b.minus, cp.c) EXCEPT !.f = @ + 1]
      d  == DigitGen(W, Wp, Wp.f - Wm.f, garbage)
  IN <<d[1], d[2] + cp.K>>

(* What dtoa_milo leaves in buffer; the sign of zero is not written.       *)
dtoa_milo(v, garbage) ==
  LET d   == Grisu(v, garbage)
      len == CHOOSE n \in 1..kDiySignificandSize : 10^(n - 1) <= d[1] /\ d[1] < 10^n
  IN IF IsZero(v)
       THEN [negative |-> FALSE, word |-> "0"]
       ELSE [negative |-> v.negative,
             digits   |-> [i \in 1..len |-> (d[1] \div 10^(len - i)) % 10],
             exp      |-> d[2] + len - 1]
=============================================================================
