---------------------------- MODULE MCConverters ----------------------------
(***************************************************************************)
(* The converters on a small IEEE format: 1 sign bit, 6 exponent bits, 7   *)
(* stored significand bits.  Words have 15 bits, dragonbox's 16.  The      *)
(* tables are computed here the way the code's were: a power of ten cut to *)
(* its leading bits and rounded up, down or to nearest, as the table's     *)
(* owner does.                                                             *)
(***************************************************************************)
EXTENDS Converters

(* floor(2^n / d) by long division, one bit of the dividend at a time.     *)
DividePow2(n, d) ==
  LET step[i \in 0..n] ==
        IF i = 0 THEN <<1 \div d, 1 % d>>
        ELSE LET prev == step[i - 1]
             IN <<2 * prev[1] + (2 * prev[2]) \div d, (2 * prev[2]) % d>>
  IN step[n][1]

FloorLog2(n) == CHOOSE b \in 0..30 : 2^b <= n /\ (b = 30 \/ n < 2^(b + 1))

(* floor(log2(10^e)), and the leading n bits of 10^e, rounded down.  The   *)
(* powers of five past 5^13 are divided by a limb.                         *)
FiveLog2(e) == IF e <= 13 THEN FloorLog2(5^e) ELSE FloorLog2(High(5^(e - 10), 5^10)) + 12
Pow10Log2(e) == IF e >= 0 THEN e + FiveLog2(e) ELSE e - FloorLog2(5^(-e)) - 1
LeadingBits(e, n) ==
  LET shift == n - 1 - Pow10Log2(e) + e
  IN CASE e < 0                -> DividePow2(shift, 5^(-e))
       [] e \in 0..13 /\ shift >= 0 -> 5^e * 2^shift
       [] e \in 0..13 /\ shift < 0  -> 5^e \div 2^(-shift)
       [] e > 13               -> High(5^(e - 10), 5^10) \div 2^(-shift - 12)
IsExact(e, n) ==
  LET shift == n - 1 - Pow10Log2(e) + e
  IN e \in 0..13 /\ (shift >= 0 \/ 5^e % 2^(-shift) = 0)

W == 15

MCpow10Tab ==
  [p \in -9..12 |->
     LET pm == LeadingBits(p, 2 * W) + (IF IsExact(p, 2 * W) THEN 0 ELSE 1)
         hi == (pm + 2^W - 1) \div 2^W
     IN <<hi, hi * 2^W - pm>>]

(* Dragonbox's words are one bit wider: bit by bit, 10^e over its leading  *)
(* power of two, in two words of 16 bits, rounded up.                      *)
MCcache ==
  [k \in -9..13 |->
     LET log == FloorLog2(5^k)
         num == IF k < 0 THEN 2^(FloorLog2(5^(-k)) + 1) ELSE 5^k
         den == IF k < 0 THEN 5^(-k) ELSE 2^log
         rem[i \in 0..31] == IF i = 0 THEN num - den ELSE (2 * rem[i - 1]) % den
         bit(i) == IF i = 0 THEN 1 ELSE (2 * rem[i - 1]) \div den
         word[n \in 0..16, first \in {0, 16}] ==
           IF n = 0 THEN 0 ELSE 2 * word[n - 1, first] + bit(first + n - 1)
         low == word[16, 16] + (IF rem[31] = 0 THEN 0 ELSE 1)
     IN <<word[16, 0] + (low \div 2^16), low % 2^16>>]

(* Fmt keeps every seventh power: 5^6 is the last that fits in its word.   *)
MCmin_k == -9
MCbase_significands == [i \in 0..3 |-> MCcache[MCmin_k + 7 * i]]

(* What the formulas of dragonbox.h:3216-3235 give for this format.        *)
MCtie_lower == -13
MCtie_upper == -12
MCpower_8 == <<4, 10000>>
MCmod_inv ==
  [bits \in {8, 16} |->
     [m \in {5, 25} |-> CHOOSE x \in 1 .. 2^bits - 1 : (m * x) % 2^bits = 1]]

MCcached_min == -12
MCkCachedPowers_F == [i \in 0..24 |-> (LeadingBits(i - 12, W + 1) + 1) \div 2]
MCkCachedPowers_E == [i \in 0..24 |-> Pow10Log2(i - 12) - (W - 1)]
MCalpha == -11

(* double-conversion's texts fit in a buffer of 11 characters here. *)
MCkMinimalTargetExponent == -11
MCdecimal_in_shortest_low == -5
MCsb_size == 11
MCpoint_digits == 3

Words(x) == <<x % 2^pow5_word, x \div 2^pow5_word>>
MCDOUBLE_POW5_INV_SPLIT ==
  [q \in 0..8 |-> Words(DividePow2(DOUBLE_POW5_INV_BITCOUNT + FloorLog2(5^q), 5^q) + 1)]
MCDOUBLE_POW5_SPLIT ==
  [i \in 0..13 |-> LET k == FloorLog2(5^i) + 1 - DOUBLE_POW5_BITCOUNT
                   IN Words(IF k >= 0 THEN 5^i \div 2^k ELSE 5^i * 2^(-k))]

(* Zmij and yy cut their tables, xjb rounds it up.                          *)
MCpow10_significands ==
  [e \in -9..12 |-> <<LeadingBits(e, 2 * W) \div 2^W, LeadingBits(e, 2 * W) % 2^W>>]
MCpow10_double ==
  [e \in -9..12 |->
     LET c == LeadingBits(e, 2 * W) + (IF IsExact(e, 2 * W) THEN 0 ELSE 1)
     IN <<c \div 2^W, c % 2^W>>]

(* The smallest double is 2^-37 = 7.3e-12; the code's is 4.9e-324.         *)
MCsmallest == [digits |-> <<7>>, exp |-> -12]

(* Asteria's rows for 10^-12 to 10^9; 2^31 is the largest power of two.    *)
(* The bound of a row is the bits of the smallest double that reaches the  *)
(* power of ten.                                                           *)
MCleast_exp == -12
Bound(e) ==
  LET exp  == Pow10Log2(e) + exp_mask \div 2
      bits == IF exp >= 1 THEN num_sig_bits + 1 ELSE num_sig_bits + exp
  IN LeadingBits(e, bits) + (IF IsExact(e, bits) THEN 0 ELSE 1)
       + (IF exp >= 1 THEN (exp - 1) * implicit_bit ELSE 0)
MCs_decimal_multipliers ==
  [i \in 0..21 |->
     LET e == i + MCleast_exp
         scale == MCpoint_digits - e
     IN [bound |-> IF i = 0 THEN 0 ELSE Bound(e),
         mant  |-> LeadingBits(scale, W) + (IF IsExact(scale, W) THEN 0 ELSE 1),
         exp2  |-> Pow10Log2(scale) + 1]]

(* The reader's table goes from 10^-17 to 10^10 in steps of three, rounded *)
(* to nearest.  4.3e9 is the largest double.                               *)
MCkDecimalPowers_F ==
  <<23612, 23058, 22518, 21990, 21475, 20972, 20480, 20000, 19531, 19073>>
MCkDecimalPowers_E == <<-71, -61, -51, -41, -31, -21, -11, -1, 9, 19>>
FromZero(seq) == [i \in 0 .. Len(seq) - 1 |-> seq[i + 1]]
MCkDecimalPowers_F0 == FromZero(MCkDecimalPowers_F)
MCkDecimalPowers_E0 == FromZero(MCkDecimalPowers_E)
MCkMinDecimalPower == -12
MCkMinDecimalExponent == -17

-----------------------------------------------------------------------------
(* The decimal expansion of n * 2^q, all digits of it: [digits, exp], with *)
(* the exponent of the first digit.                                        *)
(* Numbers are multiplied in limbs of four digits, least significant first, *)
(* at most five factors at a time.                                         *)
TimesLimbs(limbs, m) ==
  LET mul[i \in 0 .. Len(limbs)] ==
        IF i = 0 THEN [limbs |-> <<>>, carry |-> 0]
        ELSE LET prev == mul[i - 1]
                 n    == m * limbs[i] + prev.carry
             IN [limbs |-> Append(prev.limbs, n % 10000), carry |-> n \div 10000]
      all == mul[Len(limbs)]
  IN IF all.carry = 0 THEN all.limbs ELSE Append(all.limbs, all.carry)
TimesPower(n, base, e) ==
  LET times[i \in 0 .. e \div 5] ==
        IF i = 0 THEN TimesLimbs(<<n % 10000, n \div 10000>>, base^(e % 5))
        ELSE TimesLimbs(times[i - 1], base^5)
  IN times[e \div 5]
DigitsOf(n) ==
  LET len == CHOOSE l \in 1..10 : n < 10^l /\ (l = 1 \/ n >= 10^(l - 1))
  IN [i \in 1..len |-> (n \div 10^(len - i)) % 10]
LimbDigits(limbs) ==
  LET digits == [i \in 1 .. 4 * Len(limbs) |->
                  (limbs[Len(limbs) - ((i - 1) \div 4)] \div 10^(3 - ((i - 1) % 4))) % 10]
      first  == CHOOSE i \in DOMAIN digits :
                  digits[i] # 0 /\ \A j \in 1 .. i - 1 : digits[j] = 0
  IN SubSeq(digits, first, Len(digits))
Expansion(n, q) ==
  LET digits == LimbDigits(IF q < 0 THEN TimesPower(n, 5, -q) ELSE TimesPower(n, 2, q))
  IN [digits |-> digits, exp |-> Len(digits) - 1 + (IF q < 0 THEN q ELSE 0)]

(* One decimal is below the other, whatever their lengths.                 *)
Below(a, b) ==
  LET At(x, i) == IF i \in DOMAIN x.digits THEN x.digits[i] ELSE 0
      places == {i \in DOMAIN a.digits \cup DOMAIN b.digits : At(a, i) # At(b, i)}
      first  == CHOOSE i \in places : \A j \in places : i <= j
  IN \/ a.exp < b.exp
     \/ a.exp = b.exp /\ places # {} /\ At(a, first) < At(b, first)

UpperMidpoint(v) == Expansion(UpperQuarters(v), BinExp(v) - 2)
LowerMidpoint(v) == Expansion(LowerQuarters(v), BinExp(v) - 2)

(* Texts at the midpoints of doubles, which are the hardest to read: their *)
(* first two to five digits, rounded down and up, all of them, a little    *)
(* less and a little more, the "more" also so far behind that it is cut.   *)
Decimal(digits, exp) == [negative |-> FALSE, digits |-> digits, exp |-> exp]
Rounded(m, len) ==
  LET down == DigitsValue(SubSeq(m.digits, 1, len))
  IN {Decimal(DigitsOf(down), m.exp),
      Decimal(DigitsOf(down + 1), m.exp + (IF down + 1 = 10^len THEN 1 ELSE 0))}
Around(m) ==
  LET last == Len(m.digits)
      far  == [i \in 1 .. 34 - last |-> IF i < 34 - last THEN 0 ELSE 1]
  IN {Decimal(m.digits, m.exp),
      Decimal(Append(m.digits, 1), m.exp),
      Decimal(m.digits \o far, m.exp)}
     \cup (IF m.digits[last] = 0 THEN {}
           ELSE {Decimal([m.digits EXCEPT ![last] = @ - 1] \o <<9, 9>>, m.exp)})
Edges == {Decimal(<<1>>, 10), Decimal(<<9, 9>>, 9), Decimal(<<4, 3>>, 9),
          Decimal(<<4>>, -12), Decimal(<<3>>, -12), Decimal(<<1>>, -12), Decimal(<<9>>, -13)}
MCTexts ==
  Edges \cup UNION {LET m == UpperMidpoint(v)
         IN Around(m) \cup UNION {Rounded(m, len) : len \in 2..5 \cap 1 .. Len(m.digits)} :
         v \in {v \in Double : /\ ~v.negative /\ ~IsSpecial(v)
                               /\ v.sig \in {0, 1, 2, 63, 64, 126, 127}}}

(* A text with an exponent, and one without.                               *)
Sign(t)  == IF t.negative THEN <<45>> ELSE <<>>
Chars(d) == [i \in DOMAIN d |-> 48 + d[i]]
Zeros(n) == [i \in 1..n |-> 48]
Scientific(t, plus) ==
  LET size == IF t.exp < 0 THEN -t.exp ELSE t.exp
  IN Sign(t) \o SubSeq(Chars(t.digits), 1, 1)
       \o (IF Len(t.digits) > 1 THEN <<46>> \o SubSeq(Chars(t.digits), 2, Len(t.digits))
                                ELSE <<>>)
       \o <<101>> \o (IF t.exp < 0 THEN <<45>> ELSE plus) \o Chars(DigitsOf(size)) \o <<0>>
Positional(t) ==
  LET d     == Chars(t.digits)
      point == t.exp + 1
  IN Sign(t)
       \o (CASE point <= 0 -> <<48, 46>> \o Zeros(-point) \o d
             [] point >= Len(d) -> d \o Zeros(point - Len(d))
             [] point \in 1 .. Len(d) - 1 ->
                  SubSeq(d, 1, point) \o <<46>> \o SubSeq(d, point + 1, Len(d)))
       \o <<0>>
MCLayouts(t) ==
  IF "word" \in DOMAIN t
    THEN {Sign(t) \o <<48, 0>>, Sign(t) \o <<48, 46, 48, 0>>, Sign(t) \o <<48, 69, 48, 0>>}
    ELSE {Scientific(t, <<>>), Scientific(t, <<43>>), Positional(t)}

(* Every finite double; the sign is tried with a few significands.         *)
MCArguments == {v \in Double : ~IsSpecial(v) /\ (v.negative => v.sig < 3)}

-----------------------------------------------------------------------------
(* So do dragonbox (src/dragonbox/dragonbox.h:3246-3572) and fmt's own     *)
(* version of it (src/fmt/include/fmt/format-inl.h:1266-1388).             *)
DragonboxShortest ==
  Answered("dragonbox") \/ Answered("fmt") => ShortestAbove(value, text)

(* double-conversion (src/double-conversion-test.cc:5-10) gives the        *)
(* shortest and closest, whether Grisu3 decides (fast-dtoa.cc:521-566) or  *)
(* gives up and BignumDtoa does (bignum-dtoa.cc:89-169); and its text,     *)
(* with the null the builder's destructor adds, fits in the builder.       *)
DoubleConversionShortest ==
  Answered("double-conversion") =>
    /\ ShortestAbove(value, text)
    /\ text.position < MCsb_size

(* zmij (src/zmij/zmij.cc:1113-1365) gives the shortest and closest.       *)
ZmijShortest == Answered("zmij") => ShortestAbove(value, text)

(* xjb64 (src/xjb/xjb64.cpp:1094-1354) gives the shortest and closest.     *)
XjbShortest == Answered("xjb64") => C!Acceptable(value, text)

(* yy (src/yy/yy_double.c:2457-2695) gives the shortest and closest,       *)
(* whichever of its two paths decides.                                     *)
YyShortest == Answered("yy") => ShortestAbove(value, text)

(* put_DD (src/asteria/ascii_numput.cpp:1885-1927) reads back, as every    *)
(* dtoa must (README.md:18-21).                                            *)
AsteriaReadsBack == Answered("asteria") => ReadsBack

(* verify() accepts what every method writes (benchmark.cc:112-135): all   *)
(* of the text is read, and read as the value.  That holds for dtoa_milo   *)
(* (src/milo/dtoa_milo.h:402-422) whatever the read past the end of kPow10 *)
(* gave, and for put_DD except at the powers of two, below which the       *)
(* interval it works with is too wide.                                     *)
Same(v, w) == v = w \/ (IsZero(v) /\ IsZero(w))
Verified ==
  read # NoRead /\ value # NoValue =>
    /\ read.whole
    /\ Same(read.value, value) \/ (method = "asteria" /\ value.sig = 0)

(* from_chars gives the double nearest to the text, or the even one of two *)
(* (src/double-conversion/strtod.cc:446-470), on whichever of its ways, up *)
(* to infinity and down to zero: verify() never accepts a text of another  *)
(* number, and never refuses one of the value.                             *)
ReadsNearest ==
  LET v    == read.value
      last == text.exp - (Len(text.digits) - 1)
      even == BinSig(v) % 2 = 0
  IN read # NoRead /\ "digits" \in DOMAIN text =>
       IF Len(text.digits) <= 5 /\ last >= -12 /\ IsOrdinary(v)
         THEN RoundTrips(v, DigitsValue(text.digits), last)
         ELSE /\ \/ IsZero(v)
                 \/ IF even THEN ~Below(text, LowerMidpoint(v))
                            ELSE Below(LowerMidpoint(v), text)
              /\ \/ IsSpecial(v)
                 \/ IF even THEN ~Below(UpperMidpoint(v), text)
                            ELSE Below(text, UpperMidpoint(v))
=============================================================================
