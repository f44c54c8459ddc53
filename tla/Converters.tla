----------------------------- MODULE Converters -----------------------------
(***************************************************************************)
(* The registered converters behind one call, dtoa(value, buffer)          *)
(* (benchmark.h:7-20): the caller picks a method and a finite double, the  *)
(* method writes its text, and the caller may read it back, as verify()    *)
(* does (benchmark.cc:112-135), before it calls again.  Each method is a   *)
(* module of its own; they share the format of BinaryFloat and nothing     *)
(* else, so that what one of them promises does not depend on which of     *)
(* them ran before.                                                        *)
(***************************************************************************)
EXTENDS BinaryFloat

CONSTANTS
  Methods,      \* the methods registered
  Arguments,    \* the finite doubles the caller passes
  NoValue,      \* no call is in progress
  NoText,       \* nothing has been written yet
  Garbage,      \* the words a read past the end of a table may give
  Texts,        \* the texts that are read without a converter writing them
  Layouts(_),   \* the character sequences a text may be written as
  NoRead,       \* the text has not been read
  (* Uscale *)
  uscale_bits, pow10Tab,
  (* Ryu *)
  DOUBLE_POW5_INV_BITCOUNT, DOUBLE_POW5_BITCOUNT, DOUBLE_POW5_INV_SPLIT,
  DOUBLE_POW5_SPLIT, pow5_word, max_pow5_tested, max_pow2_tested, max_digits,
  (* Grisu2 *)
  kDiySignificandSize, kCachedPowers_F, kCachedPowers_E, cached_min,
  cached_step, alpha, log10_2_num, log10_2_den, kPow10_size,
  (* Dragonbox *)
  carrier_bits, cache,
  (* Fmt *)
  fmt_bits, fmt_kappa, base_significands, min_k, compression_ratio,
  left_endpoint_lower, left_endpoint_upper, tie_lower, tie_upper, magic_shift, power_8, mod_inv,
  (* Zmij *)
  zmij_bits, extra_shift, biased_half, max_digits10, pow10_significands,
  (* Xjb *)
  xjb_bits, offset, c4, max_dec_sig_len, smallest, pow10_double,
  (* Yy *)
  yy_bits, yy_digits, pow10_sig_table,
  (* DoubleConversion, with the cached powers of Grisu2 *)
  kSignificandSize, kMinimalTargetExponent, decimal_in_shortest_low,
  decimal_in_shortest_high, kBigitSize, kChunkSize, kBigitCapacity,
  (* Asteria *)
  mant_bits, point_digits, least_exp, s_decimal_multipliers,
  (* Strtod, with the bignums of DoubleConversion *)
  kMaxExactDoubleIntegerDecimalDigits, kExactPowersOfTenSize, kMaxDecimalPower,
  kMinDecimalPower, kMaxSignificantDigits, kMaxSignificantDecimalDigits,
  kDecimalPowers_F, kDecimalPowers_E, kMinDecimalExponent, kDecimalExponentDistance

U == INSTANCE Uscale
R == INSTANCE Ryu
G == INSTANCE Grisu2
D == INSTANCE Dragonbox
F == INSTANCE Fmt
Z == INSTANCE Zmij
X == INSTANCE Xjb
Y == INSTANCE Yy
DC == INSTANCE DoubleConversion
A == INSTANCE Asteria
S == INSTANCE Strtod

ASSUME ConvertersAssumption ==
  /\ U!UscaleParameters /\ R!RyuParameters /\ G!Grisu2Parameters
  /\ D!DragonboxParameters /\ F!FmtParameters /\ Z!ZmijParameters /\ X!XjbParameters
  /\ Y!YyParameters /\ DC!DoubleConversionParameters /\ A!AsteriaParameters
  /\ S!StrtodParameters

(***************************************************************************)
(* What the proofs about uscale assume of its widths, its logarithms and   *)
(* its table.                                                              *)
(***************************************************************************)
Ordinary == {v \in Arguments : IsOrdinary(v)}

(* The smallest double of a small format may have a one-digit decimal one  *)
(* place above its own digit in its interval, as 2^-37 = 7.3e-12 has       *)
(* 1e-11; uscale, zmij and yy take the trimmed candidate whenever there is *)
(* one.  The smallest double of the code has none.                         *)
IsSmallest(v) == v.exp = 0 /\ v.sig = 1

(* The exponent of ten Short takes for v, and what it computes for n       *)
(* quarters of 2^BinExp(v): 4 * 2^(BinExp(v) - e - 2) is the last bit of   *)
(* the significand.                                                        *)
UscaleExp(v) ==
  IF HalfGapBelow(v) THEN U!skewed(BinExp(v)) ELSE U!log10Pow2(BinExp(v))
UscaleQuarters(v) == {LowerQuarters(v), 4 * BinSig(v), UpperQuarters(v)}
UscaleEstimate(v, n) ==
  LET e == U!unpack64(v).e
      k == UscaleExp(v)
  IN U!uscale_impl(n * 2^(BinExp(v) - e - 2), U!prescale(e, -k, U!log2Pow10(-k)))

(* The digits a candidate may have: trimZeros takes at most 16 zeros away. *)
uscale_digits ==
  CHOOSE n \in 1..17 : 20 * implicit_bit <= 10^n /\ 10^n <= U!UWord

ASSUME UscaleWidthAssumption ==
  /\ exp_mask \in Nat \ {0}
  /\ Arguments \subseteq Double
  /\ \E n \in 1..17 : 20 * implicit_bit <= 10^n /\ 10^n <= U!UWord

ASSUME UscalePowersAssumption ==
  /\ \A n \in 0 .. U!spare_bits + uscale_bits : PowerAt(2, n)
  /\ \A n \in 0 .. uscale_digits : PowerAt(10, n)
  /\ \A n \in 0 .. U!log10Pow2(uscale_bits) : PowerAt(10, n)
  /\ \A v \in Ordinary : \A j \in UscaleExp(v) - 1 .. UscaleExp(v) + uscale_digits :
       PowersNear(BinExp(v), j)

(* The table has enough bits: every product is exactly rounded to odd.     *)
ASSUME UscaleTableAssumption ==
  \A v \in Ordinary : \A n \in UscaleQuarters(v) :
    LET e == UscaleEstimate(v, n)
    IN e \in Nat /\ IsRoundToOdd(e, n, BinExp(v), UscaleExp(v))

(* 10^k is at most the length of the rounding interval, 10^(k + 1) more.   *)
ASSUME UscaleLogAssumption ==
  \A v \in Ordinary :
    LET N == Twos(BinExp(v), UscaleExp(v))
        T == Tens(BinExp(v), UscaleExp(v))
    IN /\ UscaleExp(v) \in Int
       /\ IF HalfGapBelow(v) THEN 4 * T < 3 * N /\ 3 * N < 40 * T
                             ELSE T <= N /\ N < 10 * T

(* log10Pow2 is what its name says for the lengths of words.               *)
ASSUME UscaleCountAssumption ==
  \A b \in 1..uscale_bits :
    LET f == U!log10Pow2(b)
    IN f \in 0 .. U!log10Pow2(uscale_bits) /\ 10^f <= 2^b /\ 2^b < 10^(f + 1)

(* Where a ten is in the interval, a nine is not the better choice.  That  *)
(* only says something of subnormals of a few units.                       *)
ASSUME UscaleNineAssumption ==
  \A v \in Ordinary :
    LET k == UscaleExp(v)
    IN IsSmallest(v) \/ ~(/\ RoundTrips(v, 10, k) /\ RoundTrips(v, 9, k)
                          /\ Closer(v, 10, 9, k))

(***************************************************************************)
(* What the proofs about ryu assume, besides the log assumption above.     *)
(***************************************************************************)
(* The digits a candidate may have; the scaled value has up to two more.   *)
ryu_digits == max_digits - 2

(* x is n quarters of 2^q over 10^k, rounded down.                         *)
IsFloor(x, n, q, k) ==
  x \in Nat /\ DecimalLeq(x, k, n, q) /\ ~DecimalLeq(x + 1, k, n, q)

(* exp_mask: a subnormal is no integer.                                    *)
ASSUME RyuWidthAssumption ==
  /\ exp_mask >= 2
  /\ ryu_digits \in Nat \ {0} /\ 20 * implicit_bit <= 10^ryu_digits

ASSUME RyuPowersAssumption ==
  /\ \A n \in 0..max_digits : PowerAt(10, n)
  /\ \A n \in 0..num_sig_bits : PowerAt(2, n)
  /\ \A v \in Ordinary :
       /\ \A n \in 0 .. R!e2(v) : PowerAt(2, n)
       /\ \A n \in 0 .. R!e10(v) : PowerAt(5, n)
       /\ \A n \in 0 .. -R!e10(v) - 1 : PowerAt(5, n)
       /\ PowersNear(BinExp(v), R!e10(v))
       /\ \A j \in UscaleExp(v) - 1 .. UscaleExp(v) + ryu_digits : PowersNear(BinExp(v), j)

(* The table has enough bits: every product is exactly rounded down.       *)
ASSUME RyuTableAssumption ==
  \A v \in Ordinary :
    LET t == R!Product(v)
        q == BinExp(v)
    IN /\ IsFloor(t.vr, 4 * BinSig(v), q, R!e10(v))
       /\ IsFloor(t.vp, UpperQuarters(v), q, R!e10(v))
       /\ IsFloor(t.vm, LowerQuarters(v), q, R!e10(v))

(* The value is scaled to two digits too many at most, and to none too     *)
(* many only where it is an integer then.                                  *)
ASSUME RyuLogAssumption ==
  \A v \in Ordinary :
    LET k == UscaleExp(v)
    IN /\ R!e10(v) \in k - 2 .. k
       /\ R!e10(v) = k => Tens(BinExp(v), k) = 1
       /\ R!Product(v).vp < 10^(ryu_digits + k - R!e10(v))
       /\ R!IsSmallInt(v) => k \in -ryu_digits .. 0

(* "This should use q <= 22, but I think 21 is also safe" (d2s.c:141): past *)
(* the powers of five that are tested, no end of an interval is a multiple *)
(* of ten.                                                                 *)
ASSUME RyuFiveAssumption ==
  \A v \in Ordinary :
    LET q   == R!DownPow(v)
        end == IF BinSig(v) % 2 = 0 THEN LowerQuarters(v) ELSE UpperQuarters(v)
    IN R!e2(v) >= 0 /\ q > max_pow5_tested => end % 5^(q + 1) # 0

VARIABLES
  method,       \* the method called
  value,        \* its argument, NoValue when no call is in progress
  text,         \* what it has written, NoText before it has
  read          \* what verify() has read from that, NoRead before it has

vars == <<method, value, text, read>>

C == INSTANCE DtoaContract WITH req <- value, resp <- text

-----------------------------------------------------------------------------
Init == method \in Methods /\ value = NoValue /\ text = NoText /\ read = NoRead

Call ==
  /\ value = NoValue /\ text = NoText
  /\ value' \in Arguments
  /\ method' \in Methods
  /\ UNCHANGED <<text, read>>

Busy(m) == method = m /\ value # NoValue /\ text = NoText

UscaleWrites ==
  /\ Busy("uscale")
  /\ text' = U!uscale_short(value)
  /\ UNCHANGED <<method, value, read>>

RyuWrites ==
  /\ Busy("ryu")
  /\ text' = R!d2s_buffered_n(value)
  /\ UNCHANGED <<method, value, read>>

MiloWrites ==
  /\ Busy("milo")
  /\ \E garbage \in Garbage : text' = G!dtoa_milo(value, garbage)
  /\ UNCHANGED <<method, value, read>>

DragonboxWrites ==
  /\ Busy("dragonbox")
  /\ text' = D!to_chars_n(value)
  /\ UNCHANGED <<method, value, read>>

FmtWrites ==
  /\ Busy("fmt")
  /\ text' = F!fmt_write(value)
  /\ UNCHANGED <<method, value, read>>

ZmijWrites ==
  /\ Busy("zmij")
  /\ text' = Z!zmij_write(value)
  /\ UNCHANGED <<method, value, read>>

XjbWrites ==
  /\ Busy("xjb64")
  /\ text' = X!xjb64(value)
  /\ UNCHANGED <<method, value, read>>

YyWrites ==
  /\ Busy("yy")
  /\ text' = Y!yy_double_to_string(value)
  /\ UNCHANGED <<method, value, read>>

DoubleConversionWrites ==
  /\ Busy("double-conversion")
  /\ text' = DC!ToShortest(value)
  /\ UNCHANGED <<method, value, read>>

AsteriaWrites ==
  /\ Busy("asteria")
  /\ text' = A!put_DD(value)
  /\ UNCHANGED <<method, value, read>>

(* A text of another origin, like those get_random_digit_data() has        *)
(* snprintf write.                                                         *)
Snprintf ==
  /\ value = NoValue /\ text = NoText
  /\ text' \in Texts
  /\ method' = "snprintf"
  /\ UNCHANGED <<value, read>>

(* from_chars(buffer)                                                      *)
FromChars ==
  /\ text # NoText /\ read = NoRead
  /\ \E chars \in Layouts(text) : read' = S!from_chars(chars)
  /\ UNCHANGED <<method, value, text>>

Return ==
  /\ text # NoText
  /\ value' = NoValue
  /\ text' = NoText
  /\ read' = NoRead
  /\ UNCHANGED method

Next ==
  \/ Call
  \/ UscaleWrites \/ RyuWrites \/ MiloWrites \/ DragonboxWrites \/ FmtWrites
  \/ ZmijWrites \/ XjbWrites \/ YyWrites \/ DoubleConversionWrites \/ AsteriaWrites
  \/ Snprintf \/ FromChars \/ Return

Spec == Init /\ [][Next]_vars

-----------------------------------------------------------------------------
Answered(m) == method = m /\ text # NoText /\ value # NoValue /\ IsOrdinary(value)
ReadsBack ==
  RoundTrips(value, DigitsValue(text.digits), text.exp - (Len(text.digits) - 1))

ShortestAbove(v, t) == IF IsSmallest(v) THEN ReadsBack ELSE C!Acceptable(v, t)

(* uscale (src/uscale/uscale.c:148-186) gives the shortest decimal that    *)
(* identifies the value, and of those the closest.                         *)
UscaleShortest == Answered("uscale") => ShortestAbove(value, text)

(* So does ryu (src/ryu/d2s.c:148-372), whose loops remove the digits one  *)
(* at a time and keep track of what they removed.                          *)
RyuShortest == Answered("ryu") => ShortestAbove(value, text)
=============================================================================
