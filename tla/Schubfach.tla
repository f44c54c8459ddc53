------------------------------ MODULE Schubfach ------------------------------
(***************************************************************************)
(* src/schubfach/schubfach.cc: one call of schubfach::dtoa at a time, a    *)
(* step per part of the function between two early returns.  The widths    *)
(* (64-bit words, 17 digits, the fixed-point logarithms and the table of   *)
(* powers of ten) are constants; every computation on them is the code's.  *)
(***************************************************************************)
EXTENDS BinaryFloat

CONSTANTS
  Arguments,        \* the doubles dtoa is called with
  word_bits,        \* width of uint64_t (64)
  max_digits10,     \* std::numeric_limits<double>::max_digits10 (17)
  buffer_size,      \* what the caller must provide (25)
  log10_2_exp,      \* fraction bits of the next two (41)
  log10_2_sig,      \* round(log10(2) * 2^log10_2_exp)
  log10_3_over_4_sig, \* round(log10(3/4) * 2^log10_2_exp)
  log2_pow10_exp,   \* fraction bits of the next one (16)
  log2_pow10_sig,   \* round(log2(10) * 2^log2_pow10_exp) + 1
  pow10_significands, \* exponent -> <<hi, lo>>, the generated table
  NoValue, NoText   \* no call, no text

VARIABLES
  pc,               \* the part of dtoa about to run
  value,            \* the argument
  bin_sig, bin_exp, regular,          \* locals, named as in the code
  lower, scaled_sig, upper,
  dec_sig, dec_exp,
  text,             \* what has been written
  reach             \* one past the highest byte of buffer written

binary  == <<bin_sig, bin_exp, regular>>
scaled  == <<lower, scaled_sig, upper>>
decimal == <<dec_sig, dec_exp>>
output  == <<text, reach>>
vars    == <<pc, value, binary, scaled, decimal, output>>

(* What the caller sees of it.                                             *)
Contract == INSTANCE DtoaContract WITH req <- value, resp <- text

-----------------------------------------------------------------------------
(* The arithmetic.  pow10 = hi * HalfWord + lo.                            *)
WordSize == 2^word_bits
HalfWord == 2^(word_bits - 1)

(* result | 1                                                              *)
OrOne(n) == (n + 1) - (n % 2)

umul192_upper64_modified(pow10_hi, pow10_lo, sig) ==
  LET x_hi == (pow10_lo * sig) \div WordSize
      y    == pow10_hi * sig
      z    == (y % WordSize) \div 2 + x_hi
      result == y \div WordSize + z \div HalfWord
  IN IF z % HalfWord # 0 THEN OrOne(result) ELSE result

floor_log10_pow2(e) == (e * log10_2_sig) \div 2^log10_2_exp

(* floor(log10(2^e)), or floor(log10(3/4 * 2^e)) for an irregular one.     *)
DecExp(e, reg) ==
  (e * log10_2_sig + (IF reg THEN 0 ELSE log10_3_over_4_sig))
     \div 2^log10_2_exp

(* floor(log2(10^-k)) *)
Pow10BinExp(k) == ((-k) * log2_pow10_sig) \div 2^log2_pow10_exp

Shift(q, k) == q + Pow10BinExp(k) + 2

(* n quarters of 2^q, divided by 10^k, in quarters rounded to odd.         *)
Estimate(n, q, k) ==
  LET pow10 == pow10_significands[-k]
  IN umul192_upper64_modified(pow10[1], pow10[2], n * 2^Shift(q, k))

(* Mutant of IsRegular: the narrow gap below a power of two is forgotten. *)
IsRegularAlways(v) == TRUE

(* The code takes every value with a zero fraction for irregular, the      *)
(* smallest normal number included.                                        *)
IsRegular(v) == v.sig # 0 \/ v.exp = 0

(* The boundaries as the code shifts them, in quarters of 2^bin_exp.       *)
Lower(c, reg) == 4 * c - (IF reg THEN 2 ELSE 1)
Upper(c)      == 4 * c + 2

(* The three numbers the code scales for v, and its decimal exponent.      *)
Quarters(v) == {Lower(BinSig(v), IsRegular(v)), 4 * BinSig(v), Upper(BinSig(v))}
DecExpOf(v) == DecExp(BinExp(v), IsRegular(v))

Ordinary == {v \in Arguments : IsOrdinary(v)}

ASSUME FormatAssumption ==
  /\ num_sig_bits \in Nat \ {0}
  /\ exp_mask \in Nat \ {0}
  /\ implicit_bit \in Nat \ {0}
  /\ Arguments \subseteq Double
  /\ NoValue \notin Double
  /\ NoText \notin Contract!Text

(* The exponents of ten dtoa may choose for v.                             *)
DecExps(v) == {DecExpOf(v)}
                \cup (IF BinExp(v) \in -num_sig_bits .. -1 THEN {0} ELSE {})

ASSUME PowersAssumption ==
  /\ \A n \in 0 .. floor_log10_pow2(word_bits) : PowerAt(10, n)
  /\ \A n \in 0 .. word_bits - 1 : PowerAt(2, n)
  /\ \A v \in Ordinary : \A k \in DecExps(v) : \A j \in k - 1 .. k + max_digits10 :
       PowersNear(BinExp(v), j)

(* The table has enough bits: despite its overestimates and the bits the   *)
(* multiplication drops, every product it is used for is exactly rounded   *)
(* to odd.                                                                 *)
ASSUME TableAssumption ==
  \A v \in Ordinary :
    LET q == BinExp(v)
        k == DecExpOf(v)
    IN /\ -k \in DOMAIN pow10_significands
       /\ \A n \in Quarters(v) :
            LET e == Estimate(n, q, k)
            IN e \in Nat /\ IsRoundToOdd(e, n, q, k)

(* The logarithms have enough bits: 10^k is at most the length of the      *)
(* rounding interval of v, and 10^(k + 1) is more; the shift is right.     *)
ASSUME LogAssumption ==
  \A v \in Ordinary :
    LET q == BinExp(v)
        k == DecExpOf(v)
    IN /\ k \in Int /\ Pow10BinExp(k) \in Int
       /\ IF IsRegular(v)
            THEN Tens(q, k) <= Twos(q, k) /\ Twos(q, k) < 10 * Tens(q, k)
            ELSE 4 * Tens(q, k) < 3 * Twos(q, k) /\ 3 * Twos(q, k) < 40 * Tens(q, k)
       /\ LET s == Shift(q, k) - 2
          IN s \in 0 .. word_bits - 1 /\ 2^s * Tens(q, k) <= Twos(q, k)

(* floor_log10_pow2 is what its name says.                                 *)
ASSUME DigitsAssumption ==
  \A b \in 1..word_bits :
    LET f == floor_log10_pow2(b)
    IN /\ f \in 0 .. floor_log10_pow2(word_bits)
       /\ 10^f <= 2^b /\ 2^b < 10^(f + 1)

(* The widths go together: a candidate has at most max_digits10 digits,    *)
(* and a word holds it, and the upper boundary after the shift.            *)
ASSUME WidthAssumption ==
  /\ word_bits \in Nat \ {0}
  /\ max_digits10 \in 1 .. floor_log10_pow2(word_bits) /\ max_digits10 % 2 = 1
  /\ 20 * implicit_bit <= 10^max_digits10
  /\ 256 * implicit_bit <= WordSize

(* The smallest normal number is the one value whose lower boundary the    *)
(* code gets wrong: the interval it works with is a quarter too short.     *)
TakenForIrregular(v) == v.exp = 1 /\ v.sig = 0

(* That is harmless: neither the candidate below that number nor the       *)
(* multiple of ten below it lies in the missing quarter.                   *)
ASSUME CandidatesAssumption ==
  \A v \in Ordinary :
    TakenForIrregular(v) =>
      LET q     == BinExp(v)
          k     == DecExpOf(v)
          under == Estimate(4 * BinSig(v), q, k) \div 4
      IN \A d \in {under, 10 * (under \div 10)} :
           RoundTrips(v, d, k) =>
             Estimate(Lower(BinSig(v), IsRegular(v)), q, k) + (BinSig(v) % 2) <= 4 * d

-----------------------------------------------------------------------------
(* write(): dec_sig padded to max_digits10 digits, the zeros at its end    *)
(* taken away again, but never the digit before the point.                 *)
BitLength(n) == CHOOSE b \in 0..word_bits :
                   n < 2^b /\ (b = 0 \/ n >= 2^(b - 1))

(* Mutant of DecLen: powers of ten are one digit too short. *)
DecLenStrict(sig) ==
  LET len == floor_log10_pow2(BitLength(sig))
  IN IF sig > 10^len THEN len + 1 ELSE len

DecLen(sig) ==
  LET len == floor_log10_pow2(BitLength(sig))
  IN IF sig >= 10^len THEN len + 1 ELSE len

(* The decimal digits of n, least significant last, width of them.         *)
PaddedDigits(n, width) ==
  [i \in 1..width |-> (n \div 10^(width - i)) % 10]

(* write8digits writes this many digits. *)
half_digits == (max_digits10 - 1) \div 2

PaddedSig(sig) == sig * 10^(max_digits10 - DecLen(sig))

(* The second half is written only if it is not all zeros.                 *)
WrittenDigits(sig) ==
  LET padded == PaddedSig(sig)
      hi == PaddedDigits(padded \div 10^half_digits, half_digits + 1)
      lo == PaddedDigits(padded % 10^half_digits, half_digits)
  IN IF padded % 10^half_digits # 0 THEN hi \o lo ELSE hi

StripZeros(digits) ==
  LET last == CHOOSE n \in 1..Len(digits) :
                 /\ n = 1 \/ digits[n] # 0
                 /\ \A m \in n + 1 .. Len(digits) : digits[m] = 0
  IN SubSeq(digits, 1, last)

(* Mutant of ExpLength: always three digits. *)
ExpLengthPadded(exp) == 3

(* Bytes after the sign: first digit, point, the rest, 'e', sign, and two  *)
(* or three digits of the exponent.                                        *)
ExpLength(exp) == IF exp >= 100 \/ exp <= -100 THEN 3 ELSE 2
NumberReach(written, digits, exp) ==
  LET end == Len(digits) + 1 + 2 + ExpLength(exp)
  IN IF end > written + 1 THEN end ELSE written + 1

SignReach(v) == IF v.negative THEN 1 ELSE 0

(* What schubfach.h asks of the caller's buffer: a sign, all digits, a    *)
(* point and the longest exponent have room.                               *)
ASSUME BufferAssumption ==
  /\ buffer_size \in Nat /\ buffer_size >= 4
  /\ \A v \in Ordinary : \A k \in DecExps(v) : \A n \in 0 .. max_digits10 - 1 :
       1 + max_digits10 + 3 + (IF k + n \in -99..99 THEN 2 ELSE 3) <= buffer_size

-----------------------------------------------------------------------------
TypeOK ==
  /\ pc \in {"idle", "unpack", "unpacked", "shorter", "longer", "write", "done"}
  /\ value \in Double \cup {NoValue}
  /\ bin_sig \in Nat /\ bin_exp \in Int /\ regular \in BOOLEAN
  /\ lower \in Nat /\ scaled_sig \in Nat /\ upper \in Nat
  /\ dec_sig \in Nat /\ dec_exp \in Int
  /\ text = NoText \/ pc = "done"

Init ==
  /\ pc = "idle"
  /\ value = NoValue
  /\ bin_sig = 0 /\ bin_exp = 0 /\ regular = TRUE
  /\ lower = 0 /\ scaled_sig = 0 /\ upper = 0
  /\ dec_sig = 0 /\ dec_exp = 0
  /\ text = NoText /\ reach = 0

(* The '-' goes into the buffer before the sign is known to be needed.     *)
Call ==
  /\ pc = "idle"
  /\ pc' = "unpack"
  /\ value' \in Arguments
  /\ reach' = 1
  /\ UNCHANGED <<binary, scaled, decimal, text>>

(* Mutant of Special: the early return is missing. *)
SpecialFallsThrough ==
  /\ pc = "unpack"
  /\ ~IsOrdinary(value)
  /\ pc' = "write"
  /\ text' = [negative |-> value.negative, word |-> "0"]
  /\ UNCHANGED <<value, binary, scaled, decimal, reach>>

(* "inf", "nan" and "0" are written at once.                               *)
Special ==
  /\ pc = "unpack"
  /\ ~IsOrdinary(value)
  /\ pc' = "done"
  /\ LET word == IF value.exp # 0 THEN IF value.sig = 0 THEN "inf" ELSE "nan"
                                  ELSE "0"
     IN /\ text' = [negative |-> value.negative, word |-> word]
        /\ reach' = SignReach(value) + (IF word = "0" THEN 1 ELSE 3)
  /\ UNCHANGED <<value, binary, scaled, decimal>>

(* A subnormal has no implicit bit and the exponent of the smallest normal *)
(* number, and its boundaries are regular.                                 *)
Unpack ==
  /\ pc = "unpack"
  /\ IsOrdinary(value)
  /\ pc' = "unpacked"
  /\ IF value.exp = 0
       THEN /\ bin_sig' = value.sig
            /\ bin_exp' = 1 - exp_offset
       ELSE /\ bin_sig' = value.sig + implicit_bit
            /\ bin_exp' = value.exp - exp_offset
  /\ regular' = IsRegular(value)
  /\ UNCHANGED <<value, scaled, decimal, output>>

(* An integer below 2^num_sig_bits: its digits are the answer.             *)
IsSmallInteger ==
  /\ bin_exp < 0
  /\ bin_exp >= -num_sig_bits
  /\ bin_sig % 2^(-bin_exp) = 0

SmallInteger ==
  /\ pc = "unpacked"
  /\ IsSmallInteger
  /\ pc' = "write"
  /\ dec_sig' = bin_sig \div 2^(-bin_exp)
  /\ dec_exp' = 0
  /\ UNCHANGED <<value, binary, scaled, output>>

(* Scale the value and the boundaries of its rounding interval by the      *)
(* power of ten.                                                           *)
Scale ==
  /\ pc = "unpacked"
  /\ ~IsSmallInteger
  /\ pc' = "shorter"
  /\ LET k == DecExp(bin_exp, regular)
     IN /\ dec_exp' = k
        /\ scaled_sig' = Estimate(4 * bin_sig, bin_exp, k)
        /\ lower' = Estimate(Lower(bin_sig, regular), bin_exp, k)
        /\ upper' = Estimate(Upper(bin_sig), bin_exp, k)
  /\ UNCHANGED <<value, binary, dec_sig, output>>

dec_sig_under  == scaled_sig \div 4

(* Mutant of dec_sig_over: not the neighbour. *)
dec_sig_over_far == dec_sig_under + 2

dec_sig_over   == dec_sig_under + 1
dec_sig_under2 == 10 * (dec_sig_under \div 10)
dec_sig_over2  == dec_sig_under2 + 10
bin_sig_lsb    == bin_sig % 2

(* Mutant of under_in: the boundary of an odd significand counts as inside. *)
under_in_closed(sig) == lower <= 4 * sig

under_in(sig) == lower + bin_sig_lsb <= 4 * sig
over_in(sig)  == 4 * sig + bin_sig_lsb <= upper

(* Mutant of OnlyOne: only the upper candidate is looked for. *)
OnlyOver(under, over) == ~under_in(under) /\ over_in(over)

(* Exactly one of the two candidates is in the interval: that one.         *)
OnlyOne(under, over) == under_in(under) # over_in(over)
TheOne(under, over)  == IF under_in(under) THEN under ELSE over

(* One digit less: a multiple of 10, unless there is but one digit.        *)
Shorter ==
  /\ pc = "shorter"
  /\ dec_sig_under >= 10
  /\ OnlyOne(dec_sig_under2, dec_sig_over2)
  /\ pc' = "write"
  /\ dec_sig' = TheOne(dec_sig_under2, dec_sig_over2)
  /\ UNCHANGED <<value, binary, scaled, dec_exp, output>>

NotShorter ==
  /\ pc = "shorter"
  /\ ~(dec_sig_under >= 10 /\ OnlyOne(dec_sig_under2, dec_sig_over2))
  /\ pc' = "longer"
  /\ UNCHANGED <<value, binary, scaled, decimal, output>>

Longer ==
  /\ pc = "longer"
  /\ OnlyOne(dec_sig_under, dec_sig_over)
  /\ pc' = "write"
  /\ dec_sig' = TheOne(dec_sig_under, dec_sig_over)
  /\ UNCHANGED <<value, binary, scaled, dec_exp, output>>

(* Mutant of cmp: halves are compared with quarters. *)
cmp_halves == scaled_sig - (dec_sig_under + dec_sig_over)

(* "Both ... are in the interval - pick the closest", the even one in the  *)
(* middle.                                                                 *)
cmp == scaled_sig - 2 * (dec_sig_under + dec_sig_over)
under_closer == cmp < 0 \/ (cmp = 0 /\ dec_sig_under % 2 = 0)

Closest ==
  /\ pc = "longer"
  /\ ~OnlyOne(dec_sig_under, dec_sig_over)
  /\ pc' = "write"
  /\ dec_sig' = IF under_closer THEN dec_sig_under ELSE dec_sig_over
  /\ UNCHANGED <<value, binary, scaled, dec_exp, output>>

Write ==
  /\ pc = "write"
  /\ pc' = "done"
  /\ LET written == WrittenDigits(dec_sig)
         digits  == StripZeros(written)
         exp     == dec_exp + DecLen(dec_sig) - 1
     IN /\ text' = [negative |-> value.negative, digits |-> digits, exp |-> exp]
        /\ reach' = SignReach(value) + NumberReach(Len(written), digits, exp)
  /\ UNCHANGED <<value, binary, scaled, decimal>>

(* The caller has its text; the next call starts with a fresh frame.       *)
Return ==
  /\ pc = "done"
  /\ pc' = "idle"
  /\ value' = NoValue
  /\ bin_sig' = 0 /\ bin_exp' = 0 /\ regular' = TRUE
  /\ lower' = 0 /\ scaled_sig' = 0 /\ upper' = 0
  /\ dec_sig' = 0 /\ dec_exp' = 0
  /\ text' = NoText /\ reach' = 0

Next ==
  \/ Call \/ Special \/ Unpack \/ SmallInteger \/ Scale
  \/ Shorter \/ NotShorter \/ Longer \/ Closest
  \/ Write \/ Return

Spec == Init /\ [][Next]_vars

-----------------------------------------------------------------------------
(* Whatever path found it, the decimal that is about to be written is read *)
(* back as the argument.                                                   *)
ReadsBack == pc = "write" => RoundTrips(value, dec_sig, dec_exp)

(* "Both dec_sig_under and dec_sig_over are in the interval": whoever gets *)
(* past the second comparison has two candidates, never none.              *)
BothInside ==
  pc = "longer" /\ ~OnlyOne(dec_sig_under, dec_sig_over)
    => under_in(dec_sig_under) /\ over_in(dec_sig_over)

(* When the multiples of ten are given up, none of them is read back as    *)
(* the argument: there is no decimal with fewer digits.                    *)
NothingShorter ==
  pc = "longer" /\ dec_sig_under >= 10
    => \A m \in 0..dec_sig_over2 : ~RoundTrips(value, 10 * m, dec_exp)

(* Of the decimals with the exponent of the result that are read back as   *)
(* the argument, none is closer to it.                                     *)
NearestTaken ==
  [][pc = "longer" /\ pc' = "write"
      => \A e \in 0..dec_sig_over2 :
           RoundTrips(value, e, dec_exp) => ~Closer(value, dec_sig', e, dec_exp)]_vars
-----------------------------------------------------------------------------
(* Every call of dtoa answers as a shortest, correctly rounded converter   *)
(* must (README.md:18-21, schubfach.h:10): the steps of Schubfach are      *)
(* steps of the contract or invisible to the caller.                       *)
Implements == Contract!Spec

(* The text never passes the end of the caller's buffer, not even while    *)
(* the zeros at its end are still there.                                   *)
BufferFits == reach \in 0..buffer_size

(* No shift drops bits of the significand, no shift count is negative, the *)
(* table is not left, and the comparisons do not wrap around.              *)
NoOverflow ==
  /\ pc = "shorter" =>
       /\ Shift(bin_exp, dec_exp) \in 0..word_bits - 1
       /\ Upper(bin_sig) * 2^Shift(bin_exp, dec_exp) < WordSize
       /\ -dec_exp \in DOMAIN pow10_significands
       /\ 4 * dec_sig_over2 + 1 < WordSize
       /\ upper < WordSize
  /\ pc = "write" =>
       /\ dec_sig > 0
       /\ DecLen(dec_sig) \in 1..max_digits10
=============================================================================
