-------------------------------- MODULE Puff --------------------------------
(***************************************************************************)
(* src/puff-test.cc: the converter that writes a double as an exact        *)
(* fixed-point decimal of 9-digit bigits, by shifting the significand one  *)
(* loop iteration at a time, and then rounds the decimal to 17 digits.     *)
(*                                                                         *)
(* bigits[1] is bigits[0] of the code, and Len(bigits) its num_bigits: the *)
(* elements behind it are never written.                                   *)
(***************************************************************************)
EXTENDS BinaryFloat

CONSTANTS
  Arguments,      \* the doubles dtoa is called with, all finite
  bigit_digits,   \* decimal digits of a bigit (9)
  left_bits,      \* 2^left_bits fits in one bigit (29)
  precision,      \* digits to write (17)
  Garbage,        \* what an element of bigits that nobody wrote may hold
  NoValue,
  Weights         \* the powers of bigit_bound at which Exact compares

VARIABLES
  pc, value,
  v, exp,           \* the significand as an integer, and its exponent
  i,                \* how far it has been shifted
  bigits, fraction_start,
  buf,              \* the digits written so far
  bigit_index,      \* the next bigit to write
  dec_exp           \* dtoa's exp: the exponent of the first digit

decimal == <<v, exp, i, bigits, fraction_start>>
output  == <<buf, bigit_index, dec_exp>>
vars    == <<pc, value, decimal, output>>

-----------------------------------------------------------------------------
bigit_bound == 10^bigit_digits

(* 10**9 can only be shifted 9 bits without losing any.                    *)
right_bits == bigit_digits

(* frexp(d) * 2^num_bits and its exponent: the leading bit of a nonzero    *)
(* significand is set, whatever the exponent field says.                   *)
num_bits == num_sig_bits + 1

Normalization(d) ==
  IF IsZero(d) THEN 0
  ELSE CHOOSE s \in 0..num_sig_bits :
         BinSig(d) * 2^s \in implicit_bit .. 2 * implicit_bit - 1

Significand(d) == BinSig(d) * 2^Normalization(d)
Exponent(d)    == IF IsZero(d) THEN -num_bits ELSE BinExp(d) - Normalization(d)

(* Mutant of ShiftLeft: the array does not grow for a bigit at the limit. *)
ShiftLeftLate(b, n) ==
  LET carry[j \in 1 .. Len(b) + 1] ==
        IF j > Len(b) THEN 0 ELSE (b[j] * 2^n + carry[j + 1]) \div bigit_bound
      shifted == [j \in DOMAIN b |-> (b[j] * 2^n + carry[j + 1]) % bigit_bound]
  IN IF b[1] > bigit_bound \div 2^n THEN <<carry[1]>> \o shifted ELSE shifted

(* The array grows at its front if the first bigit may overflow; the carry *)
(* out of the front is lost if it does not grow.                           *)
ShiftLeft(b, n) ==
  LET carry[j \in 1 .. Len(b) + 1] ==
        IF j > Len(b) THEN 0 ELSE (b[j] * 2^n + carry[j + 1]) \div bigit_bound
      shifted == [j \in DOMAIN b |-> (b[j] * 2^n + carry[j + 1]) % bigit_bound]
  IN IF b[1] >= bigit_bound \div 2^n THEN <<carry[1]>> \o shifted ELSE shifted

(* The bits shifted out of a bigit go to the top of the next one.  The     *)
(* first bigit is dropped if nothing is left of it.                        *)
Borrow(bigit, n) == ((bigit % 2^n) * bigit_bound) \div 2^n
Vanishes(b, n)   == b[1] # 0 /\ b[1] \div 2^n = 0

ShiftRight(b, n) ==
  LET offset == IF Vanishes(b, n) THEN 1 ELSE 0
      shifted ==
        [j \in 1 .. Len(b) - offset |->
           (IF j + offset = 1 THEN 0 ELSE Borrow(b[j + offset - 1], n))
             + b[j + offset] \div 2^n]
      borrow == Borrow(b[Len(b)], n)
  IN IF borrow # 0 THEN Append(shifted, borrow) ELSE shifted

(* Mutant of Block: the zeros in front of a short bigit are forgotten. *)
BlockUnpadded(bigit, width) ==
  LET digits == CHOOSE w \in 1..width : bigit < 10^w /\ (w = 1 \/ bigit >= 10^(w - 1))
  IN [j \in 1..digits |-> (bigit \div 10^(digits - j)) % 10]

(* The digits of a bigit, width of them, and without leading zeros.        *)
Block(bigit, width) == [j \in 1..width |-> (bigit \div 10^(width - j)) % 10]
FirstBlock(bigit) ==
  LET width == CHOOSE w \in 1 .. bigit_digits + 1 :
                 bigit < 10^w /\ (w = 1 \/ bigit >= 10^(w - 1))
  IN Block(bigit, width)

(* What the widths of the code satisfy: 2^29 fits in one bigit, 10^9 can   *)
(* be shifted 9 bits to the right, two bigits hold a significand, and no   *)
(* 32-bit integer has more than 10 digits.                                 *)
ASSUME FormatAssumption ==
  /\ num_sig_bits \in Nat \ {0} /\ exp_mask \in Nat \ {0}
  /\ \A d \in Arguments : d \in Double /\ ~IsSpecial(d)
  /\ NoValue \notin Double
  /\ Weights \subseteq Int

ASSUME BigitAssumption ==
  /\ bigit_digits \in Nat \ {0} /\ left_bits \in Nat \ {0}
  /\ precision \in Nat \ {0}
  /\ 2^left_bits <= bigit_bound /\ bigit_bound % 2^right_bits = 0
  /\ 2^num_bits <= bigit_bound * bigit_bound
  /\ Garbage \subseteq 0 .. 10^(bigit_digits + 1) - 1

(* 17 digits tell two doubles apart: a digit of the last place is less     *)
(* than the gap between them.                                              *)
ASSUME PrecisionAssumption == 2^num_bits < 10^(precision - 1)

(* ^ is multiplication repeated, for the exponents that occur.             *)
Magnitude(n) == IF n < 0 THEN -n ELSE n

ASSUME PowersAssumption ==
  /\ 2^0 = 1 /\ 10^0 = 1
  /\ \A n \in 0 .. num_bits - 1 \cup 0 .. left_bits - 1 \cup 0 .. right_bits - 1 :
       PowerAt(2, n)
  /\ \A n \in 0..bigit_digits : PowerAt(10, n)
  /\ \A d \in Arguments : \A n \in 0 .. Magnitude(Exponent(d)) - 1 : PowerAt(2, n)

-----------------------------------------------------------------------------
Init ==
  /\ pc = "idle" /\ value = NoValue
  /\ v = 0 /\ exp = 0 /\ i = 0 /\ bigits = <<>> /\ fraction_start = 0
  /\ buf = <<>> /\ bigit_index = 1 /\ dec_exp = 0

Call ==
  /\ pc = "idle"
  /\ pc' = "shift"
  /\ value' \in Arguments
  /\ v' = Significand(value')
  /\ exp' = Exponent(value')
  /\ i' = 0
  /\ LET upper == v' \div bigit_bound
     IN /\ bigits' = IF upper # 0 THEN <<upper, v' % bigit_bound>>
                                  ELSE <<v' % bigit_bound>>
        /\ fraction_start' = Len(bigits')
  /\ UNCHANGED output

Left ==
  /\ pc = "shift" /\ exp >= 0
  /\ i <= exp - left_bits
  /\ i' = i + left_bits
  /\ bigits' = ShiftLeft(bigits, left_bits)
  /\ fraction_start' = Len(bigits')
  /\ UNCHANGED <<pc, value, v, exp, output>>

LeftRest ==
  /\ pc = "shift" /\ exp >= 0
  /\ i > exp - left_bits
  /\ pc' = "first"
  /\ i' = exp
  /\ bigits' = IF i # exp THEN ShiftLeft(bigits, exp - i) ELSE bigits
  /\ fraction_start' = Len(bigits')
  /\ UNCHANGED <<value, v, exp, output>>

(* shift_right(n), which also moves the point. *)
shift_right(n) ==
  /\ bigits' = ShiftRight(bigits, n)
  /\ fraction_start' = fraction_start - (IF Vanishes(bigits, n) THEN 1 ELSE 0)

Right ==
  /\ pc = "shift" /\ exp < 0
  /\ i - right_bits >= exp
  /\ i' = i - right_bits
  /\ shift_right(right_bits)
  /\ UNCHANGED <<pc, value, v, exp, output>>

RightRest ==
  /\ pc = "shift" /\ exp < 0
  /\ i - right_bits < exp
  /\ pc' = "first"
  /\ i' = exp
  /\ IF i # exp THEN shift_right(i - exp) ELSE UNCHANGED <<bigits, fraction_start>>
  /\ UNCHANGED <<value, v, exp, output>>

(* A leading zero bigit is skipped, without asking whether there is        *)
(* another.                                                                *)
WriteFirst ==
  /\ pc = "first"
  /\ pc' = "blocks"
  /\ LET first == IF bigits[1] > 0 THEN 1 ELSE 2
     IN /\ bigit_index' = first + 1
        /\ IF first <= Len(bigits)
             THEN buf' = FirstBlock(bigits[first])
             ELSE \E bigit \in Garbage : buf' = FirstBlock(bigit)
        /\ dec_exp' = (fraction_start - first) * bigit_digits + Len(buf') - 1
  /\ UNCHANGED <<value, decimal>>

WriteBlock ==
  /\ pc = "blocks"
  /\ bigit_index <= Len(bigits) /\ Len(buf) <= precision
  /\ buf' = buf \o Block(bigits[bigit_index], bigit_digits)
  /\ bigit_index' = bigit_index + 1
  /\ UNCHANGED <<pc, value, decimal, dec_exp>>

(* The digits in buf are complete, but of the bigits the search begins     *)
(* behind the first one that is not in buf.                                *)
has_nonzero ==
  \/ \E n \in precision + 2 .. Len(buf) : buf[n] # 0
  \/ \E n \in bigit_index + 1 .. Len(bigits) : bigits[n] # 0

(* Mutant of RoundsUp: ties are rounded up. *)
RoundsHalfUp == buf[precision + 1] >= 5

RoundsUp ==
  \/ buf[precision + 1] > 5
  \/ buf[precision + 1] = 5 /\ (buf[precision] % 2 = 1 \/ has_nonzero)

(* Mutant of Incremented: no carry. *)
IncrementedLast(digits) == [digits EXCEPT ![Len(digits)] = @ + 1]

(* The nines at the end become zeros; if all digits are nines, a one goes  *)
(* in front of the zeros.                                                  *)
Incremented(digits) ==
  LET rest == {n \in DOMAIN digits : digits[n] # 9}
      last == CHOOSE n \in rest : \A m \in rest : m <= n
  IN IF rest = {} THEN [n \in DOMAIN digits |-> IF n = 1 THEN 1 ELSE 0]
     ELSE [n \in DOMAIN digits |-> IF n < last THEN digits[n]
                                   ELSE IF n = last THEN digits[n] + 1 ELSE 0]

Finished == bigit_index > Len(bigits) \/ Len(buf) > precision

Keep ==
  /\ pc = "blocks" /\ Finished
  /\ Len(buf) <= precision
  /\ pc' = "write"
  /\ UNCHANGED <<value, decimal, output>>

Round ==
  /\ pc = "blocks" /\ Finished
  /\ Len(buf) > precision
  /\ pc' = "write"
  /\ LET kept == SubSeq(buf, 1, precision)
     IN /\ buf' = IF RoundsUp THEN Incremented(kept) ELSE kept
        /\ dec_exp' = IF RoundsUp /\ \A n \in DOMAIN kept : kept[n] = 9
                        THEN dec_exp + 1 ELSE dec_exp
  /\ UNCHANGED <<value, decimal, bigit_index>>

(* The sign, the point, zeros up to the precision (the sign counts as a    *)
(* digit) and the exponent.                                                *)
Write ==
  /\ pc = "write"
  /\ pc' = "done"
  /\ LET width == precision - (IF value.negative THEN 1 ELSE 0)
     IN buf' = IF Len(buf) < width
                 THEN buf \o [n \in 1 .. width - Len(buf) |-> 0] ELSE buf
  /\ UNCHANGED <<value, decimal, bigit_index, dec_exp>>

Return ==
  /\ pc = "done"
  /\ pc' = "idle"
  /\ value' = NoValue
  /\ v' = 0 /\ exp' = 0 /\ i' = 0 /\ bigits' = <<>> /\ fraction_start' = 0
  /\ buf' = <<>> /\ bigit_index' = 1 /\ dec_exp' = 0

Next ==
  \/ Call \/ Left \/ LeftRest \/ Right \/ RightRest
  \/ WriteFirst \/ WriteBlock \/ Keep \/ Round \/ Write \/ Return

Spec == Init /\ [][Next]_vars

-----------------------------------------------------------------------------
TypeOK ==
  /\ pc \in {"idle", "shift", "first", "blocks", "write", "done"}
  /\ value \in Double \cup {NoValue}
  /\ v \in Nat /\ exp \in Int /\ i \in Int
  /\ bigits \in Seq(0 .. bigit_bound - 1) /\ fraction_start \in Int
  /\ buf \in Seq(0..9)

(* Long division: n \div bigit_bound^j, and the remainders of              *)
(* n * bigit_bound^j divided by unit.                                      *)
Quotients(n) ==
  LET quotient[j \in Nat] == IF j = 0 THEN n ELSE quotient[j - 1] \div bigit_bound
  IN quotient
Remainders(n, unit) ==
  LET rest[j \in Nat] == IF j = 0 THEN n % unit
                         ELSE (rest[j - 1] * bigit_bound) % unit
  IN rest

(* The coefficient of bigit_bound^w in n * 2^s.                            *)
Coefficient(n, s, w) ==
  LET whole == IF s >= 0 THEN n * 2^s ELSE n \div 2^(-s)
      unit  == IF s >= 0 THEN 1 ELSE 2^(-s)
  IN IF w >= 0 THEN Quotients(whole)[w] % bigit_bound
     ELSE (Remainders(n, unit)[-w - 1] * bigit_bound) \div unit

(* No iteration of the shift loops loses or invents a digit, drops a bigit *)
(* that is still needed or misplaces the point: after shifting by i, the   *)
(* bigits are those of v * 2^i.                                            *)
Exact ==
  pc \in {"shift", "first"} =>
    \A w \in Weights :
      LET n == fraction_start - w
      IN Coefficient(v, i, w) = IF n \in DOMAIN bigits THEN bigits[n] ELSE 0

TextExp == dec_exp - (Len(buf) - 1)

(* README.md:18-21: "parsing it back through a correct strtod must yield   *)
(* exactly the original double".                                           *)
ReadsBack ==
  pc = "done" =>
    IF IsZero(value) THEN DigitsValue(buf) = 0
    ELSE RoundTrips(value, DigitsValue(buf), TextExp)

(* m halves of 10^TextExp compared with |value|. *)
HalvesLeq(m) == LeqProd(m, Tens(BinExp(value), TextExp),
                        2 * BinSig(value), Twos(BinExp(value), TextExp))
HalvesGeq(m) == LeqProd(2 * BinSig(value), Twos(BinExp(value), TextExp),
                        m, Tens(BinExp(value), TextExp))

(* All that is left behind the written digits is the one bigit that        *)
(* has_nonzero does not look at.                                           *)
TailUnseen ==
  /\ bigit_index \in DOMAIN bigits /\ bigits[bigit_index] # 0
  /\ \A n \in bigit_index + 1 .. Len(bigits) : bigits[n] = 0

(* The digits are those of the exact decimal rounded half to even, unless  *)
(* the tail that breaks the tie is unseen.                                 *)
RoundedToEven ==
  pc = "done" /\ ~IsZero(value) =>
    LET d == DigitsValue(buf)
    IN /\ HalvesLeq(2 * d - 1)
       /\ HalvesGeq(2 * d + 1) \/ TailUnseen
       /\ HalvesGeq(2 * d - 1) \/ HalvesLeq(2 * d + 1) => d % 2 = 0
=============================================================================
