------------------------------- MODULE Bignum -------------------------------
(***************************************************************************)
(* The bignums of double-conversion (src/double-conversion/bignum.h and    *)
(* bignum.cc): a fixed array of bigits, of which the first used_digits_    *)
(* count, times 2^(exponent_ * kBigitSize).  Every method is an operator   *)
(* from the object's fields to its new fields; a loop that carries from    *)
(* bigit to bigit is the function of its carries (Ripple), each computed   *)
(* in the width the code computes it in.  A method whose EnsureCapacity    *)
(* fails aborts the program: its Fits... operator says when it does not.   *)
(***************************************************************************)
EXTENDS Integers, Sequences, FiniteSetsExt

CONSTANTS
  kBigitSize,       \* bits of a bigit (28)
  kChunkSize,       \* bits of a Chunk, and of the code's 32-bit factors (32)
  kBigitCapacity    \* bigits of an object (128)

ASSUME BignumAssumption ==
  /\ kBigitSize \in Nat \ {0}
  /\ kChunkSize \in Nat
  /\ 2 * kChunkSize >= kBigitSize + kChunkSize + 1
  /\ kBigitCapacity \in Nat \ {0}

Base        == 2^kBigitSize
Chunk       == 2^kChunkSize
DoubleChunk == Chunk * Chunk
SignBit     == 2^(kChunkSize - 1)
Places      == 0 .. kBigitCapacity - 1

BignumType == [bigits_      : [Places -> 0 .. Base - 1],
               used_digits_ : 0 .. kBigitCapacity,
               exponent_    : Nat]

NewBignum == [bigits_ |-> [i \in Places |-> 0], used_digits_ |-> 0, exponent_ |-> 0]

BigitLength(x) == x.used_digits_ + x.exponent_
BigitAt(x, i)  ==
  IF i \in x.exponent_ .. BigitLength(x) - 1 THEN x.bigits_[i - x.exponent_] ELSE 0
IsClamped(x) == x.used_digits_ = 0 \/ x.bigits_[x.used_digits_ - 1] # 0

Clamp(x) ==
  LET used == Max({0} \cup {n \in 1..x.used_digits_ : x.bigits_[n - 1] # 0})
  IN [x EXCEPT !.used_digits_ = used, !.exponent_ = IF used = 0 THEN 0 ELSE @]

Zero(x) ==
  [bigits_ |-> [i \in Places |-> IF i < x.used_digits_ THEN 0 ELSE x.bigits_[i]],
   used_digits_ |-> 0, exponent_ |-> 0]

(* The carries of a loop over the places from..to - 1, before each place   *)
(* and after the last.                                                     *)
Ripple(from, to, Next(_, _)) ==
  LET carry[i \in from..to] == IF i = from THEN 0 ELSE Next(i - 1, carry[i - 1])
  IN carry

(* The bigits of a number no bignum has yet taken, from place `from` on.   *)
Spread(x, from, n) ==
  LET more == CHOOSE m \in 0 .. 2 * kChunkSize :
                IF n = 0 THEN m = 0 ELSE m > 0 /\ n \div Base^(m - 1) \in 1 .. Base - 1
  IN [x EXCEPT !.bigits_ = [i \in Places |->
                              IF i \in from .. from + more - 1
                                THEN (n \div Base^(i - from)) % Base ELSE @[i]],
               !.used_digits_ = from + more]

-----------------------------------------------------------------------------
(* Assignments.                                                            *)
AssignUInt64(x, value) == Spread(Zero(x), 0, value)

(* Mutant of AssignBignum: what x had beyond y's bigits stays. *)
AssignBignumKeeps(x, y) ==
  [y EXCEPT !.bigits_ = [i \in Places |-> IF i < y.used_digits_ THEN @[i]
                                                               ELSE x.bigits_[i]]]

AssignBignum(x, y) ==
  [bigits_ |-> [i \in Places |-> IF i < y.used_digits_ THEN y.bigits_[i]
                                 ELSE IF i < x.used_digits_ THEN 0 ELSE x.bigits_[i]],
   used_digits_ |-> y.used_digits_, exponent_ |-> y.exponent_]

(* Hidden zeros of x become bigits until x has no more of them than y.     *)
Align(x, y) ==
  LET zero_digits == Max({0, x.exponent_ - y.exponent_})
  IN [bigits_ |-> [i \in Places |->
        IF zero_digits = 0 \/ i >= x.used_digits_ + zero_digits THEN x.bigits_[i]
        ELSE IF i < zero_digits THEN 0 ELSE x.bigits_[i - zero_digits]],
      used_digits_ |-> x.used_digits_ + zero_digits,
      exponent_ |-> x.exponent_ - zero_digits]
FitsAlign(x, y) ==
  x.used_digits_ + Max({0, x.exponent_ - y.exponent_}) <= kBigitCapacity

-----------------------------------------------------------------------------
(* The places of an aligned x that y's bigits meet, and those bigits.      *)
First(x, y)    == y.exponent_ - x.exponent_
After(x, y)    == First(x, y) + y.used_digits_
Facing(x, y, i) == IF i < After(x, y) THEN y.bigits_[i - First(x, y)] ELSE 0

FitsAdd(x, y) ==
  /\ FitsAlign(x, y)
  /\ 1 + Max({BigitLength(x), BigitLength(y)}) - Min({x.exponent_, y.exponent_})
       <= kBigitCapacity

(* Mutant of AddBignum: one carry is kept, and nothing after it. *)
AddBignumStops(x, y) ==
  LET a == Align(x, y)
      Sum(i, carry) == (a.bigits_[i] + Facing(a, y, i) + carry) % Chunk
      carry == Ripple(First(a, y), kBigitCapacity, LAMBDA i, c : Sum(i, c) \div Base)
      end   == After(a, y) + (IF carry[After(a, y)] = 0 THEN 0 ELSE 1)
  IN [a EXCEPT !.bigits_ = [i \in Places |->
                              IF i \in First(a, y) .. end - 1
                                THEN Sum(i, carry[i]) % Base ELSE @[i]],
               !.used_digits_ = Max({end, @})]

AddBignum(x, y) ==
  LET a == Align(x, y)
      Sum(i, carry) == (a.bigits_[i] + Facing(a, y, i) + carry) % Chunk
      carry == Ripple(First(a, y), kBigitCapacity, LAMBDA i, c : Sum(i, c) \div Base)
      end   == Min({n \in After(a, y) .. kBigitCapacity : carry[n] = 0})
  IN [a EXCEPT !.bigits_ = [i \in Places |->
                              IF i \in First(a, y) .. end - 1
                                THEN Sum(i, carry[i]) % Base ELSE @[i]],
               !.used_digits_ = Max({end, @})]

AddUInt64(x, operand) ==
  IF operand = 0 THEN x ELSE AddBignum(x, AssignUInt64(NewBignum, operand))

(* Requires x >= y.                                                        *)
SubtractBignum(x, y) ==
  LET a == Align(x, y)
      Difference(i, borrow) == (a.bigits_[i] - Facing(a, y, i) - borrow) % Chunk
      borrow == Ripple(First(a, y), kBigitCapacity,
                       LAMBDA i, b : Difference(i, b) \div SignBit)
  IN Clamp([a EXCEPT !.bigits_ = [i \in Places |->
              IF i < First(a, y) THEN @[i] ELSE Difference(i, borrow[i]) % Base]])

(* x - factor * y, for an x aligned with y.  The second loop returns at    *)
(* the first place without a borrow, and then does not clamp.              *)
SubtractTimes(x, y, factor) ==
  LET less[n \in 0..factor] ==
        IF n = 0 THEN x ELSE SubtractBignum(less[n - 1], y)
      Remove(i, borrow) == (borrow + factor * Facing(x, y, i)) % DoubleChunk
      Taken(i, borrow)  == IF i < After(x, y) THEN Remove(i, borrow) % Base ELSE borrow
      Difference(i, borrow) == (x.bigits_[i] - Taken(i, borrow)) % Chunk
      borrow == Ripple(First(x, y), x.used_digits_, LAMBDA i, b :
                  (Difference(i, b) \div SignBit)
                    + (IF i < After(x, y) THEN Remove(i, b) \div Base ELSE 0))
      left   == [x EXCEPT !.bigits_ = [i \in Places |->
                   IF i \in First(x, y) .. x.used_digits_ - 1
                     THEN Difference(i, borrow[i]) % Base ELSE @[i]]]
  IN IF factor < 3 THEN less[factor]
     ELSE IF \E i \in After(x, y) .. x.used_digits_ - 1 : borrow[i] = 0
            THEN left ELSE Clamp(left)

-----------------------------------------------------------------------------
BigitsShiftLeft(x, shift_amount) ==
  LET carry == [i \in 0..x.used_digits_ |->
                  IF i = 0 THEN 0
                  ELSE x.bigits_[i - 1] \div 2^(kBigitSize - shift_amount)]
      used  == x.used_digits_ + (IF carry[x.used_digits_] # 0 THEN 1 ELSE 0)
  IN [x EXCEPT !.bigits_ = [i \in Places |->
                              IF i < used THEN (@[i] * 2^shift_amount + carry[i]) % Base
                                          ELSE @[i]],
               !.used_digits_ = used]

ShiftLeft(x, shift_amount) ==
  IF x.used_digits_ = 0 THEN x
  ELSE BigitsShiftLeft([x EXCEPT !.exponent_ = @ + (shift_amount \div kBigitSize)],
                       shift_amount % kBigitSize)
FitsShift(x) == x.used_digits_ + 1 <= kBigitCapacity

(* Multiply's loops differ in how they compute the product at a place and  *)
(* the carry after it; what is left of the carry becomes bigits.           *)
Multiplied(x, Product(_, _), Carry(_, _)) ==
  LET carry == Ripple(0, x.used_digits_, Carry)
      low   == [x EXCEPT !.bigits_ = [i \in Places |->
                  IF i < x.used_digits_ THEN Product(i, carry[i]) % Base ELSE @[i]]]
  IN Spread(low, x.used_digits_, carry[x.used_digits_])

MultiplyByUInt32(x, factor) ==
  LET Product(i, carry) == (factor * x.bigits_[i] + carry) % DoubleChunk
  IN CASE factor = 0 -> Zero(x)
       [] factor = 1 \/ x.used_digits_ = 0 -> x
       [] factor > 1 /\ x.used_digits_ > 0 ->
            Multiplied(x, Product, LAMBDA i, c : Product(i, c) \div Base)

MultiplyByUInt64(x, factor) ==
  LET low  == factor % Chunk
      high == factor \div Chunk
      Tmp(i, carry)  == ((carry % Base) + low * x.bigits_[i]) % DoubleChunk
      Next(i, carry) ==
        ((carry \div Base) + (Tmp(i, carry) \div Base)
          + high * x.bigits_[i] * 2^(kChunkSize - kBigitSize)) % DoubleChunk
  IN CASE factor = 0 -> Zero(x)
       [] factor = 1 \/ x.used_digits_ = 0 -> x
       [] factor > 1 /\ x.used_digits_ > 0 -> Multiplied(x, Tmp, Next)

(* The largest power of five that fits (5^13 in 32 bits, 5^27 in 64).      *)
MaxFive(bits) == CHOOSE n \in 0..bits : 5^n < 2^bits /\ 2^bits <= 5^(n + 1)
kFive32 == MaxFive(kChunkSize)
kFive64 == MaxFive(2 * kChunkSize)

MultiplyByPowerOfTen(x, exponent) ==
  LET wide   == exponent \div kFive64
      rest   == exponent % kFive64
      narrow == rest \div kFive32
      by64[n \in 0..wide] ==
        IF n = 0 THEN x ELSE MultiplyByUInt64(by64[n - 1], 5^kFive64)
      by32[n \in 0..narrow] ==
        IF n = 0 THEN by64[wide] ELSE MultiplyByUInt32(by32[n - 1], 5^kFive32)
  IN IF exponent = 0 \/ x.used_digits_ = 0 THEN x
     ELSE ShiftLeft(MultiplyByUInt32(by32[narrow], 5^(rest % kFive32)), exponent)

(* The decimal digits that always fit in 64 bits (19).                     *)
kDecimalDigits64 ==
  CHOOSE n \in 0 .. 2 * kChunkSize : 10^n < 2^(2 * kChunkSize) /\ 2^(2 * kChunkSize) <= 10^(n + 1)

(* The digits of value, most significant first, so many at a time.         *)
AssignDecimalString(x, value) ==
  LET Number(from, n) ==
        LET read[i \in 0..n] == IF i = 0 THEN 0 ELSE 10 * read[i - 1] + value[from + i]
        IN read[n]
      Next(y, from, n) == AddUInt64(MultiplyByPowerOfTen(y, n), Number(from, n))
      whole == Len(value) \div kDecimalDigits64
      parts[m \in 0..whole] ==
        IF m = 0 THEN Zero(x)
        ELSE Next(parts[m - 1], (m - 1) * kDecimalDigits64, kDecimalDigits64)
  IN Clamp(Next(parts[whole], whole * kDecimalDigits64, Len(value) % kDecimalDigits64))

(* Column by column; the columns are summed in a DoubleChunk.              *)
FitsSquare(x) ==
  /\ 2 * x.used_digits_ <= kBigitCapacity
  /\ x.used_digits_ < 2^(2 * (kChunkSize - kBigitSize))
Square(x) ==
  LET used == x.used_digits_
      Column(i) == {j \in 0..i : j < used /\ i - j < used}
      Accumulator(i, carry) ==
        (carry + FoldSet(LAMBDA j, sum : sum + x.bigits_[j] * x.bigits_[i - j], 0,
                         Column(i))) % DoubleChunk
      carry == Ripple(0, 2 * used, LAMBDA i, c : Accumulator(i, c) \div Base)
  IN Clamp([bigits_ |-> [i \in Places |-> IF i < 2 * used
                                            THEN Accumulator(i, carry[i]) % Base
                                            ELSE x.bigits_[i]],
            used_digits_ |-> 2 * used, exponent_ |-> 2 * x.exponent_])

-----------------------------------------------------------------------------
BitLength(n) == CHOOSE b \in 0..30 : n < 2^b /\ (b = 0 \/ 2^(b - 1) <= n)
Bit(n, i)    == (n \div 2^i) % 2 = 1

(* base^power_exponent: the twos of base apart, squaring in 64 bits while  *)
(* the value has 32 of them (and putting off one multiplication when there *)
(* is no room for it), then as a bignum.                                   *)
AssignPowerUInt16(x, base, power_exponent) ==
  LET shifts   == CHOOSE s \in 0..BitLength(base) : base % 2^s = 0 /\ Bit(base, s)
      odd      == base \div 2^shifts
      bit_size == BitLength(odd)
      bits     == BitLength(power_exponent)
      in64[m \in 0 .. bits - 1] ==      \* after the bits bits - 2 .. m
        IF m = bits - 1 THEN [value |-> odd, delayed |-> FALSE, mask |-> m]
        ELSE LET prev   == in64[m + 1]
                 square == (prev.value * prev.value) % DoubleChunk
                 room   == square < 2^(2 * kChunkSize - bit_size)
             IN IF prev.value >= Chunk THEN prev
                ELSE [value   |-> IF Bit(power_exponent, m) /\ room
                                    THEN (square * odd) % DoubleChunk ELSE square,
                      delayed |-> prev.delayed \/ (Bit(power_exponent, m) /\ ~room),
                      mask    |-> m]
      MultiplyIf(condition, y) == IF condition THEN MultiplyByUInt32(y, odd) ELSE y
      Big(start) ==                     \* after the bits start.mask - 1 .. 0
        LET big[m \in 0..start.mask] ==
              IF m = start.mask
                THEN MultiplyIf(start.delayed, AssignUInt64(x, start.value))
                ELSE MultiplyIf(Bit(power_exponent, m), Square(big[m + 1]))
        IN big[0]
  IN IF power_exponent = 0 THEN AssignUInt64(x, 1)
     ELSE ShiftLeft(Big(in64[0]), shifts * power_exponent)

-----------------------------------------------------------------------------
Compare(a, b) ==
  LET differing == {i \in 0 .. BigitLength(a) - 1 : BigitAt(a, i) # BigitAt(b, i)}
  IN CASE BigitLength(a) < BigitLength(b) -> -1
       [] BigitLength(a) > BigitLength(b) -> 1
       [] BigitLength(a) = BigitLength(b) ->
            IF differing = {} THEN 0
            ELSE IF BigitAt(a, Max(differing)) < BigitAt(b, Max(differing)) THEN -1 ELSE 1

LessEqual(a, b) == Compare(a, b) <= 0

(* Compare(a + b, c), from the most significant bigit of c down, until the *)
(* sum exceeds c or lacks more than the bigits below can make up for.      *)
PlusCompareLonger(a, b, c) ==
  LET len == BigitLength(c)
      Lacking(i, borrow) == BigitAt(c, i) + borrow - (BigitAt(a, i) + BigitAt(b, i))
      low == Min({a.exponent_, b.exponent_, c.exponent_})
      borrow[i \in low..len] ==
        IF i = len THEN 0
        ELSE LET above == borrow[i + 1]
             IN IF above < 0 \/ above > Base THEN above   \* decided
                ELSE IF Lacking(i, above) > 1 THEN Base + 1
                ELSE Lacking(i, above) * Base
  IN CASE BigitLength(a) + 1 < len -> -1
       [] BigitLength(a) > len -> 1
       [] BigitLength(a) + 1 >= len /\ BigitLength(a) <= len ->
            IF a.exponent_ >= BigitLength(b) /\ BigitLength(a) < len THEN -1
            ELSE IF borrow[low] < 0 THEN 1 ELSE IF borrow[low] = 0 THEN 0 ELSE -1

PlusCompare(a, b, c) ==
  IF BigitLength(a) < BigitLength(b) THEN PlusCompareLonger(b, a, c)
                                     ELSE PlusCompareLonger(a, b, c)

-----------------------------------------------------------------------------
(* <<x / y, x % y>>, for y > 0 and a quotient of 16 bits: the quotient is  *)
(* counted while multiples of y are removed.                               *)
DivideModuloIntBignum(x, y) ==
  LET State == [result : Nat, rest : BignumType]
      Top(z) == z.bigits_[z.used_digits_ - 1]
      Remove(s, n) == [result |-> s.result + n, rest |-> SubtractTimes(s.rest, y, n)]
      shorter[s \in State] ==
        IF BigitLength(s.rest) > BigitLength(y)
          THEN shorter[Remove(s, Top(s.rest))] ELSE s
      less[s \in State] ==
        IF LessEqual(y, s.rest)
          THEN less[[result |-> s.result + 1, rest |-> SubtractBignum(s.rest, y)]]
          ELSE s
      Shortcut(s, quotient) ==
        [result |-> s.result + quotient,
         rest   |-> Clamp([s.rest EXCEPT
                      !.bigits_[s.rest.used_digits_ - 1] = @ - Top(y) * quotient])]
      Estimated(s, estimate) ==
        IF Top(y) * (estimate + 1) > Top(s.rest) THEN Remove(s, estimate)
                                                 ELSE less[Remove(s, estimate)]
      Done(s) ==
        IF y.used_digits_ = 1 THEN Shortcut(s, Top(s.rest) \div Top(y))
                              ELSE Estimated(s, Top(s.rest) \div (Top(y) + 1))
  IN IF BigitLength(x) < BigitLength(y)
       THEN [result |-> 0, rest |-> x]
       ELSE Done(shorter[[result |-> 0, rest |-> Align(x, y)]])
=============================================================================
