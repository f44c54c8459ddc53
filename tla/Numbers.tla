------------------------------- MODULE Numbers -------------------------------
(***************************************************************************)
(* src/benchmark.cc: the numbers the converters are tried and measured     *)
(* on.  verify() tries a method on fixed cases first, and then on          *)
(* num_random_cases doubles it draws from the generator; the model makes   *)
(* one pass, because every method gets the same numbers.                   *)
(* get_random_digit_data() draws num_doubles_per_digit doubles for each    *)
(* digit count, and limits them to that many digits by printing and        *)
(* reading them.  Both start a generator of their own from the same seed.  *)
(*                                                                         *)
(* snprintf is taken to round correctly, and the StringToDoubleConverter   *)
(* does (ReadsNearest in MCConverters).                                    *)
(***************************************************************************)
EXTENDS BinaryFloat

CONSTANTS
  half_bits,      \* width of unsigned, half that of a double (32)
  multiplier,     \* 214013
  increment,      \* 2531011
  cases,          \* the fixed numbers of verify(), 0 to denorm_min()
  num_random_cases,      \* numbers verify() draws (100'000)
  max_digits,            \* digit counts (17)
  num_doubles_per_digit, \* numbers per digit count (100'000)
  NoValue

(* The words make a double, and a double with an even low word has an even *)
(* significand.                                                            *)
ASSUME GeneratorAssumption ==
  /\ num_sig_bits \in Nat \ {0} /\ exp_mask \in Nat
  /\ implicit_bit \in Nat \ {0} /\ implicit_bit % 2 = 0
  /\ half_bits \in Nat \ {0}
  /\ 2^half_bits \in Nat \ {0} /\ 2^half_bits % 2 = 0
  /\ multiplier \in Nat /\ multiplier % 2 = 1
  /\ increment \in Nat /\ increment % 2 = 1
  /\ cases \in Seq({v \in Double : ~IsSpecial(v)})
  /\ num_random_cases \in Nat \ {0}
  /\ max_digits \in Nat \ {0}
  /\ num_doubles_per_digit \in Nat \ {0}
  /\ NoValue \notin Double

VARIABLES
  pc,             \* who draws numbers: "verify", "digits" or nobody
  seed_,          \* the generator's state
  d,              \* the number drawn last, NoValue once it has been used
  digit,          \* the digit count of the outer loop
  verified,       \* the numbers every method but null is tried on, in order
  data            \* random_digit_data

vars == <<pc, seed_, d, digit, verified, data>>

-----------------------------------------------------------------------------
(* Mutant of next: nothing wraps around. *)
next_wide(seed) == multiplier * (seed % 2^half_bits) + increment

next(seed) == (multiplier * seed + increment) % 2^half_bits

(* The double whose high word is the first of two numbers, and whose low   *)
(* word is the second.                                                     *)
Pair(high, low) ==
  [negative |-> high \div 2^(half_bits - 1) = 1,
   exp |-> ((high * 2^half_bits + low) \div implicit_bit) % (exp_mask + 1),
   sig |-> (high * 2^half_bits + low) % implicit_bit]

(* The decimal exponent of an ordinary number is one of these:             *)
(* 30103 / 100000 is just above log10(2).                                  *)
Magnitudes(v) ==
  LET bits == CHOOSE b \in 1 .. num_sig_bits + 1 : BinSig(v) \in 2^(b - 1) .. 2^b - 1
      e    == ((bits - 1 + BinExp(v)) * 30103) \div 100000
  IN {e - 1, e, e + 1}

(* "%.*g" with digits significant digits: the scale that leaves that many  *)
(* before the point, and the nearest integer there, the even one in the    *)
(* middle.                                                                 *)
ScaleOf(v, digits) ==
  CHOOSE k \in {e - digits + 1 : e \in Magnitudes(v)} :
    /\ DecimalLeq(10^(digits - 1), k, 4 * BinSig(v), BinExp(v))
    /\ ~DecimalLeq(10^digits, k, 4 * BinSig(v), BinExp(v))

Printed(v, digits) ==
  LET k    == ScaleOf(v, digits)
      num  == BinSig(v) * Twos(BinExp(v), k)
      den  == Tens(BinExp(v), k)
      m    == num \div den
      rest == 2 * (num % den)
  IN IF rest > den \/ (rest = den /\ m % 2 = 1) THEN m + 1 ELSE m

(* from_chars of m * 10^k, the text of v: the double it identifies, or, if *)
(* there is none so large, infinity.  Printing changes a number by less    *)
(* than a factor of two.                                                   *)
Read(v, m, k) ==
  LET near == [negative : {v.negative}, sig : 0 .. implicit_bit - 1,
               exp : {v.exp - 1, v.exp, v.exp + 1} \cap 0 .. exp_mask - 1]
  IN IF \E w \in near : RoundTrips(w, m, k)
       THEN CHOOSE w \in near : RoundTrips(w, m, k)
       ELSE [negative |-> v.negative, exp |-> exp_mask, sig |-> 0]

(* Limit the number of digits. *)
Limited(v, digits) ==
  IF IsZero(v) THEN v
  ELSE Read(v, Printed(v, digits), ScaleOf(v, digits))

-----------------------------------------------------------------------------
Init ==
  /\ pc = "verify"
  /\ seed_ = 0
  /\ d = NoValue
  /\ digit = 1
  /\ verified = <<>> /\ data = <<>>

(* for (auto c : cases) verify_value(c.value, m.dtoa, c.expected): a text  *)
(* that differs from the expected one is a warning only.                   *)
VerifyCase ==
  /\ pc = "verify" /\ Len(verified) < Len(cases)
  /\ verified' = Append(verified, cases[Len(verified) + 1])
  /\ UNCHANGED <<pc, seed_, d, digit, data>>

(* A generator exists: verify() makes its own behind the cases. *)
Drawing == pc # "done" /\ (pc = "verify" => Len(verified) >= Len(cases))

(* Neither nan nor inf. *)
Usable == d # NoValue /\ ~IsSpecial(d)

(* Mutant of Draw: the two calls are in one expression, and reordered. *)
DrawReordered ==
  /\ Drawing
  /\ ~Usable
  /\ LET low  == next(seed_)
         high == next(low)
     IN seed_' = high /\ d' = Pair(high, low)
  /\ UNCHANGED <<pc, digit, verified, data>>

(* do d = r(); while (isnan(d) || isinf(d)) *)
Draw ==
  /\ Drawing
  /\ ~Usable
  /\ LET high == next(seed_)
         low  == next(high)
     IN seed_' = low /\ d' = Pair(high, low)
  /\ UNCHANGED <<pc, digit, verified, data>>

(* verify_value(d, m.dtoa, nullptr); behind the last one, the static       *)
(* initializer of random_digit_data starts another generator.              *)
VerifyValue ==
  /\ pc = "verify" /\ Usable
  /\ verified' = Append(verified, d)
  /\ d' = NoValue
  /\ IF Len(verified') = Len(cases) + num_random_cases
       THEN pc' = "digits" /\ seed_' = 0
       ELSE UNCHANGED <<pc, seed_>>
  /\ UNCHANGED <<digit, data>>

(* Mutant of LimitDigits: the digit count is increased too early. *)
LimitDigitsEarly ==
  /\ pc = "digits" /\ Usable
  /\ data' = Append(data, Limited(d, digit))
  /\ d' = NoValue
  /\ IF Len(data') = max_digits * num_doubles_per_digit
       THEN pc' = "done" /\ UNCHANGED digit
       ELSE /\ digit' = Len(data') \div (num_doubles_per_digit - 1) + 1
            /\ UNCHANGED pc
  /\ UNCHANGED <<seed_, verified>>

LimitDigits ==
  /\ pc = "digits" /\ Usable
  /\ data' = Append(data, Limited(d, digit))
  /\ d' = NoValue
  /\ IF Len(data') = max_digits * num_doubles_per_digit
       THEN pc' = "done" /\ UNCHANGED digit
       ELSE /\ digit' = Len(data') \div num_doubles_per_digit + 1
            /\ UNCHANGED pc
  /\ UNCHANGED <<seed_, verified>>

Next == VerifyCase \/ Draw \/ VerifyValue \/ LimitDigits

Spec == Init /\ [][Next]_vars

-----------------------------------------------------------------------------
TypeOK ==
  /\ pc \in {"verify", "digits", "done"}
  /\ seed_ \in 0 .. 2^half_bits - 1
  /\ d \in Double \cup {NoValue}
  /\ digit \in 1..max_digits
  /\ verified \in Seq(Double)
  /\ data \in Seq(Double)

(* The rng of the original benchmark changes the parity of its state at    *)
(* every call, and the low word of every double is a second call: no       *)
(* double with an odd significand is ever drawn.  Where verify() tries a   *)
(* converter on one, it is one of the fixed cases in their place.          *)
EvenOnly ==
  /\ d # NoValue => d.sig % 2 = 0
  /\ \A n \in DOMAIN verified :
       verified[n].sig % 2 = 1 => n \in DOMAIN cases /\ verified[n] = cases[n]

(* A number of the series for n digits has a text of n digits: limiting it *)
(* to n digits once more changes nothing.  (The numbers in front of the    *)
(* last one do not change any more.)                                       *)
DigitsFit ==
  LET last  == data[Len(data)]
      slice == (Len(data) - 1) \div num_doubles_per_digit + 1
  IN data # <<>> /\ IsOrdinary(last) => Limited(last, slice) = last

(* README.md:35-37: the series consist of "random `double` values reduced  *)
(* to a fixed precision of 1-17 significant decimal digits": none of them  *)
(* is infinite.                                                            *)
SeriesFinite == \A n \in DOMAIN data : ~IsSpecial(data[n])
=============================================================================
