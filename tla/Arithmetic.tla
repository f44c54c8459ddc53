----------------------------- MODULE Arithmetic -----------------------------
(***************************************************************************)
(* What the bignums of double-conversion stand for: natural numbers.  One  *)
(* method is called at a time; `last` is the call that has just been made, *)
(* with its result, until the caller takes note of it.                     *)
(***************************************************************************)
EXTENDS Integers, Sequences

CONSTANTS
  Objects,      \* the bignums
  Factors,      \* the integers the caller passes
  Shifts,       \* the shifts, powers and exponents it passes
  Thirds,       \* <<n, s>>: the n * 2^s it compares sums with
  Decimals,     \* the digit sequences it reads
  None          \* no call to take note of

VARIABLES value, last

vars == <<value, last>>

Sign(n) == IF n < 0 THEN -1 ELSE IF n = 0 THEN 0 ELSE 1

(* `op` on x gives it the value n and returns result.                      *)
Does(op, x, args, n, result) ==
  /\ last = None
  /\ last' = [op |-> op, on |-> x, with |-> args, result |-> result]
  /\ value' = [value EXCEPT ![x] = n]

Init == value = [x \in Objects |-> 0] /\ last = None

Assignment(x) ==
  \/ \E n \in Factors : Does("AssignUInt64", x, <<n>>, n, 0)
  \/ \E y \in Objects \ {x} : Does("AssignBignum", x, <<y>>, value[y], 0)
  \/ \E b \in Factors \ {0}, e \in Shifts : Does("AssignPowerUInt16", x, <<b, e>>, b^e, 0)

NumberOf(digits) ==
  LET read[i \in 0 .. Len(digits)] == IF i = 0 THEN 0 ELSE 10 * read[i - 1] + digits[i]
  IN read[Len(digits)]
Reading(x) == \E s \in Decimals : Does("AssignDecimalString", x, <<s>>, NumberOf(s), 0)

Sum(x) ==
  \/ \E y \in Objects \ {x} : Does("AddBignum", x, <<y>>, value[x] + value[y], 0)
  \/ \E n \in Factors : Does("AddUInt64", x, <<n>>, value[x] + n, 0)
  \/ \E y \in Objects \ {x} :
       /\ value[x] >= value[y]
       /\ Does("SubtractBignum", x, <<y>>, value[x] - value[y], 0)

Product(x) ==
  \/ \E s \in Shifts : Does("ShiftLeft", x, <<s>>, value[x] * 2^s, 0)
  \/ \E n \in Factors : Does("MultiplyByUInt32", x, <<n>>, value[x] * n, 0)
  \/ \E n \in Factors : Does("MultiplyByUInt64", x, <<n>>, value[x] * n, 0)
  \/ \E e \in Shifts : Does("MultiplyByPowerOfTen", x, <<e>>, value[x] * 10^e, 0)
  \/ Does("Square", x, <<>>, value[x] * value[x], 0)

Quotient(x) ==
  \E y \in Objects \ {x} :
    /\ value[y] > 0
    /\ Does("DivideModuloIntBignum", x, <<y>>, value[x] % value[y],
            value[x] \div value[y])

Comparison(x) ==
  \E y \in Objects \ {x} :
    \/ Does("Compare", x, <<y>>, value[x], Sign(value[x] - value[y]))
    \/ \E c \in Thirds :
         Does("PlusCompare", x, <<y, c>>, value[x],
              Sign(value[x] + value[y] - c[1] * 2^c[2]))

Note == last # None /\ last' = None /\ UNCHANGED value

Next ==
  \/ \E x \in Objects : Assignment(x) \/ Reading(x) \/ Sum(x) \/ Product(x) \/ Quotient(x) \/ Comparison(x)
  \/ Note

Spec == Init /\ [][Next]_vars
=============================================================================
