------------------------------ MODULE Bignums ------------------------------
(***************************************************************************)
(* Bignum objects under any sequence of calls of their methods             *)
(* (src/double-conversion/bignum.h:40-90).  Objects never lose the room    *)
(* they have used, and their methods rely on what earlier calls left       *)
(* behind: that the bigits they do not use are zero, and that the highest  *)
(* they use is not.                                                        *)
(***************************************************************************)
EXTENDS Bignum, Sequences

CONSTANTS
  Objects,      \* the bignums
  Factors,      \* the integers the caller passes
  Shifts,       \* the shifts, powers and exponents it passes
  Thirds,       \* <<n, s>>: the n * 2^s it compares sums with
  Decimals,     \* the digit sequences it reads
  Limit,        \* bound on the values of the objects, of the model only
  None          \* no call to take note of

VARIABLES
  big,          \* the objects
  last          \* the call just made, with its result

vars == <<big, last>>

(* bigits times 2^(exponent * kBigitSize).                                 *)
ValueOf(x) ==
  Base^x.exponent_ * FoldSet(LAMBDA i, sum : sum + x.bigits_[i] * Base^i, 0,
                             0 .. x.used_digits_ - 1)

Init == big = [x \in Objects |-> NewBignum] /\ last = None

Calls(op, x, args, new, result) ==
  /\ last = None
  /\ ValueOf(new) < Limit
  /\ big' = [big EXCEPT ![x] = new]
  /\ last' = [op |-> op, on |-> x, with |-> args, result |-> result]

-----------------------------------------------------------------------------
DoAssignUInt64(x) ==
  \E n \in Factors : Calls("AssignUInt64", x, <<n>>, AssignUInt64(big[x], n), 0)

DoAssignBignum(x, y) ==
  Calls("AssignBignum", x, <<y>>, AssignBignum(big[x], big[y]), 0)

DoAssignPowerUInt16(x) ==
  \E base \in Factors \ {0}, e \in Shifts :
    /\ base^e < Limit
    /\ Calls("AssignPowerUInt16", x, <<base, e>>, AssignPowerUInt16(big[x], base, e), 0)

DoAssignDecimalString(x) ==
  \E s \in Decimals :
    Calls("AssignDecimalString", x, <<s>>, AssignDecimalString(big[x], s), 0)

DoAddBignum(x, y) ==
  /\ FitsAdd(big[x], big[y])
  /\ Calls("AddBignum", x, <<y>>, AddBignum(big[x], big[y]), 0)

DoAddUInt64(x) ==
  \E n \in Factors :
    /\ FitsAdd(big[x], AssignUInt64(NewBignum, n))
    /\ Calls("AddUInt64", x, <<n>>, AddUInt64(big[x], n), 0)

DoSubtractBignum(x, y) ==
  /\ LessEqual(big[y], big[x])
  /\ FitsAlign(big[x], big[y])
  /\ Calls("SubtractBignum", x, <<y>>, SubtractBignum(big[x], big[y]), 0)

DoShiftLeft(x) ==
  \E s \in Shifts :
    /\ FitsShift(big[x])
    /\ Calls("ShiftLeft", x, <<s>>, ShiftLeft(big[x], s), 0)

DoMultiplyByUInt32(x) ==
  \E n \in Factors :
    /\ n < Chunk
    /\ ValueOf(big[x]) * n < Limit
    /\ Calls("MultiplyByUInt32", x, <<n>>, MultiplyByUInt32(big[x], n), 0)

DoMultiplyByUInt64(x) ==
  \E n \in Factors :
    /\ ValueOf(big[x]) * n < Limit
    /\ Calls("MultiplyByUInt64", x, <<n>>, MultiplyByUInt64(big[x], n), 0)

DoMultiplyByPowerOfTen(x) ==
  \E e \in Shifts :
    /\ ValueOf(big[x]) * 10^e < Limit
    /\ Calls("MultiplyByPowerOfTen", x, <<e>>, MultiplyByPowerOfTen(big[x], e), 0)

DoSquare(x) ==
  /\ FitsSquare(big[x])
  /\ Calls("Square", x, <<>>, Square(big[x]), 0)

DoDivideModuloIntBignum(x, y) ==
  /\ big[y].used_digits_ > 0
  /\ FitsAlign(big[x], big[y])
  /\ LET d == DivideModuloIntBignum(big[x], big[y])
     IN Calls("DivideModuloIntBignum", x, <<y>>, d.rest, d.result)

DoCompare(x, y) ==
  Calls("Compare", x, <<y>>, big[x], Compare(big[x], big[y]))

(* The third bignum is one the caller has just assigned and shifted.       *)
DoPlusCompare(x, y) ==
  \E c \in Thirds :
    LET third == ShiftLeft(AssignUInt64(NewBignum, c[1]), c[2])
    IN Calls("PlusCompare", x, <<y, c>>, big[x], PlusCompare(big[x], big[y], third))

Note == last # None /\ last' = None /\ UNCHANGED big

Next ==
  \/ \E x \in Objects :
       \/ DoAssignUInt64(x) \/ DoAssignPowerUInt16(x) \/ DoAssignDecimalString(x)
       \/ DoAddUInt64(x) \/ DoShiftLeft(x)
       \/ DoMultiplyByUInt32(x) \/ DoMultiplyByUInt64(x) \/ DoMultiplyByPowerOfTen(x)
       \/ DoSquare(x)
  \/ \E x \in Objects : \E y \in Objects \ {x} :
       \/ DoAssignBignum(x, y) \/ DoAddBignum(x, y) \/ DoSubtractBignum(x, y)
       \/ DoDivideModuloIntBignum(x, y)
       \/ DoCompare(x, y) \/ DoPlusCompare(x, y)
  \/ Note

Spec == Init /\ [][Next]_vars

-----------------------------------------------------------------------------
(* Between two calls every object is clamped and its unused bigits are     *)
(* zero (what IsClamped asserts, bignum.cc:682, and what AddBignum and     *)
(* Align read beyond used_digits_).                                        *)
WellFormed ==
  \A x \in Objects :
    /\ big[x] \in BignumType
    /\ IsClamped(big[x])
    /\ \A i \in Places : i >= big[x].used_digits_ => big[x].bigits_[i] = 0

A == INSTANCE Arithmetic WITH value <- [x \in Objects |-> ValueOf(big[x])]

(* Every call computes with the exact naturals, its result included: no    *)
(* carry or borrow is lost, whatever the calls before left in the arrays.  *)
Exact == A!Spec
=============================================================================
