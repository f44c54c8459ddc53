-------------------------------- MODULE DiyFp --------------------------------
(***************************************************************************)
(* The one-word floating-point numbers of double-conversion                *)
(* (src/double-conversion/diy-fp.h and diy-fp.cc): [f, e] is f * 2^e.      *)
(***************************************************************************)
EXTENDS Integers

CONSTANT kSignificandSize     \* bits of f (64)

(* The upper word of the product; a half is rounded up.                    *)
Times(x, y) ==
  LET p == x.f * y.f
  IN [f |-> p \div 2^kSignificandSize
              + (IF p % 2^kSignificandSize >= 2^(kSignificandSize - 1) THEN 1 ELSE 0),
      e |-> x.e + y.e + kSignificandSize]

Normalize(x) ==
  LET s == CHOOSE n \in 0..kSignificandSize - 1 :
             x.f * 2^n \in 2^(kSignificandSize - 1) .. 2^kSignificandSize - 1
  IN [f |-> x.f * 2^s, e |-> x.e - s]
=============================================================================
