---------------------------- MODULE DecimalText ----------------------------
(***************************************************************************)
(* The text a converter leaves in the caller's buffer, as DtoaContract     *)
(* reads it: the digits of an integer d, with the point after the first of *)
(* them, and the exponent that goes with it.                               *)
(***************************************************************************)
EXTENDS BinaryFloat

DecimalLength(d) == CHOOSE n \in 1..10 : 10^(n - 1) <= d /\ (n = 10 \/ d < 10^n)

(* d * 10^k with every digit of d, trailing zeros included.                *)
Written(negative, d, k) ==
  LET n == DecimalLength(d)
  IN [negative |-> negative,
      digits   |-> [i \in 1..n |-> (d \div 10^(n - i)) % 10],
      exp      |-> k + n - 1]

(* <<d, k>> with the zeros at the end of d moved into the exponent.        *)
Trimmed(d, k) ==
  LET zeros == CHOOSE z \in 0..9 : d % 10^z = 0 /\ (d \div 10^z) % 10 # 0
  IN <<d \div 10^zeros, k + zeros>>
=============================================================================
