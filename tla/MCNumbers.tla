------------------------------ MODULE MCNumbers ------------------------------
(***************************************************************************)
(* A 14-bit IEEE format (5 exponent bits, 8 stored significand bits) whose *)
(* halves come from a 7-bit generator with the parities of the code's and, *)
(* like it, the full period: 64 doubles before the first one returns.  Of  *)
(* such generators, one was taken that draws a special value and a value   *)
(* next to the largest one, as the code's does.                            *)
(***************************************************************************)
EXTENDS Numbers

Value(exp_, sig_) == [negative |-> FALSE, exp |-> exp_, sig |-> sig_]

(* num / den times 2^n, rounded. *)
Scaled(num, den, n) == (num * 2^(n + 1) + den) \div (2 * den)

(* The double next to num / den. *)
Nearest(num, den) ==
  LET n == CHOOSE n \in 0 .. 12 : Scaled(num, den, n) \in implicit_bit .. 2 * implicit_bit - 1
  IN Value(exp_offset - n, Scaled(num, den, n) - implicit_bit)

(* The cases of verify() in this format. *)
MCCases ==
  <<Value(0, 0), Nearest(1, 10), Nearest(12, 100), Nearest(123, 1000), Nearest(1234, 10000),
    Nearest(12345, 10000), Nearest(1, 3), Nearest(2, 3), Nearest(10, 3), Nearest(20, 3),
    Value(1, 0), Value(exp_mask - 1, implicit_bit - 1), Value(0, 1)>>
=============================================================================
