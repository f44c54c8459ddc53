------------------------------- MODULE MCPuff -------------------------------
(***************************************************************************)
(* Puff with 3-digit bigits on 11-bit significands: two bigits hold one,   *)
(* and the decimals have up to nine bigits.                                *)
(***************************************************************************)
EXTENDS Puff

(* Every significand at exponents that need no shift, a partial one,       *)
(* exactly one, two, and one and a bit, in both directions; the shortest   *)
(* ones with a sign too.                                                   *)
MCArguments ==
  [negative : {FALSE}, exp : {20, 27, 29, 31, 32, 33, 36, 41, 45, 50, 51, 59, 60},
   sig : 0 .. implicit_bit - 1]
  \cup [negative : {TRUE}, exp : {33, 51}, sig : 0 .. implicit_bit - 1]

MCZeros == [negative : BOOLEAN, exp : {0}, sig : {0}]
             \cup [negative : {FALSE}, exp : {33}, sig : 0..31]

(* All weights up to the fraction's last one that TLC can divide for.      *)
MCWeights == -9..3
=============================================================================
