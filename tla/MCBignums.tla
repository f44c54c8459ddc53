----------------------------- MODULE MCBignums -----------------------------
(***************************************************************************)
(* Two bignums with bigits of two bits in chunks of three, the same slack  *)
(* of a bigit and a factor in a double chunk as the code has.              *)
(***************************************************************************)
EXTENDS Bignums

MCThirds == {<<0, 0>>, <<7, 0>>, <<61, 0>>, <<3, 3>>, <<1, 4>>, <<1, 6>>}
MCDecimals == {<<7>>, <<4, 0>>, <<5, 9>>}
=============================================================================
