------------------------------ MODULE MCHarness ------------------------------
(***************************************************************************)
(* Three methods, one of them null, two digit counts of two numbers each,  *)
(* every command line of up to two arguments and three longer ones.        *)
(***************************************************************************)
EXTENDS Harness

MCCommandLines ==
  UNION {[1..n -> Args] : n \in 0..2} \cup
    {<<"--unknown", "--commit-hash=h", "--benchmark_min_time">>,
     <<"--json-out=f", "--benchmark_filter", "--no-per-digit", "--json-out=">>,
     <<"--commit-hash=h", "--benchmark_filter", "--per-digit",
       "--benchmark_min_time">>}
=============================================================================
