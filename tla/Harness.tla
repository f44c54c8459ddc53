------------------------------- MODULE Harness -------------------------------
(***************************************************************************)
(* src/benchmark.cc: one process of dtoa-benchmark, from the static        *)
(* initializers that register the methods to the end of main(), and the    *)
(* result file it leaves behind.  Google Benchmark is external: it is      *)
(* modelled from the calls main() makes to it.                             *)
(***************************************************************************)
EXTENDS Integers, Sequences, FiniteSets

CONSTANTS
  Methods,        \* the names methods are registered under, ordered by <
  Null,           \* the name of the method that writes nothing
  max_digits,     \* digit counts of the per-digit series (17)
  num_doubles_per_digit, \* numbers generated per digit count (100'000)
  CommandLines,   \* the argument lists main() is started with
  FilterKeeps,    \* methods whose benchmarks a --benchmark_filter selects
  NoPath          \* json_out is empty

(* The arguments main() takes for itself, one the library knows, one that  *)
(* selects benchmarks, and one nobody knows.                               *)
OwnArgs == {"--per-digit", "--no-per-digit", "--commit-hash=", "--commit-hash=h",
            "--json-out=", "--json-out=f"}
LibraryArgs == {"--benchmark_min_time", "--benchmark_filter"}
Args == OwnArgs \cup LibraryArgs \cup {"--unknown"}

ASSUME HarnessAssumption ==
  /\ Methods \subseteq Nat /\ IsFiniteSet(Methods)
  /\ Null \in Methods
  /\ max_digits \in Nat \ {0}
  /\ num_doubles_per_digit \in Nat \ {0}
  /\ FilterKeeps \subseteq Methods
  /\ CommandLines \subseteq Seq(Args)
  /\ NoPath \notin {"default", "default_h", "f"}

(* results/<machine>_<os>_<compiler>[_<commit>].json, or the user's file.  *)
Paths == {"default", "default_h", "f"}

VARIABLES
  pc,             \* the part of the process about to run
  methods,        \* the static vector of registered methods
  broken,         \* methods that fail verification (fixed: the rng is seeded)
  argv0,          \* the command line as the user gave it (without argv[0])
  argv,           \* the array main() compacts in place
  i, out,         \* its indices
  per_digit, commit_hash, json_out,
  checked,        \* number of methods verify() has returned for
  benches,        \* benchmarks registered with the library, in order
  data,           \* random_digit_data: for each number, its digit limit
  pool,           \* the mixed pool, in some order
  measured,       \* what was measured: benchmark and numbers
  results,        \* path -> state of the file
  writing,        \* the open result file
  exit            \* exit code, -1 while running, -2 killed or aborted

locals  == <<argv, i, out, per_digit, commit_hash, json_out>>
pools   == <<data, pool>>
files   == <<results, writing>>
given   == <<broken, argv0>>
vars == <<pc, methods, given, locals, checked, benches, pools, measured,
          files, exit>>

NoBuffer == <<>>

Range(seq) == {seq[n] : n \in DOMAIN seq}

-----------------------------------------------------------------------------
Init ==
  /\ pc = "static"
  /\ methods = <<>>
  /\ broken \in SUBSET Methods
  /\ argv0 \in CommandLines
  /\ argv = argv0
  /\ i = 1 /\ out = 1
  /\ per_digit = TRUE /\ commit_hash = "" /\ json_out = NoPath
  /\ checked = 0
  /\ benches = <<>>
  /\ data = NoBuffer /\ pool = NoBuffer
  /\ measured = {}
  /\ results \in [Paths -> {"absent", "complete"}]
  /\ writing = NoPath
  /\ exit = -1

(* The objects of the *-test.cc files are initialized in the order of the  *)
(* link, which the language does not fix; the vector they are put into is  *)
(* constant-initialized before any of them.                                *)
RegisterMethod(m) ==
  /\ pc = "static"
  /\ m \notin Range(methods)
  /\ methods' = Append(methods, m)
  /\ UNCHANGED <<pc, given, locals, checked, benches, pools, measured,
                 files, exit>>

EnterMain ==
  /\ pc = "static"
  /\ Range(methods) = Methods
  /\ pc' = "parse"
  /\ UNCHANGED <<methods, given, locals, checked, benches, pools, measured,
                 files, exit>>

(* argv[out++] = argv[i] keeps what main() does not know; the numbering    *)
(* starts after argv[0].                                                   *)
ParseArg ==
  /\ pc = "parse"
  /\ i <= Len(argv)
  /\ i' = i + 1
  /\ LET arg == argv[i]
     IN /\ per_digit' = CASE arg = "--per-digit"    -> TRUE
                          [] arg = "--no-per-digit" -> FALSE
                          [] OTHER                  -> per_digit
        /\ commit_hash' = CASE arg = "--commit-hash="  -> ""
                            [] arg = "--commit-hash=h" -> "h"
                            [] OTHER                   -> commit_hash
        /\ json_out' = CASE arg = "--json-out="  -> NoPath
                         [] arg = "--json-out=f" -> "f"
                         [] OTHER                -> json_out
        /\ IF arg \in OwnArgs
             THEN UNCHANGED <<argv, out>>
             ELSE argv' = [argv EXCEPT ![out] = arg] /\ out' = out + 1
  /\ UNCHANGED <<pc, methods, given, checked, benches, pools, measured,
                 files, exit>>

(* Mutants of SortMethods: the methods stay in the order of the link, argc  *)
(* keeps its value.                                                        *)
CutArguments ==
  /\ pc = "parse"
  /\ i > Len(argv)
  /\ pc' = "verify"
  /\ argv' = SubSeq(argv, 1, out - 1)
  /\ UNCHANGED <<methods, given, i, out, per_digit, commit_hash, json_out,
                 checked, benches, pools, measured, files, exit>>

SortMethodsOnly ==
  /\ pc = "parse"
  /\ i > Len(argv)
  /\ pc' = "verify"
  /\ \E sorted \in [DOMAIN methods -> Range(methods)] :
       /\ Range(sorted) = Range(methods)
       /\ \A m, n \in DOMAIN sorted : m < n => sorted[m] <= sorted[n]
       /\ methods' = sorted
  /\ UNCHANGED <<given, locals, checked, benches, pools, measured, files, exit>>

(* argc = out, and the methods are sorted by name.                         *)
SortMethods ==
  /\ pc = "parse"
  /\ i > Len(argv)
  /\ pc' = "verify"
  /\ argv' = SubSeq(argv, 1, out - 1)
  /\ \E sorted \in [DOMAIN methods -> Range(methods)] :
       /\ Range(sorted) = Range(methods)
       /\ \A m, n \in DOMAIN sorted : m < n => sorted[m] <= sorted[n]
       /\ methods' = sorted
  /\ UNCHANGED <<given, i, out, per_digit, commit_hash, json_out, checked,
                 benches, pools, measured, files, exit>>

(* verify() in the order of the names.  A text that is merely unexpected   *)
(* is a warning; one with extra characters, or that is not read back, is   *)
(* an exception nobody catches.                                            *)
Throws(m) == m # Null /\ m \in broken

(* Mutants of VerifyNext: one method too many is counted, a failed one      *)
(* passes, the loop does not advance.                                      *)
VerifyNextTooFar ==
  /\ pc = "verify"
  /\ checked <= Len(methods)
  /\ checked < Len(methods) => ~Throws(methods[checked + 1])
  /\ checked' = checked + 1
  /\ UNCHANGED <<pc, methods, given, locals, benches, pools, measured, files,
                 exit>>

VerifyNextSwallows ==
  /\ pc = "verify"
  /\ checked < Len(methods)
  /\ checked' = checked + 1
  /\ UNCHANGED <<pc, methods, given, locals, benches, pools, measured, files,
                 exit>>

VerifyNextStuck ==
  /\ pc = "verify"
  /\ checked < Len(methods)
  /\ UNCHANGED vars

VerifyNext ==
  /\ pc = "verify"
  /\ checked < Len(methods)
  /\ ~Throws(methods[checked + 1])
  /\ checked' = checked + 1
  /\ UNCHANGED <<pc, methods, given, locals, benches, pools, measured, files,
                 exit>>

VerifyThrows ==
  /\ pc = "verify"
  /\ checked < Len(methods)
  /\ Throws(methods[checked + 1])
  /\ pc' = "exited"
  /\ exit' = -2
  /\ UNCHANGED <<methods, given, locals, checked, benches, pools, measured,
                 files>>

(* The default path is only taken for a full sweep.  For every method one  *)
(* benchmark per digit count, if asked for, then one for the mixed pool    *)
(* (digit 0).                                                              *)
SeriesLength == IF per_digit THEN max_digits + 1 ELSE 1

Benchmark(n) ==
  [method |-> methods[(n - 1) \div SeriesLength + 1],
   digit  |-> (((n - 1) % SeriesLength) + 1) % SeriesLength]

RegisterAll ==
  /\ pc = "verify"
  /\ checked = Len(methods)
  /\ pc' = "initialize"
  /\ json_out' = IF json_out = NoPath /\ per_digit
                   THEN IF commit_hash = "" THEN "default" ELSE "default_h"
                   ELSE json_out
  /\ benches' = [n \in 1 .. Len(methods) * SeriesLength |-> Benchmark(n)]
  /\ UNCHANGED <<methods, given, argv, i, out, per_digit, commit_hash,
                 checked, pools, measured, files, exit>>

(* Mutant of Initialize: what nobody recognizes is ignored. *)
InitializeTolerant ==
  /\ pc = "initialize"
  /\ pc' = "open"
  /\ UNCHANGED <<methods, given, locals, checked, benches, pools, measured,
                 files, exit>>

(* The library takes the arguments it knows out of the list; main() gives  *)
(* up if one is left.                                                      *)
Initialize ==
  /\ pc = "initialize"
  /\ IF ~(Range(argv) \subseteq LibraryArgs)
       THEN pc' = "exited" /\ exit' = 1
       ELSE pc' = "open" /\ UNCHANGED exit
  /\ UNCHANGED <<methods, given, locals, checked, benches, pools, measured,
                 files>>

(* Mutant of OpenJson: the file is appended to. *)
OpenJsonAppends ==
  /\ pc = "open"
  /\ pc' = "run"
  /\ writing' = json_out
  /\ UNCHANGED <<methods, given, locals, checked, benches, pools, measured,
                 results, exit>>

(* The stream's open truncates the file, or fails (no results directory,   *)
(* no permission) and leaves everything as it was.                         *)
OpenJson ==
  /\ pc = "open"
  /\ \/ /\ json_out = NoPath
        /\ pc' = "run"
        /\ UNCHANGED <<files, exit>>
     \/ /\ json_out # NoPath
        /\ pc' = "run"
        /\ results' = [results EXCEPT ![json_out] = "partial"]
        /\ writing' = json_out
        /\ UNCHANGED exit
     \/ /\ json_out # NoPath
        /\ pc' = "exited"
        /\ exit' = 1
        /\ UNCHANGED files
  /\ UNCHANGED <<methods, given, locals, checked, benches, pools, measured>>

(* Mutant of DigitData: the two loops that generate the numbers swapped. *)
DigitDataInterleaved ==
  IF data # NoBuffer THEN data
  ELSE [n \in 1 .. num_doubles_per_digit * max_digits |->
          ((n - 1) % max_digits) + 1]

(* The numbers are generated when a benchmark first asks for them, all     *)
(* digit counts at once, the first ones limited to one digit.              *)
DigitData ==
  IF data # NoBuffer THEN data
  ELSE [n \in 1 .. num_doubles_per_digit * max_digits |->
          (n - 1) \div num_doubles_per_digit + 1]

DigitSlice(digit) ==
  LET first == (digit - 1) * num_doubles_per_digit
  IN SubSeq(DigitData, first + 1, first + num_doubles_per_digit)

(* The mixed pool shuffles all of them; the model keeps their order.       *)
MixedPool == IF pool # NoBuffer THEN pool ELSE DigitData

(* RunSpecifiedBenchmarks runs what was registered, in that order, or what *)
(* the filter leaves of it.                                                *)
Measured == {r.bench : r \in measured}
Selected(b) ==
  "--benchmark_filter" \in Range(argv) => b.method \in FilterKeeps
ToRun == {n \in DOMAIN benches : Selected(benches[n])
                                   /\ benches[n] \notin Measured}

RunBenchmark ==
  /\ pc = "run"
  /\ \E n \in ToRun :
       LET b == benches[n]
           values == IF b.digit = 0 THEN MixedPool ELSE DigitSlice(b.digit)
       IN /\ \A m \in ToRun : n <= m
          /\ measured' = measured \cup
               {[bench |-> b, values |-> Range(values)]}
          /\ data' = DigitData
          /\ pool' = IF b.digit = 0 THEN MixedPool ELSE pool
  /\ UNCHANGED <<pc, methods, given, locals, checked, benches, files, exit>>

(* The end of the run completes the file, and main() returns 0.            *)
Finish ==
  /\ pc = "run"
  /\ ToRun = {}
  /\ pc' = "exited"
  /\ exit' = 0
  /\ IF writing # NoPath
       THEN /\ results' = [results EXCEPT ![writing] = "complete"]
            /\ writing' = NoPath
       ELSE UNCHANGED files
  /\ UNCHANGED <<methods, given, locals, checked, benches, pools, measured>>

(* The user interrupts the program, or the machine stops.                  *)
Kill ==
  /\ pc # "exited"
  /\ pc' = "exited"
  /\ exit' = -2
  /\ writing' = NoPath
  /\ UNCHANGED <<methods, given, locals, checked, benches, pools, measured,
                 results>>

Run == \/ \E m \in Methods : RegisterMethod(m)
       \/ EnterMain \/ ParseArg \/ SortMethods \/ VerifyNext \/ VerifyThrows
       \/ RegisterAll
       \/ Initialize \/ OpenJson \/ RunBenchmark \/ Finish

Next == Run \/ Kill

(* The process is given processor time; nothing forces anybody to kill it. *)
Spec == Init /\ [][Next]_vars /\ WF_vars(Run)

-----------------------------------------------------------------------------
TypeOK ==
  /\ pc \in {"static", "parse", "verify", "initialize", "open", "run", "exited"}
  /\ Range(methods) \subseteq Methods
  /\ i \in 1 .. Len(argv0) + 1
  /\ per_digit \in BOOLEAN /\ commit_hash \in {"", "h"}
  /\ json_out \in Paths \cup {NoPath}
  /\ checked \in 0 .. Len(methods)
  /\ results \in [Paths -> {"absent", "partial", "complete"}]
  /\ writing \in Paths \cup {NoPath}
  /\ exit \in {-2, -1, 0, 1}

(* The first n arguments of args without main()'s own, for every n.        *)
KeptUpTo(args) ==
  LET kept[n \in 0 .. Len(args)] ==
        IF n = 0 THEN <<>>
        ELSE IF args[n] \in OwnArgs THEN kept[n - 1]
                                    ELSE Append(kept[n - 1], args[n])
  IN kept

(* The compaction of argv in place loses, doubles or reorders nothing that *)
(* is meant for the library, and never overwrites what is still to read.   *)
ArgsKept ==
  LET kept == KeptUpTo(argv0)[Len(argv0)]
  IN /\ pc \in {"static", "parse"} =>
          /\ out <= i
          /\ \A n \in i .. Len(argv0) : argv[n] = argv0[n]
     /\ pc \in {"verify", "initialize", "open", "run"} => argv = kept

(* A method is measured only after it has been verified: the numbers of a  *)
(* converter that is wrong are never seen.                                 *)
MeasuredVerified ==
  \A r \in measured :
    /\ ~Throws(r.bench.method)
    /\ \E n \in 1 .. checked : methods[n] = r.bench.method

(* The series for d digits converts numbers of d digits and no others, the *)
(* mixed benchmark all of them.                                            *)
DigitsMeasured ==
  \A r \in measured :
    r.values = IF r.bench.digit = 0 THEN 1 .. max_digits ELSE {r.bench.digit}

(* The benchmarks are registered, and with it run and listed, in the order *)
(* of the names, not in that of the link.                                  *)
InOrder ==
  \A m, n \in DOMAIN benches : m < n => benches[m].method <= benches[n].method

(* Exit code 0 means that everything asked for was measured, is in the     *)
(* file, and does not depend on the link, the order included; exit code 1  *)
(* that nothing was measured.                                              *)
ExitCodeTold ==
  /\ exit = 0 =>
       /\ Measured =
            [method : IF "--benchmark_filter" \in Range(argv0) THEN FilterKeeps
                                                             ELSE Methods,
             digit  : IF per_digit THEN 0 .. max_digits ELSE {0}]
       /\ InOrder
       /\ json_out # NoPath => results[json_out] = "complete"
  /\ exit = 1 => measured = {} /\ writing = NoPath

(* The result of an earlier run is overwritten only when nothing that can  *)
(* be checked beforehand stands in the way: every method has passed and    *)
(* every argument is known.                                                *)
OldResultKept ==
  [][results' # results =>
       /\ \A m \in Methods :
            ~Throws(m) /\ \E n \in 1 .. checked : methods[n] = m
       /\ Range(argv0) \subseteq OwnArgs \cup LibraryArgs
       /\ \A p \in Paths : results'[p] # results[p] => p = json_out]_vars

(* A run ends.                                                             *)
Terminates == <>(pc = "exited")

Writer == INSTANCE ResultWriter

(* The run touches the result files as ResultWriter says.                  *)
ImplementsWriter == Writer!Spec
=============================================================================
