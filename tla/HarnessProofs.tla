---------------------------- MODULE HarnessProofs ----------------------------
(***************************************************************************)
(* For every set of methods, every link order and every command line: a    *)
(* method is measured only after it passed verification, an old result     *)
(* file is touched only after all of them did and every argument is known, *)
(* and the library receives every argument that is meant for it.  For      *)
(* every number of digit counts, of numbers and of methods: a series       *)
(* measures the numbers of its digit count and no others, and exit code 0  *)
(* means that everything that was asked for has been measured and is in    *)
(* the file.                                                               *)
(***************************************************************************)
EXTENDS Harness, NaturalFacts

LEMMA DivideIndex ==
  ASSUME NEW n \in Nat, NEW k \in Nat, NEW d \in Nat \ {0}, n < k * d
  PROVE  n \div d \in Nat /\ n \div d < k
OBVIOUS

(* What is in the first m places of a sequence.                            *)
Prefix(seq, m) == {seq[n] : n \in 1..m}

MethodsOK ==
  /\ methods \in Seq(Methods)
  /\ checked \in 0 .. Len(methods)
  /\ pc \in {"static", "parse"} => checked = 0
  /\ \A n \in 1 .. checked : ~Throws(methods[n])
  /\ pc \notin {"static", "exited"} => Range(methods) = Methods
  /\ pc \in {"initialize", "open", "run"} => checked = Len(methods)

ArgvOK ==
  /\ argv0 \in Seq(Args)
  /\ pc \in {"static", "parse"} =>
       /\ argv \in Seq(Args) /\ Len(argv) = Len(argv0)
       /\ i \in 1 .. Len(argv0) + 1
       /\ out \in 1 .. i
       /\ \A n \in i .. Len(argv0) : argv[n] = argv0[n]
       /\ \A n \in 1 .. i - 1 :
            argv0[n] \in OwnArgs \/ argv0[n] \in Prefix(argv, out - 1)
  /\ pc \in {"verify", "initialize", "open", "run"} =>
       /\ argv \in Seq(Args)
       /\ Range(argv0) \subseteq OwnArgs \cup Range(argv)
  /\ pc \in {"open", "run"} => Range(argv) \subseteq LibraryArgs

BenchesOK ==
  /\ per_digit \in BOOLEAN
  /\ pc \in {"open", "run", "initialize"} =>
       \A n \in DOMAIN benches : benches[n].method \in Methods
  /\ measured # {} => pc \in {"run", "exited"}
  /\ MeasuredVerified

Typed(files_) == files_ \in [Paths -> {"absent", "partial", "complete"}]

FilesOK ==
  /\ Typed(results)
  /\ json_out \in Paths \cup {NoPath}
  /\ pc \in {"static", "parse", "verify", "initialize", "open"} => writing = NoPath
  /\ pc = "run" => writing \in {NoPath, json_out}

IInv == MethodsOK /\ ArgvOK /\ BenchesOK /\ FilesOK

USE DEF given, locals, pools, files

LEMMA InitIInv == Init => IInv
<1> SUFFICES ASSUME Init PROVE IInv
  OBVIOUS
<1>1. argv0 \in Seq(Args) /\ argv = argv0 /\ i = 1 /\ out = 1
  BY HarnessAssumption DEF Init
<1>2. Len(argv0) \in Nat
  BY <1>1
<1>3. MethodsOK
  <2>1. pc = "static" /\ methods = <<>> /\ checked = 0
    BY DEF Init
  <2>2. methods \in Seq(Methods) /\ checked \in 0 .. Len(methods)
    BY <2>1
  <2>3. \A n \in 1 .. checked : ~Throws(methods[n])
    BY <2>1
  <2> QED BY <2>1, <2>2, <2>3 DEF MethodsOK
<1>4. ArgvOK
  <2>1. /\ i \in 1 .. Len(argv0) + 1
        /\ out \in 1 .. i
        /\ \A n \in 1 .. i - 1 :
             argv0[n] \in OwnArgs \/ argv0[n] \in Prefix(argv, out - 1)
    BY <1>1, <1>2
  <2> QED BY <1>1, <2>1 DEF Init, ArgvOK
<1>5. BenchesOK
  BY DEF Init, BenchesOK, MeasuredVerified
<1> QED BY <1>3, <1>4, <1>5 DEF Init, FilesOK, Typed, IInv

(* Nothing is measured before the benchmarks run.                          *)
LEMMA NothingMeasured ==
  ASSUME BenchesOK, pc \notin {"run", "exited"}
  PROVE  measured = {}
BY DEF BenchesOK

LEMMA RegisterMethodIInv ==
  ASSUME IInv, NEW m \in Methods, RegisterMethod(m) PROVE IInv'
<1>1. /\ pc = "static" /\ pc' = "static"
      /\ methods' = Append(methods, m)
      /\ checked = 0 /\ checked' = 0
      /\ methods \in Seq(Methods)
  BY DEF RegisterMethod, IInv, MethodsOK
<1>2. methods' \in Seq(Methods) /\ Len(methods') = Len(methods) + 1
      /\ Len(methods) \in Nat
  BY <1>1
<1>3. MethodsOK'
  <2>1. checked' \in 0 .. Len(methods')
    BY <1>1, <1>2
  <2>2. \A n \in 1 .. checked' : ~Throws(methods[n])'
    BY <1>1
  <2> QED BY <1>1, <1>2, <2>1, <2>2 DEF MethodsOK
<1>4. ArgvOK'
  BY <1>1 DEF RegisterMethod, IInv, ArgvOK, Prefix
<1>5. measured = {} /\ measured' = {} /\ per_digit' = per_digit
  BY <1>1, NothingMeasured DEF IInv, RegisterMethod
<1>6. BenchesOK'
  BY <1>1, <1>5 DEF IInv, BenchesOK, MeasuredVerified
<1>7. FilesOK'
  BY <1>1 DEF RegisterMethod, IInv, FilesOK
<1> QED BY <1>3, <1>4, <1>6, <1>7 DEF IInv

LEMMA EnterMainIInv == ASSUME IInv, EnterMain PROVE IInv'
<1>1. MethodsOK'
  BY DEF EnterMain, IInv, MethodsOK, Throws, Range
<1>2. ArgvOK'
  BY DEF EnterMain, IInv, ArgvOK, Prefix
<1>3. measured = {} /\ measured' = {}
  BY NothingMeasured DEF IInv, EnterMain
<1>4. BenchesOK'
  BY <1>3 DEF EnterMain, IInv, BenchesOK, MeasuredVerified
<1>5. FilesOK'
  BY DEF EnterMain, IInv, FilesOK
<1> QED BY <1>1, <1>2, <1>4, <1>5 DEF IInv

(* The heart of the compaction: what is kept stays among the first         *)
(* out - 1 arguments, and what is not yet read is not overwritten.         *)
LEMMA ParseArgIInv == ASSUME IInv, ParseArg PROVE IInv'
<1>1. /\ argv0 \in Seq(Args) /\ argv \in Seq(Args) /\ Len(argv) = Len(argv0)
      /\ i \in 1 .. Len(argv0) + 1 /\ out \in 1 .. i
      /\ \A n \in i .. Len(argv0) : argv[n] = argv0[n]
      /\ \A n \in 1 .. i - 1 :
           argv0[n] \in OwnArgs \/ argv0[n] \in Prefix(argv, out - 1)
  BY DEF ParseArg, IInv, ArgvOK
<1>2. Len(argv0) \in Nat /\ i \in Nat /\ out \in Nat /\ i <= Len(argv0)
  <2>1. i <= Len(argv)
    BY DEF ParseArg
  <2> QED BY <1>1, <2>1
<1>3. i' = i + 1 /\ pc' = "parse" /\ argv0' = argv0 /\ argv[i] = argv0[i]
      /\ argv[i] \in Args
  <2>1. i' = i + 1 /\ pc' = "parse" /\ argv0' = argv0
    BY DEF ParseArg
  <2>2. argv[i] = argv0[i] /\ argv[i] \in Args
    BY <1>1, <1>2
  <2> QED BY <2>1, <2>2
<1>4. ASSUME argv[i] \in OwnArgs PROVE ArgvOK'
  <2>1. argv' = argv /\ out' = out
    BY <1>4 DEF ParseArg
  <2>2. /\ i' \in 1 .. Len(argv0) + 1 /\ out' \in 1 .. i'
    BY <1>1, <1>2, <1>3, <2>1
  <2>3. \A n \in i' .. Len(argv0) : argv'[n] = argv0[n]
    BY <1>1, <1>2, <1>3, <2>1
  <2>4. \A n \in 1 .. i' - 1 :
          argv0[n] \in OwnArgs \/ argv0[n] \in Prefix(argv', out' - 1)
    <3> SUFFICES ASSUME NEW n \in 1 .. i' - 1
                 PROVE  argv0[n] \in OwnArgs
                          \/ argv0[n] \in Prefix(argv', out' - 1)
      OBVIOUS
    <3>1. n \in 1 .. i - 1 \/ n = i
      BY <1>2, <1>3
    <3> QED BY <1>1, <1>3, <1>4, <2>1, <3>1
  <2> QED BY <1>1, <1>3, <2>1, <2>2, <2>3, <2>4 DEF ArgvOK, Prefix
<1>5. ASSUME argv[i] \notin OwnArgs PROVE ArgvOK'
  <2>1. argv' = [argv EXCEPT ![out] = argv[i]] /\ out' = out + 1
    BY <1>5 DEF ParseArg
  <2>2. /\ i' \in 1 .. Len(argv0) + 1 /\ out' \in 1 .. i'
    BY <1>1, <1>2, <1>3, <2>1
  <2>3. argv' \in Seq(Args) /\ Len(argv') = Len(argv0)
    BY <1>1, <1>2, <1>3, <2>1
  <2>4. \A n \in i' .. Len(argv0) : argv'[n] = argv0[n]
    BY <1>1, <1>2, <1>3, <2>1
  <2>5. argv'[out] = argv[i] /\ \A n \in 1 .. out - 1 : argv'[n] = argv[n]
    BY <1>1, <1>2, <2>1
  <2>6. Prefix(argv', out' - 1) = Prefix(argv, out - 1) \cup {argv[i]}
    <3>1. out' - 1 = out
      BY <1>2, <2>1
    <3>2. 1 .. out = (1 .. out - 1) \cup {out}
      BY <1>1, <1>2
    <3>3. Prefix(argv', out) = {argv'[n] : n \in (1 .. out - 1) \cup {out}}
      BY <3>2 DEF Prefix
    <3> QED BY <2>5, <3>1, <3>3, Zenon DEF Prefix
  <2>7. \A n \in 1 .. i' - 1 :
          argv0[n] \in OwnArgs \/ argv0[n] \in Prefix(argv', out' - 1)
    <3> SUFFICES ASSUME NEW n \in 1 .. i' - 1
                 PROVE  argv0[n] \in OwnArgs
                          \/ argv0[n] \in Prefix(argv', out' - 1)
      OBVIOUS
    <3>1. n \in 1 .. i - 1 \/ n = i
      BY <1>2, <1>3
    <3> QED BY <1>1, <1>3, <2>6, <3>1
  <2> QED BY <1>1, <1>3, <2>2, <2>3, <2>4, <2>7 DEF ArgvOK, Prefix
<1>6. MethodsOK'
  BY DEF ParseArg, IInv, MethodsOK, Throws, Range
<1>7. measured = {} /\ measured' = {} /\ per_digit' \in BOOLEAN
  <2>1. pc = "parse"
    BY DEF ParseArg
  <2>2. per_digit \in BOOLEAN
    BY DEF IInv, BenchesOK
  <2> QED BY <2>1, <2>2, NothingMeasured DEF IInv, ParseArg
<1>8. BenchesOK'
  BY <1>3, <1>7 DEF IInv, BenchesOK, MeasuredVerified
<1>9. FilesOK'
  <2>1. json_out' \in {json_out, NoPath, "f"}
    BY DEF ParseArg
  <2>2. json_out' \in Paths \cup {NoPath}
    BY <2>1 DEF IInv, FilesOK, Paths
  <2>3. UNCHANGED <<results, writing>>
    BY DEF ParseArg
  <2> QED BY <1>3, <2>2, <2>3 DEF ParseArg, IInv, FilesOK
<1>10. ArgvOK'
  BY <1>4, <1>5
<1> QED BY <1>6, <1>8, <1>9, <1>10 DEF IInv

LEMMA SortMethodsIInv == ASSUME IInv, SortMethods PROVE IInv'
<1>1. /\ pc = "parse" /\ pc' = "verify" /\ i > Len(argv)
      /\ argv' = SubSeq(argv, 1, out - 1) /\ argv0' = argv0
      /\ checked = 0 /\ checked' = 0 /\ broken' = broken
  BY DEF SortMethods, IInv, MethodsOK
<1>2. PICK sorted \in [DOMAIN methods -> Range(methods)] :
        Range(sorted) = Range(methods) /\ methods' = sorted
  BY DEF SortMethods
<1>3. methods \in Seq(Methods) /\ Range(methods) = Methods
  BY <1>1 DEF IInv, MethodsOK
<1>4. methods' \in Seq(Methods) /\ Range(methods') = Methods
  <2>1. DOMAIN methods = 1 .. Len(methods) /\ Len(methods) \in Nat
    BY <1>3
  <2>2. sorted \in [1 .. Len(methods) -> Methods]
    BY <1>2, <1>3, <2>1
  <2> QED BY <1>2, <1>3, <2>1, <2>2
<1>5. MethodsOK'
  <2>1. checked' \in 0 .. Len(methods') /\ Len(methods') \in Nat
    BY <1>1, <1>4
  <2>2. \A n \in 1 .. checked' : ~Throws(methods[n])'
    BY <1>1
  <2> QED BY <1>1, <1>4, <2>1, <2>2 DEF MethodsOK, Range
<1>6. ArgvOK'
  <2>1. /\ argv0 \in Seq(Args) /\ argv \in Seq(Args) /\ Len(argv) = Len(argv0)
        /\ i \in 1 .. Len(argv0) + 1 /\ out \in 1 .. i
        /\ \A n \in 1 .. i - 1 :
             argv0[n] \in OwnArgs \/ argv0[n] \in Prefix(argv, out - 1)
    BY <1>1 DEF IInv, ArgvOK
  <2>2. Len(argv0) \in Nat /\ i = Len(argv0) + 1 /\ out - 1 \in 0 .. Len(argv)
    BY <1>1, <2>1
  <2>3. /\ argv' \in Seq(Args) /\ Len(argv') = out - 1
        /\ \A n \in 1 .. out - 1 : argv'[n] = argv[n]
    BY <1>1, <2>1, <2>2
  <2>4. Prefix(argv, out - 1) \subseteq Range(argv')
    <3>1. DOMAIN argv' = 1 .. out - 1
      BY <2>3
    <3> QED BY <2>3, <3>1 DEF Prefix, Range
  <2>5. Range(argv0) \subseteq OwnArgs \cup Range(argv')
    <3>1. DOMAIN argv0 = 1 .. i - 1
      BY <2>1, <2>2
    <3> QED BY <2>1, <2>4, <3>1 DEF Range
  <2> QED BY <1>1, <2>1, <2>3, <2>5 DEF ArgvOK, Range
<1>7. measured = {} /\ measured' = {} /\ per_digit' = per_digit
  BY <1>1, NothingMeasured DEF IInv, SortMethods
<1>8. BenchesOK'
  BY <1>1, <1>7 DEF IInv, BenchesOK, MeasuredVerified
<1>9. FilesOK'
  BY <1>1 DEF SortMethods, IInv, FilesOK
<1> QED BY <1>5, <1>6, <1>8, <1>9 DEF IInv

LEMMA VerifyNextIInv == ASSUME IInv, VerifyNext PROVE IInv'
<1>1. /\ pc = "verify" /\ pc' = "verify" /\ methods' = methods
      /\ methods \in Seq(Methods) /\ Range(methods) = Methods
      /\ checked \in 0 .. Len(methods) /\ checked < Len(methods)
      /\ checked' = checked + 1 /\ broken' = broken
      /\ ~Throws(methods[checked + 1])
      /\ \A n \in 1 .. checked : ~Throws(methods[n])
  BY DEF VerifyNext, IInv, MethodsOK
<1>2. MethodsOK'
  <2>1. Len(methods) \in Nat
    BY <1>1
  <2>2. checked' \in 0 .. Len(methods)
    BY <1>1, <2>1
  <2>3. \A n \in 1 .. checked' : n \in 1 .. checked \/ n = checked + 1
    BY <1>1, <2>1
  <2>4. \A n \in 1 .. checked' : ~Throws(methods[n])
    BY <1>1, <2>3
  <2> QED BY <1>1, <2>2, <2>4 DEF MethodsOK, Range, Throws
<1>3. ArgvOK'
  BY <1>1 DEF VerifyNext, IInv, ArgvOK, Range
<1>4. measured = {} /\ measured' = {} /\ per_digit' = per_digit
  BY <1>1, NothingMeasured DEF IInv, VerifyNext
<1>5. BenchesOK'
  BY <1>1, <1>4 DEF IInv, BenchesOK, MeasuredVerified
<1>6. FilesOK'
  BY <1>1 DEF VerifyNext, IInv, FilesOK
<1> QED BY <1>2, <1>3, <1>5, <1>6 DEF IInv

(* Leaving the process changes nothing that has been measured.             *)
LEMMA LeaveIInv ==
  ASSUME IInv, pc' = "exited",
         UNCHANGED <<methods, broken, argv0, checked, measured, per_digit,
                     json_out>>,
         Typed(results')
  PROVE  IInv'
<1>1. MethodsOK'
  BY DEF IInv, MethodsOK, Throws, Range
<1>2. ArgvOK'
  BY DEF IInv, ArgvOK
<1>3. MeasuredVerified'
  BY DEF IInv, BenchesOK, MeasuredVerified, Throws
<1>4. BenchesOK'
  BY <1>3 DEF IInv, BenchesOK
<1>5. FilesOK'
  BY DEF IInv, FilesOK
<1> QED BY <1>1, <1>2, <1>4, <1>5 DEF IInv

LEMMA RegisterAllIInv == ASSUME IInv, RegisterAll PROVE IInv'
<1>1. /\ pc = "verify" /\ pc' = "initialize" /\ methods' = methods
      /\ methods \in Seq(Methods) /\ checked = Len(methods)
      /\ checked' = checked /\ broken' = broken
      /\ per_digit' = per_digit /\ per_digit \in BOOLEAN
  BY DEF RegisterAll, IInv, MethodsOK, BenchesOK
<1>2. MethodsOK'
  BY <1>1 DEF IInv, MethodsOK, Throws, Range
<1>3. ArgvOK'
  BY <1>1 DEF RegisterAll, IInv, ArgvOK, Range
<1>4. measured = {} /\ measured' = {}
  BY <1>1, NothingMeasured DEF IInv, RegisterAll
<1>5. \A n \in DOMAIN benches' : benches'[n].method \in Methods
  <2>1. benches' = [n \in 1 .. Len(methods) * SeriesLength |-> Benchmark(n)]
    BY DEF RegisterAll
  <2>2. SeriesLength \in Nat \ {0}
    BY <1>1, HarnessAssumption DEF SeriesLength
  <2>3. SUFFICES ASSUME NEW n \in 1 .. Len(methods) * SeriesLength
                 PROVE  Benchmark(n).method \in Methods
    BY <2>1
  <2>4. /\ n - 1 \in Nat /\ Len(methods) \in Nat
        /\ n - 1 < Len(methods) * SeriesLength
    BY <1>1, <2>2
  <2>5. /\ (n - 1) \div SeriesLength \in Nat
        /\ (n - 1) \div SeriesLength < Len(methods)
    BY <2>2, <2>4, DivideIndex
  <2>6. ((n - 1) \div SeriesLength) + 1 \in 1 .. Len(methods)
    BY <2>4, <2>5
  <2> QED BY <1>1, <2>6 DEF Benchmark
<1>6. BenchesOK'
  BY <1>1, <1>4, <1>5 DEF BenchesOK, MeasuredVerified
<1>7. FilesOK'
  <2>1. json_out' \in Paths \cup {NoPath}
    BY DEF RegisterAll, IInv, FilesOK, Paths
  <2> QED BY <1>1, <2>1 DEF RegisterAll, IInv, FilesOK
<1> QED BY <1>2, <1>3, <1>6, <1>7 DEF IInv

LEMMA InitializeIInv == ASSUME IInv, Initialize PROVE IInv'
<1>1. CASE pc' = "exited"
  BY <1>1, LeaveIInv DEF Initialize, IInv, FilesOK
<1>2. CASE pc' # "exited"
  <2>1. /\ pc = "initialize" /\ pc' = "open"
        /\ Range(argv) \subseteq LibraryArgs
    BY <1>2 DEF Initialize
  <2>2. MethodsOK'
    BY <2>1 DEF Initialize, IInv, MethodsOK, Throws, Range
  <2>3. ArgvOK'
    BY <2>1 DEF Initialize, IInv, ArgvOK, Range
  <2>4. measured = {} /\ measured' = {} /\ per_digit' = per_digit
        /\ benches' = benches
    BY <2>1, NothingMeasured DEF IInv, Initialize
  <2>5. BenchesOK'
    BY <2>1, <2>4 DEF IInv, BenchesOK, MeasuredVerified
  <2>6. FilesOK'
    BY <2>1 DEF Initialize, IInv, FilesOK
  <2> QED BY <2>2, <2>3, <2>5, <2>6 DEF IInv
<1> QED BY <1>1, <1>2

LEMMA OpenJsonIInv == ASSUME IInv, OpenJson PROVE IInv'
<1>1. CASE pc' = "exited"
  <2>1. results' = results
    BY <1>1 DEF OpenJson
  <2> QED BY <1>1, <2>1, LeaveIInv DEF OpenJson, IInv, FilesOK
<1>2. CASE pc' # "exited"
  <2>1. /\ pc = "open" /\ pc' = "run"
        /\ writing' \in {writing, json_out} /\ json_out' = json_out
    BY <1>2 DEF OpenJson
  <2>2. MethodsOK'
    BY <2>1 DEF OpenJson, IInv, MethodsOK, Throws, Range
  <2>3. ArgvOK'
    BY <2>1 DEF OpenJson, IInv, ArgvOK, Range
  <2>4. measured = {} /\ measured' = {} /\ per_digit' = per_digit
        /\ benches' = benches
    BY <2>1, NothingMeasured DEF IInv, OpenJson
  <2>5. BenchesOK'
    BY <2>1, <2>4 DEF IInv, BenchesOK, MeasuredVerified
  <2>6. FilesOK'
    <3>1. Typed(results')
      BY <1>2 DEF OpenJson, IInv, FilesOK, Typed
    <3> QED BY <2>1, <3>1 DEF IInv, FilesOK
  <2> QED BY <2>2, <2>3, <2>5, <2>6 DEF IInv
<1> QED BY <1>1, <1>2

LEMMA RunBenchmarkIInv == ASSUME IInv, RunBenchmark PROVE IInv'
<1>1. /\ pc = "run" /\ pc' = "run"
      /\ UNCHANGED <<methods, broken, argv0, argv, checked, per_digit, benches,
                     json_out, writing, results>>
  BY DEF RunBenchmark
<1>2. MethodsOK'
  BY <1>1 DEF IInv, MethodsOK, Throws, Range
<1>3. ArgvOK'
  BY <1>1 DEF IInv, ArgvOK, Range
<1>4. \A r \in measured' : r \in measured \/ r.bench \in Range(benches)
  <2>1. PICK n \in ToRun : \E values :
          measured' = measured \cup
            {[bench |-> benches[n], values |-> Range(values)]}
    BY DEF RunBenchmark
  <2>2. n \in DOMAIN benches
    BY DEF ToRun
  <2> QED BY <2>1, <2>2 DEF Range
<1>5. MeasuredVerified'
  <2>1. SUFFICES ASSUME NEW r \in measured'
                 PROVE  /\ ~Throws(r.bench.method)
                        /\ \E n \in 1 .. checked : methods[n] = r.bench.method
    BY <1>1 DEF MeasuredVerified, Throws
  <2>2. CASE r \in measured
    BY <2>2 DEF IInv, BenchesOK, MeasuredVerified
  <2>3. CASE r.bench \in Range(benches)
    <3>1. r.bench.method \in Methods
      BY <1>1, <2>3 DEF IInv, BenchesOK, Range
    <3>2. /\ Range(methods) = Methods /\ methods \in Seq(Methods)
          /\ checked = Len(methods)
          /\ \A n \in 1 .. checked : ~Throws(methods[n])
      BY <1>1 DEF IInv, MethodsOK
    <3>3. PICK n \in DOMAIN methods : methods[n] = r.bench.method
      BY <3>1, <3>2 DEF Range
    <3>4. n \in 1 .. checked
      BY <3>2, <3>3
    <3> QED BY <3>2, <3>3, <3>4
  <2> QED BY <1>4, <2>2, <2>3
<1>6. BenchesOK'
  BY <1>1, <1>5 DEF IInv, BenchesOK
<1>7. FilesOK'
  BY <1>1 DEF IInv, FilesOK
<1> QED BY <1>2, <1>3, <1>6, <1>7 DEF IInv

LEMMA NextIInv == IInv /\ [Next]_vars => IInv'
<1> SUFFICES ASSUME IInv, [Next]_vars PROVE IInv'
  OBVIOUS
<1>1. ASSUME NEW m \in Methods, RegisterMethod(m) PROVE IInv'
  BY <1>1, RegisterMethodIInv
<1>2. CASE EnterMain
  BY <1>2, EnterMainIInv
<1>3. CASE ParseArg
  BY <1>3, ParseArgIInv
<1>4. CASE SortMethods
  BY <1>4, SortMethodsIInv
<1>5. CASE VerifyNext
  BY <1>5, VerifyNextIInv
<1>6. CASE VerifyThrows
  BY <1>6, LeaveIInv DEF VerifyThrows, IInv, FilesOK
<1>7. CASE RegisterAll
  BY <1>7, RegisterAllIInv
<1>8. CASE Initialize
  BY <1>8, InitializeIInv
<1>9. CASE OpenJson
  BY <1>9, OpenJsonIInv
<1>10. CASE RunBenchmark
  BY <1>10, RunBenchmarkIInv
<1>11. CASE Finish
  <2>1. Typed(results')
    BY <1>11 DEF Finish, IInv, FilesOK, Typed
  <2> QED BY <1>11, <2>1, LeaveIInv DEF Finish
<1>12. CASE Kill
  BY <1>12, LeaveIInv DEF Kill, IInv, FilesOK
<1>13. CASE UNCHANGED vars
  <2>1. MethodsOK'
    BY <1>13 DEF vars, IInv, MethodsOK, Throws, Range
  <2>2. ArgvOK'
    BY <1>13 DEF vars, IInv, ArgvOK, Range, Prefix
  <2>3. MeasuredVerified'
    BY <1>13 DEF vars, IInv, BenchesOK, MeasuredVerified, Throws
  <2>4. BenchesOK'
    BY <1>13, <2>3 DEF vars, IInv, BenchesOK
  <2>5. FilesOK'
    BY <1>13 DEF vars, IInv, FilesOK
  <2> QED BY <2>1, <2>2, <2>4, <2>5 DEF IInv
<1> QED BY <1>1, <1>2, <1>3, <1>4, <1>5, <1>6, <1>7, <1>8, <1>9, <1>10,
           <1>11, <1>12, <1>13 DEF Next, Run

LEMMA Safety == Spec => []IInv
BY InitIInv, NextIInv, PTL DEF Spec

(* No number is ever measured of a method that verify() has not passed.    *)
THEOREM AlwaysMeasuredVerified == Spec => []MeasuredVerified
<1>1. IInv => MeasuredVerified
  BY DEF IInv, BenchesOK
<1> QED BY <1>1, Safety, PTL

(* A result file changes only once every method has passed and every       *)
(* argument is known, and it is the file the command line names.           *)
THEOREM OldResultAlwaysKept == Spec => OldResultKept
<1> DEFINE Kept ==
      results' # results =>
       /\ \A m \in Methods :
            ~Throws(m) /\ \E n \in 1 .. checked : methods[n] = m
       /\ Range(argv0) \subseteq OwnArgs \cup LibraryArgs
       /\ \A p \in Paths : results'[p] # results[p] => p = json_out
<1>1. IInv /\ [Next]_vars => [Kept]_vars
  <2> SUFFICES ASSUME IInv, Next, results' # results PROVE Kept
    OBVIOUS
  <2>1. OpenJson \/ Finish
    BY DEF Next, Run, RegisterMethod, EnterMain, ParseArg, SortMethods,
           VerifyNext, VerifyThrows, RegisterAll, Initialize, RunBenchmark, Kill
  <2>2. /\ pc \in {"open", "run"}
        /\ \/ results' = [results EXCEPT ![json_out] = "partial"]
           \/ results' = [results EXCEPT ![json_out] = "complete"]
    BY <2>1 DEF OpenJson, Finish, IInv, FilesOK
  <2>3. \A p \in Paths : results'[p] # results[p] => p = json_out
    <3>1. Typed(results)
      BY DEF IInv, FilesOK
    <3> QED BY <2>2, <3>1 DEF Typed
  <2>4. \A m \in Methods :
          ~Throws(m) /\ \E n \in 1 .. checked : methods[n] = m
    <3>1. /\ Range(methods) = Methods /\ methods \in Seq(Methods)
          /\ checked = Len(methods)
          /\ \A n \in 1 .. checked : ~Throws(methods[n])
      BY <2>2 DEF IInv, MethodsOK
    <3>2. ASSUME NEW m \in Methods
          PROVE  ~Throws(m) /\ \E n \in 1 .. checked : methods[n] = m
      <4>1. PICK n \in DOMAIN methods : methods[n] = m
        BY <3>1 DEF Range
      <4>2. n \in 1 .. checked
        BY <3>1, <4>1
      <4> QED BY <3>1, <4>1, <4>2
    <3> QED BY <3>2
  <2>5. Range(argv0) \subseteq OwnArgs \cup LibraryArgs
    BY <2>2 DEF IInv, ArgvOK
  <2> QED BY <2>3, <2>4, <2>5
<1> QED BY <1>1, Safety, PTL DEF Spec, OldResultKept

(* To the result files, a run is what ResultWriter says it is.             *)
THEOREM HarnessImplementsWriter == Spec => ImplementsWriter
<1>1. Init => Writer!Init
  BY DEF Init, Writer!Init, Writer!Content
<1>2. IInv /\ [Next]_vars => [Writer!Next]_Writer!vars
  <2> SUFFICES ASSUME IInv, [Next]_vars PROVE [Writer!Next]_Writer!vars
    OBVIOUS
  <2> USE DEF Writer!vars
  <2>1. CASE OpenJson
    <3>1. CASE UNCHANGED files
      BY <3>1
    <3>2. CASE json_out # NoPath /\ writing' = json_out
                 /\ results' = [results EXCEPT ![json_out] = "partial"]
      <4>1. json_out \in Paths /\ writing = NoPath
        BY <2>1, <3>2 DEF OpenJson, IInv, FilesOK
      <4> QED BY <3>2, <4>1 DEF Writer!Next, Writer!Open
    <3> QED BY <2>1, <3>1, <3>2 DEF OpenJson
  <2>2. CASE Finish
    <3>1. CASE UNCHANGED files
      BY <3>1
    <3>2. CASE writing # NoPath /\ writing' = NoPath
                 /\ results' = [results EXCEPT ![writing] = "complete"]
      <4>1. writing \in Paths
        BY <2>2, <3>2 DEF Finish, IInv, FilesOK
      <4> QED BY <3>2, <4>1 DEF Writer!Next, Writer!Finish
    <3> QED BY <2>2, <3>1, <3>2 DEF Finish
  <2>3. CASE Kill
    BY <2>3 DEF Kill, Writer!Next, Writer!Abandon
  <2>4. CASE UNCHANGED files
    BY <2>4
  <2>5. CASE UNCHANGED vars
    BY <2>5 DEF vars
  <2> QED BY <2>1, <2>2, <2>3, <2>4, <2>5 DEF Next, Run, RegisterMethod,
             EnterMain, ParseArg, SortMethods, VerifyNext, VerifyThrows,
             RegisterAll, Initialize, RunBenchmark
<1> QED BY <1>1, <1>2, Safety, PTL DEF Spec, ImplementsWriter, Writer!Spec


(* KeptUpTo obeys its equation.                                            *)
LEMMA KeptEquation ==
  ASSUME NEW args \in Seq(Args)
  PROVE  /\ \A n \in 0 .. Len(args) : KeptUpTo(args)[n] \in Seq(Args)
         /\ KeptUpTo(args)[0] = <<>>
         /\ \A n \in 1 .. Len(args) :
              KeptUpTo(args)[n] =
                IF args[n] \in OwnArgs THEN KeptUpTo(args)[n - 1]
                                      ELSE Append(KeptUpTo(args)[n - 1], args[n])
<1> DEFINE M == Len(args)
           S == Seq(Args)
           G == [p \in S \X Nat |-> IF p[2] \in 1..M /\ args[p[2]] \notin OwnArgs
                                      THEN Append(p[1], args[p[2]]) ELSE p[1]]
           e(f, n) == IF n = 0 THEN <<>>
                      ELSE IF args[n] \in OwnArgs THEN f[n - 1]
                                                 ELSE Append(f[n - 1], args[n])
           Eq(f) == f = [n \in 0..M |-> e(f, n)]
           h == CHOOSE f : Eq(f)
<1>1. M \in Nat /\ \A n \in 1..M : args[n] \in Args
  OBVIOUS
<1>2. G \in [S \X Nat -> S]
  <2> SUFFICES ASSUME NEW s \in S, NEW n \in Nat
               PROVE  (IF n \in 1..M /\ args[n] \notin OwnArgs
                         THEN Append(s, args[n]) ELSE s) \in S
    OBVIOUS
  <2> QED BY <1>1
<1>3. PICK f \in [0..M -> S] : f[0] = <<>> /\ \A n \in 1..M : f[n] = G[<<f[n - 1], n>>]
  <2> DEFINE c == <<>>
  <2>1. c \in S
    OBVIOUS
  <2> HIDE DEF G, S, M, c
  <2>2. \E f : IsRecursive(f, S, c, G, M)
    BY <1>1, <1>2, <2>1, Recursion
  <2> QED BY <2>2 DEF IsRecursive, c
<1>4. \A n \in 1..M : f[n] = e(f, n)
  <2> SUFFICES ASSUME NEW n \in 1..M PROVE f[n] = e(f, n)
    OBVIOUS
  <2>1. n - 1 \in 0..M /\ n \in Nat /\ n # 0
    BY <1>1
  <2>2. f[n - 1] \in S
    BY <1>3, <2>1
  <2>3. <<f[n - 1], n>> \in S \X Nat
    BY <2>1, <2>2
  <2>4. G[<<f[n - 1], n>>] = IF n \in 1..M /\ args[n] \notin OwnArgs
                               THEN Append(f[n - 1], args[n]) ELSE f[n - 1]
    BY <2>3
  <2> QED BY <1>3, <2>1, <2>4
<1>5. Eq(f)
  <2>1. \A n \in 0..M : f[n] = e(f, n)
    <3>1. f[0] = e(f, 0)
      BY <1>3
    <3>2. \A n \in 0..M : n = 0 \/ n \in 1..M
      BY <1>1
    <3> HIDE DEF e
    <3> QED BY <1>4, <3>1, <3>2
  <2> HIDE DEF e, M, S
  <2> QED BY <1>3, <2>1
<1>6. Eq(h)
  <2> HIDE DEF Eq
  <2> QED BY <1>5
<1>7. KeptUpTo(args) = h
  BY DEF KeptUpTo
<1> HIDE DEF h
<1>8. /\ h[0] = <<>>
      /\ \A n \in 1..M : h[n] = e(h, n)
  <2>1. \A n \in 0..M : h[n] = e(h, n)
    <3> HIDE DEF e
    <3> QED BY <1>6
  <2>2. 0 \in 0..M /\ \A n \in 1..M : n \in 0..M
    BY <1>1
  <2>3. h[0] = e(h, 0)
    BY <2>1, <2>2
  <2> QED BY <2>1, <2>2, <2>3
<1> DEFINE T == {n \in Nat : h[n] \in Seq(Args)}
<1>9. 0 \in T
  <2>1. <<>> \in Seq(Args)
    OBVIOUS
  <2> HIDE DEF h
  <2> QED BY <1>8, <2>1
<1>10. ASSUME NEW n \in 0 .. M - 1, n \in T PROVE n + 1 \in T
  <2>1. n + 1 \in 1..M /\ (n + 1) - 1 = n /\ n + 1 # 0
    BY <1>1
  <2>2. h[n + 1] = IF args[n + 1] \in OwnArgs THEN h[n] ELSE Append(h[n], args[n + 1])
    BY <1>8, <2>1
  <2>3. args[n + 1] \in Args /\ h[n] \in Seq(Args)
    <3>1. h[n] \in Seq(Args)
      BY <1>10
    <3>2. args[n + 1] \in Args
      BY <1>1, <2>1
    <3> QED BY <3>1, <3>2
  <2>4. h[n + 1] \in Seq(Args)
    <3> HIDE DEF M, S
    <3> QED BY <2>2, <2>3
  <2> QED BY <2>4
<1> HIDE DEF T
<1>11. \A n \in 0..M : n \in T
  BY <1>1, <1>9, <1>10, IntervalInduction
<1>12. \A n \in 1..M : n # 0
  BY <1>1
<1> QED BY <1>7, <1>8, <1>11, <1>12 DEF T

(* What the loop has kept so far is what is to be kept of what it has read. *)
KeptInv ==
  /\ IInv
  /\ pc \in {"static", "parse"} =>
       LET kept == KeptUpTo(argv0)[i - 1]
       IN Len(kept) = out - 1 /\ \A n \in 1 .. out - 1 : argv[n] = kept[n]
  /\ pc \in {"verify", "initialize", "open", "run"} =>
       argv = KeptUpTo(argv0)[Len(argv0)]

LEMMA InitKeptInv == Init => KeptInv
<1> SUFFICES ASSUME Init PROVE KeptInv
  OBVIOUS
<1>1. IInv
  BY InitIInv
<1>2. argv0 \in Seq(Args) /\ i - 1 = 0 /\ out - 1 = 0
  <2>1. argv0 \in Seq(Args)
    BY <1>1 DEF IInv, ArgvOK
  <2>2. i = 1 /\ out = 1
    BY DEF Init
  <2> QED BY <2>1, <2>2
<1>3. KeptUpTo(argv0)[i - 1] = <<>>
  BY <1>2, KeptEquation
<1>4. Len(KeptUpTo(argv0)[i - 1]) = out - 1 /\ 1 .. out - 1 = {}
  BY <1>2, <1>3
<1> QED BY <1>1, <1>4 DEF KeptInv, Init

LEMMA ParseArgKeptInv == ASSUME KeptInv, ParseArg, IInv' PROVE KeptInv'
<1> DEFINE kept(n) == KeptUpTo(argv0)[n]
<1>1. /\ argv0 \in Seq(Args) /\ argv \in Seq(Args) /\ Len(argv) = Len(argv0)
      /\ i \in 1 .. Len(argv0) + 1 /\ out \in 1..i
      /\ argv[i] = argv0[i]
      /\ Len(kept(i - 1)) = out - 1
      /\ \A n \in 1 .. out - 1 : argv[n] = kept(i - 1)[n]
      /\ i <= Len(argv0)
      /\ pc' = "parse" /\ i' = i + 1 /\ argv0' = argv0
  <2>1. pc = "parse" /\ i <= Len(argv) /\ i' = i + 1 /\ pc' = "parse" /\ argv0' = argv0
    BY DEF ParseArg
  <2>2. /\ argv0 \in Seq(Args) /\ argv \in Seq(Args) /\ Len(argv) = Len(argv0)
        /\ i \in 1 .. Len(argv0) + 1 /\ out \in 1..i
        /\ \A n \in i .. Len(argv0) : argv[n] = argv0[n]
    BY <2>1 DEF KeptInv, IInv, ArgvOK
  <2>3. i \in i .. Len(argv0)
    BY <2>1, <2>2
  <2> QED BY <2>1, <2>2, <2>3 DEF KeptInv
<1>2. Len(argv0) \in Nat /\ i \in 1 .. Len(argv0) /\ i - 1 \in 0 .. Len(argv0)
      /\ out \in Nat /\ i' - 1 = i /\ i \in Nat
  BY <1>1
<1>3. /\ kept(i - 1) \in Seq(Args)
      /\ kept(i) = IF argv0[i] \in OwnArgs THEN kept(i - 1)
                                          ELSE Append(kept(i - 1), argv0[i])
      /\ argv0[i] \in Args
  BY <1>1, <1>2, KeptEquation
<1> HIDE DEF kept
<1>4. Len(kept(i)) = out' - 1 /\ \A n \in 1 .. out' - 1 : argv'[n] = kept(i)[n]
  <2>1. CASE argv[i] \in OwnArgs
    <3>1. argv' = argv /\ out' = out
      BY <2>1 DEF ParseArg
    <3> QED BY <1>1, <1>3, <2>1, <3>1
  <2>2. CASE argv[i] \notin OwnArgs
    <3>1. argv' = [argv EXCEPT ![out] = argv[i]] /\ out' = out + 1
      BY <2>2 DEF ParseArg
    <3>2. out \in 1 .. Len(argv)
      BY <1>1, <1>2
    <3>3. argv'[out] = argv[i] /\ \A n \in 1 .. out - 1 : argv'[n] = argv[n]
      BY <1>1, <1>2, <3>1, <3>2
    <3>4. kept(i) = Append(kept(i - 1), argv[i])
      BY <1>1, <1>3, <2>2
    <3>5. /\ Len(kept(i)) = out
          /\ kept(i)[out] = argv[i]
          /\ \A n \in 1 .. out - 1 : kept(i)[n] = kept(i - 1)[n]
      BY <1>1, <1>2, <1>3, <3>4
    <3>6. out' - 1 = out /\ \A n \in 1..out : n \in 1 .. out - 1 \/ n = out
      BY <1>2, <3>1
    <3> QED BY <1>1, <3>3, <3>5, <3>6
  <2> QED BY <2>1, <2>2
<1> QED BY <1>1, <1>2, <1>4 DEF KeptInv, kept

LEMMA SortMethodsKeptInv == ASSUME KeptInv, SortMethods, IInv' PROVE KeptInv'
<1> DEFINE kept == KeptUpTo(argv0)[Len(argv0)]
<1>1. /\ pc = "parse" /\ pc' = "verify" /\ i > Len(argv)
      /\ argv' = SubSeq(argv, 1, out - 1) /\ argv0' = argv0
  BY DEF SortMethods
<1>2. /\ argv0 \in Seq(Args) /\ argv \in Seq(Args) /\ Len(argv) = Len(argv0)
      /\ i \in 1 .. Len(argv0) + 1 /\ out \in 1..i
  BY <1>1 DEF KeptInv, IInv, ArgvOK
<1>3. /\ Len(argv0) \in Nat /\ i - 1 = Len(argv0) /\ out - 1 \in 0 .. Len(argv)
  BY <1>1, <1>2
<1>4. /\ Len(kept) = out - 1
      /\ \A n \in 1 .. out - 1 : argv[n] = kept[n]
  BY <1>1, <1>3 DEF KeptInv
<1>5. kept \in Seq(Args)
  <2>1. Len(argv0) \in 0 .. Len(argv0)
    BY <1>3
  <2> QED BY <1>2, <2>1, KeptEquation
<1> HIDE DEF kept
<1>6. argv' \in Seq(Args) /\ Len(argv') = out - 1 /\ \A n \in 1 .. out - 1 : argv'[n] = argv[n]
  BY <1>1, <1>2, <1>3
<1>7. argv' = kept
  BY <1>3, <1>4, <1>5, <1>6
<1> QED BY <1>1, <1>7 DEF KeptInv, kept

LEMMA NextKeptInv == KeptInv /\ [Next]_vars => KeptInv'
<1> SUFFICES ASSUME KeptInv, [Next]_vars PROVE KeptInv'
  OBVIOUS
<1>1. IInv'
  BY NextIInv DEF KeptInv
<1>2. CASE ParseArg
  BY <1>1, <1>2, ParseArgKeptInv
<1>3. CASE SortMethods
  BY <1>1, <1>3, SortMethodsKeptInv
<1>4. CASE pc' = "exited"
  BY <1>1, <1>4 DEF KeptInv
<1>5. ASSUME UNCHANGED <<argv0, argv, i, out>>,
             \/ pc' = pc
             \/ pc \in {"static", "parse"} /\ pc' \in {"static", "parse"}
             \/ pc \in {"verify", "initialize", "open", "run"}
                  /\ pc' \in {"verify", "initialize", "open", "run"}
      PROVE  KeptInv'
  <2>1. pc' \in {"static", "parse"} => pc \in {"static", "parse"}
    BY <1>5
  <2>2. pc' \in {"verify", "initialize", "open", "run"}
          => pc \in {"verify", "initialize", "open", "run"}
    BY <1>5
  <2> QED BY <1>1, <1>5, <2>1, <2>2 DEF KeptInv
<1>6. CASE UNCHANGED vars
  BY <1>5, <1>6 DEF vars
<1>7. CASE \/ \E m \in Methods : RegisterMethod(m)
           \/ EnterMain \/ VerifyNext \/ RegisterAll \/ RunBenchmark
  BY <1>5, <1>7 DEF RegisterMethod, EnterMain, VerifyNext, RegisterAll, RunBenchmark
<1>8. CASE VerifyThrows \/ Finish \/ Kill
  BY <1>4, <1>8 DEF VerifyThrows, Finish, Kill
<1>9. CASE Initialize \/ OpenJson
  BY <1>4, <1>5, <1>9 DEF Initialize, OpenJson
<1> QED BY <1>2, <1>3, <1>6, <1>7, <1>8, <1>9 DEF Next, Run

(* The library is given the arguments main() does not take, all of them    *)
(* and in their order.                                                     *)
THEOREM AlwaysArgsKept == Spec => []ArgsKept
<1>1. KeptInv => ArgsKept
  <2> SUFFICES ASSUME KeptInv PROVE ArgsKept
    OBVIOUS
  <2>1. pc \in {"static", "parse"} =>
          out <= i /\ \A n \in i .. Len(argv0) : argv[n] = argv0[n]
    <3> SUFFICES ASSUME pc \in {"static", "parse"}
                 PROVE  out <= i /\ \A n \in i .. Len(argv0) : argv[n] = argv0[n]
      OBVIOUS
    <3>1. /\ argv0 \in Seq(Args) /\ i \in 1 .. Len(argv0) + 1 /\ out \in 1..i
          /\ \A n \in i .. Len(argv0) : argv[n] = argv0[n]
      BY DEF KeptInv, IInv, ArgvOK
    <3> QED BY <3>1
  <2> QED BY <2>1 DEF KeptInv, ArgsKept
<1> QED BY <1>1, InitKeptInv, NextKeptInv, PTL DEF Spec

-----------------------------------------------------------------------------


(* The numbers of get_random_digit_data: a block for each digit count.     *)
Full == [n \in 1 .. num_doubles_per_digit * max_digits |->
           (n - 1) \div num_doubles_per_digit + 1]

(* Quotient and remainder of a place that is given by both.                *)
LEMMA Quotient ==
  ASSUME NEW d \in Nat \ {0}, NEW q \in Nat, NEW r \in 0 .. d - 1
  PROVE  /\ q * d + r \in Nat
         /\ (q * d + r) \div d = q
         /\ (q * d + r) % d = r
OBVIOUS

(* The r-th place of the q-th of k blocks of d.                            *)
LEMMA Product ==
  ASSUME NEW d \in Nat \ {0}, NEW k \in Nat, NEW q \in Nat, q < k, NEW r \in 0 .. d - 1
  PROVE  q * d + r + 1 \in 1 .. k * d
<1>1. k - 1 - q \in Nat
  OBVIOUS
<1>2. (k - 1 - q) * d \in Nat
  BY <1>1
<1>3. k * d = (k - 1 - q) * d + q * d + d /\ q * d \in Nat
  OBVIOUS
<1> QED BY <1>2, <1>3

(* Every digit count has its numbers, and there are no others.             *)
LEMMA FullRange == Full # NoBuffer /\ Full \in Seq(Nat) /\ Range(Full) = 1 .. max_digits
<1> DEFINE N == num_doubles_per_digit
           D == max_digits
<1>1. N \in Nat \ {0} /\ D \in Nat \ {0}
  BY HarnessAssumption
<1>2. N * D \in Nat \ {0} /\ N * D = D * N
  BY <1>1
<1>3. ASSUME NEW n \in 1 .. N * D PROVE (n - 1) \div N + 1 \in 1 .. D
  <2>1. n - 1 \in Nat /\ n - 1 < D * N
    BY <1>2
  <2>2. (n - 1) \div N \in Nat /\ (n - 1) \div N < D
    BY <1>1, <2>1, DivideIndex
  <2> QED BY <1>1, <2>2
<1>4. ASSUME NEW e \in 1 .. D PROVE \E n \in 1 .. N * D : (n - 1) \div N + 1 = e
  <2> DEFINE q == e - 1
  <2>1. q \in Nat /\ q < D /\ 0 \in 0 .. N - 1
    BY <1>1
  <2>2. q * N + 0 + 1 \in 1 .. D * N
    BY <1>1, <2>1, Product
  <2>3. (q * N + 0) \div N = q /\ q * N + 0 \in Nat
    BY <1>1, <2>1, Quotient
  <2> DEFINE n == q * N + 0 + 1
  <2>4. n - 1 = q * N + 0
    BY <2>3
  <2>5. n \in 1 .. N * D /\ (n - 1) \div N + 1 = e
    BY <1>2, <2>1, <2>2, <2>3, <2>4
  <2> QED BY <2>5
<1>5. DOMAIN Full = 1 .. N * D /\ \A n \in 1 .. N * D : Full[n] = (n - 1) \div N + 1
  BY DEF Full
<1> HIDE DEF N, D
<1>6. Range(Full) = 1 .. D
  BY <1>3, <1>4, <1>5 DEF Range
<1>7. Full \in Seq(Nat)
  BY <1>2, <1>3 DEF Full, N, D
<1>8. Full # <<>>
  BY <1>2, <1>5
<1> QED BY <1>6, <1>7, <1>8 DEF D, NoBuffer

(* The block of a digit count.                                             *)
LEMMA SliceRange ==
  ASSUME NEW e \in 1 .. max_digits
  PROVE  Range(SubSeq(Full, (e - 1) * num_doubles_per_digit + 1,
                      (e - 1) * num_doubles_per_digit + num_doubles_per_digit)) = {e}
<1> DEFINE N == num_doubles_per_digit
           D == max_digits
           q == e - 1
           first == q * N
           S == SubSeq(Full, first + 1, first + N)
<1>1. N \in Nat \ {0} /\ D \in Nat \ {0} /\ q \in Nat /\ q < D
  BY HarnessAssumption
<1>2. first \in Nat /\ N * D = D * N
  BY <1>1
<1>3. \A r \in 0 .. N - 1 : first + r + 1 \in 1 .. N * D
  BY <1>1, <1>2, Product
<1>4. \A r \in 0 .. N - 1 : (first + r) \div N = q
  BY <1>1, Quotient
<1>5. Full \in Seq(Nat) /\ Len(Full) = N * D
  BY FullRange, <1>1 DEF Full
<1>6. \A n \in 1 .. N * D : Full[n] = (n - 1) \div N + 1
  BY DEF Full
<1> HIDE DEF N, D, first, q
<1>7. first + 1 \in 1 .. N * D /\ first + N \in 1 .. N * D
  <2>1. 0 \in 0 .. N - 1 /\ N - 1 \in 0 .. N - 1
    BY <1>1
  <2>2. first + 0 + 1 = first + 1 /\ first + (N - 1) + 1 = first + N
    BY <1>1, <1>2
  <2> QED BY <1>3, <2>1, <2>2
<1>8. /\ DOMAIN S = 1 .. N
      /\ \A n \in 1 .. N : S[n] = Full[first + n]
  <2>1. /\ S = [n \in 1 .. first + N - (first + 1) + 1 |-> Full[first + 1 + n - 1]]
    BY <1>1, <1>2, <1>5, <1>7
  <2>2. first + N - (first + 1) + 1 = N
    BY <1>1, <1>2
  <2>3. \A n \in 1 .. N : first + 1 + n - 1 = first + n
    BY <1>1, <1>2
  <2> QED BY <2>1, <2>2, <2>3
<1>9. ASSUME NEW n \in 1 .. N PROVE S[n] = e
  <2>1. n - 1 \in 0 .. N - 1 /\ first + (n - 1) + 1 = first + n
        /\ (first + n) - 1 = first + (n - 1)
    BY <1>1, <1>2
  <2>2. first + n \in 1 .. N * D
    BY <1>3, <2>1
  <2>3. Full[first + n] = q + 1
    <3>1. Full[first + n] = ((first + n) - 1) \div N + 1
      BY <1>6, <2>2, Zenon
    <3>2. (first + (n - 1)) \div N = q
      BY <1>4, <2>1
    <3> QED BY <2>1, <3>1, <3>2, Zenon
  <2>4. q + 1 = e
    BY <1>1 DEF q
  <2> QED BY <1>8, <2>3, <2>4
<1>10. 1 \in 1 .. N
  BY <1>1
<1>11. Range(S) = {e}
  BY <1>8, <1>9, <1>10 DEF Range
<1> QED BY <1>11 DEF N, first, q

-----------------------------------------------------------------------------
(* What was asked for, and what of it the filter leaves.                   *)
Asked == [method : Methods, digit : IF per_digit THEN 0 .. max_digits ELSE {0}]

Filter == "--benchmark_filter"
Kept == {b \in Asked : Filter \in Range(argv0) => b.method \in FilterKeeps}

ShapeOK ==
  /\ pc \in {"static", "parse", "verify", "initialize", "open", "run", "exited"}
  /\ i \in 1 .. Len(argv0) + 1
  /\ commit_hash \in {"", "h"}
  /\ exit \in {-2, -1, 0, 1}
  /\ pc # "exited" => exit = -1

(* What main() keeps of the command line was on it.                        *)
ListOK == pc # "exited" => argv \in Seq(Args) /\ Range(argv) \subseteq Range(argv0)

PoolsOK == data \in {NoBuffer, Full} /\ pool \in {NoBuffer, Full}

BenchesAre == pc \in {"initialize", "open", "run"} => Range(benches) = Asked

RunOK == pc = "run" =>
  /\ json_out # NoPath => writing = json_out
  /\ Measured \subseteq Kept

SInv == ShapeOK /\ ListOK /\ PoolsOK /\ BenchesAre /\ RunOK /\ DigitsMeasured
          /\ ExitCodeTold

USE DEF given, locals, pools, files

(* The quotient grows with the dividend.                                   *)
LEMMA QuotientGrows ==
  ASSUME NEW a \in Nat, NEW b \in Nat, NEW d \in Nat \ {0}, a <= b
  PROVE  a \div d <= b \div d
<1> DEFINE q == b \div d
<1>1. q \in Nat /\ b < (q + 1) * d
  BY SMT
<1> HIDE DEF q
<1>2. q + 1 \in Nat /\ a < (q + 1) * d
  <2>1. (q + 1) * d \in Nat
    BY <1>1
  <2> QED BY <1>1, <2>1
<1>3. a \div d \in Nat /\ a \div d < q + 1
  BY <1>2, DivideIndex
<1> QED BY <1>1, <1>3 DEF q

(* The methods are sorted when the benchmarks are registered, and the      *)
(* benchmarks are not touched any more.                                    *)
OrderInv ==
  /\ pc = "verify" => \A m, n \in DOMAIN methods : m < n => methods[m] <= methods[n]
  /\ InOrder

LEMMA InitOrder == Init => OrderInv
<1> SUFFICES ASSUME Init PROVE OrderInv
  OBVIOUS
<1>1. pc = "static" /\ benches = <<>>
  BY DEF Init
<1>2. benches \in Seq(Methods) /\ Len(benches) = 0
  BY <1>1
<1>3. DOMAIN benches = {}
  BY <1>2
<1> QED BY <1>1, <1>3 DEF OrderInv, InOrder

LEMMA RegisterAllOrder == ASSUME IInv, OrderInv, RegisterAll PROVE OrderInv'
<1> DEFINE S == SeriesLength
           M == Len(methods)
<1>1. /\ pc = "verify" /\ pc' = "initialize"
      /\ benches' = [n \in 1 .. M * S |-> Benchmark(n)]
  BY DEF RegisterAll
<1>2. methods \in Seq(Methods) /\ M \in Nat /\ DOMAIN methods = 1 .. M
  BY DEF IInv, MethodsOK
<1>3. S \in Nat \ {0}
  BY HarnessAssumption DEF SeriesLength
<1>4. \A n \in 1 .. M * S : Benchmark(n).method = methods[(n - 1) \div S + 1]
  BY DEF Benchmark
<1>5. \A m, n \in 1 .. M : m < n => methods[m] <= methods[n]
  BY <1>1, <1>2 DEF OrderInv
<1> HIDE DEF S, M
<1>6. ASSUME NEW m \in 1 .. M * S, NEW n \in 1 .. M * S, m < n
      PROVE  Benchmark(m).method <= Benchmark(n).method
  <2> DEFINE p == (m - 1) \div S
             q == (n - 1) \div S
  <2>1. /\ M * S \in Nat
        /\ m - 1 \in Nat /\ n - 1 \in Nat /\ m - 1 <= n - 1
        /\ m - 1 < M * S /\ n - 1 < M * S
    BY <1>2, <1>3, <1>6
  <2>2. p \in Nat /\ p < M /\ q \in Nat /\ q < M
    BY <1>2, <1>3, <2>1, DivideIndex
  <2>3. p <= q
    BY <1>3, <2>1, QuotientGrows
  <2> HIDE DEF p, q
  <2>4. p + 1 \in 1 .. M /\ q + 1 \in 1 .. M
    BY <1>2, <2>2
  <2>5. methods[p + 1] \in Nat
    <3>1. methods[p + 1] \in Methods
      BY <1>2, <2>4
    <3> QED BY <3>1, HarnessAssumption
  <2>6. methods[p + 1] <= methods[q + 1]
    <3>1. CASE p = q
      BY <2>5, <3>1
    <3>2. CASE p # q
      <4>1. p + 1 < q + 1
        BY <2>2, <2>3, <3>2
      <4> QED BY <1>5, <2>4, <4>1
    <3> QED BY <3>1, <3>2
  <2> QED BY <1>4, <2>6 DEF p, q
<1>7. InOrder'
  BY <1>1, <1>6 DEF InOrder
<1> QED BY <1>1, <1>7 DEF OrderInv

LEMMA NextOrder == ASSUME IInv, OrderInv, [Next]_vars PROVE OrderInv'
<1>1. CASE SortMethods
  <2>1. \A m, n \in DOMAIN methods' : m < n => methods'[m] <= methods'[n]
    BY <1>1 DEF SortMethods
  <2>2. benches' = benches
    BY <1>1 DEF SortMethods
  <2> QED BY <2>1, <2>2 DEF OrderInv, InOrder
<1>2. CASE RegisterAll
  BY <1>2, RegisterAllOrder
<1>3. CASE UNCHANGED benches /\ (pc' = "verify" => pc = "verify" /\ methods' = methods)
  BY <1>3 DEF OrderInv, InOrder
<1>4. \/ SortMethods \/ RegisterAll
      \/ UNCHANGED benches /\ (pc' = "verify" => pc = "verify" /\ methods' = methods)
  BY DEF vars, Next, Run, RegisterMethod, EnterMain, ParseArg, VerifyNext, VerifyThrows,
     Initialize, OpenJson, RunBenchmark, Finish, Kill
<1> QED BY <1>1, <1>2, <1>3, <1>4

LEMMA InitSInv == Init => SInv
<1> SUFFICES ASSUME Init PROVE SInv
  OBVIOUS
<1>1. argv0 \in Seq(Args) /\ argv = argv0 /\ i = 1 /\ exit = -1 /\ measured = {}
  BY HarnessAssumption DEF Init
<1>2. ShapeOK
  <2>1. Len(argv0) \in Nat
    BY <1>1
  <2>2. i \in 1 .. Len(argv0) + 1
    BY <1>1, <2>1
  <2> QED BY <1>1, <2>2 DEF Init, ShapeOK
<1>3. ListOK /\ PoolsOK /\ BenchesAre /\ RunOK
  BY <1>1 DEF Init, ListOK, PoolsOK, BenchesAre, RunOK
<1>4. DigitsMeasured /\ ExitCodeTold
  BY <1>1 DEF DigitsMeasured, ExitCodeTold
<1> QED BY <1>2, <1>3, <1>4 DEF SInv

(* Steps that run nothing and leave main() where it can still go on.       *)
LEMMA QuietSInv ==
  ASSUME IInv, SInv, pc \in {"static", "parse", "verify", "initialize", "open"},
         pc' \in {"static", "parse", "verify", "initialize", "open"},
         ShapeOK', ListOK', BenchesAre', UNCHANGED <<data, pool, measured>>, exit' = exit
  PROVE  SInv'
<1>1. measured = {} /\ exit = -1
  BY NothingMeasured DEF IInv, SInv, ShapeOK
<1>2. PoolsOK' /\ RunOK'
  BY DEF SInv, PoolsOK, RunOK
<1>3. DigitsMeasured' /\ ExitCodeTold'
  BY <1>1 DEF DigitsMeasured, ExitCodeTold
<1> QED BY <1>2, <1>3 DEF SInv

(* Giving up before anything has run, or anywhere by force.                *)
LEMMA GiveUpSInv ==
  ASSUME SInv, pc' = "exited",
         UNCHANGED <<argv0, i, commit_hash, data, pool, measured>>,
         \/ exit' = -2
         \/ exit' = 1 /\ measured = {} /\ writing' = NoPath
  PROVE  SInv'
<1>1. ShapeOK' /\ ListOK' /\ BenchesAre' /\ RunOK' /\ PoolsOK'
  BY DEF SInv, ShapeOK, ListOK, BenchesAre, RunOK, PoolsOK
<1>2. DigitsMeasured'
  BY DEF SInv, DigitsMeasured
<1>3. ExitCodeTold'
  BY DEF ExitCodeTold
<1> QED BY <1>1, <1>2, <1>3 DEF SInv

LEMMA ParseArgSInv == ASSUME IInv, SInv, ParseArg PROVE SInv'
<1>1. /\ pc = "parse" /\ pc' = "parse" /\ i' = i + 1 /\ i <= Len(argv)
      /\ argv0' = argv0 /\ exit' = exit /\ UNCHANGED <<data, pool, measured>>
  BY DEF ParseArg
<1>2. /\ argv0 \in Seq(Args) /\ argv \in Seq(Args) /\ Len(argv) = Len(argv0)
      /\ i \in 1 .. Len(argv0) + 1 /\ out \in 1 .. i
  BY <1>1 DEF IInv, ArgvOK
<1>3. i' \in 1 .. Len(argv0') + 1
  BY <1>1, <1>2
<1>4. commit_hash' \in {"", "h"}
  BY DEF ParseArg, SInv, ShapeOK
<1>5. ShapeOK'
  BY <1>1, <1>3, <1>4 DEF SInv, ShapeOK
<1>6. argv' = argv \/ argv' = [argv EXCEPT ![out] = argv[i]]
  BY DEF ParseArg
<1>7. argv[i] \in Args /\ argv[i] \in Range(argv)
  <2>1. i \in DOMAIN argv
    BY <1>1, <1>2
  <2> QED BY <1>2, <2>1 DEF Range
<1>8. argv' \in Seq(Args) /\ Range(argv') \subseteq Range(argv)
  <2>1. CASE argv' = argv
    BY <2>1, <1>2
  <2>2. CASE argv' = [argv EXCEPT ![out] = argv[i]]
    <3>1. DOMAIN argv' = DOMAIN argv
      BY <2>2
    <3>2. \A n \in DOMAIN argv' : argv'[n] = argv[n] \/ argv'[n] = argv[i]
      BY <2>2
    <3>3. argv \in [1 .. Len(argv) -> Args] /\ Len(argv) \in Nat
      BY <1>2
    <3>4. argv' \in [1 .. Len(argv) -> Args]
      BY <1>7, <2>2, <3>3
    <3>5. argv' \in Seq(Args)
      BY <3>3, <3>4
    <3> QED BY <1>7, <3>1, <3>2, <3>5 DEF Range
  <2> QED BY <1>6, <2>1, <2>2
<1>9. ListOK'
  BY <1>1, <1>8 DEF SInv, ListOK, Range
<1>10. BenchesAre'
  BY <1>1 DEF BenchesAre
<1> QED BY <1>1, <1>5, <1>9, <1>10, QuietSInv

LEMMA SortMethodsSInv == ASSUME IInv, SInv, SortMethods PROVE SInv'
<1>1. /\ pc = "parse" /\ pc' = "verify" /\ argv' = SubSeq(argv, 1, out - 1)
      /\ UNCHANGED <<argv0, i, commit_hash, exit, data, pool, measured>>
  BY DEF SortMethods
<1>2. /\ argv0 \in Seq(Args) /\ argv \in Seq(Args) /\ Len(argv) = Len(argv0)
      /\ i \in 1 .. Len(argv0) + 1 /\ out \in 1 .. i /\ Range(argv) \subseteq Range(argv0)
  BY <1>1 DEF IInv, ArgvOK, SInv, ListOK
<1>3. out - 1 \in 0 .. Len(argv) /\ Len(argv) \in Nat
  BY <1>2
<1>4. /\ argv' \in Seq(Args) /\ Len(argv') = out - 1
      /\ \A n \in 1 .. out - 1 : argv'[n] = argv[n]
  BY <1>1, <1>2, <1>3
<1>5. Range(argv') \subseteq Range(argv)
  <2>1. DOMAIN argv' = 1 .. out - 1 /\ 1 .. out - 1 \subseteq DOMAIN argv
    BY <1>2, <1>3, <1>4
  <2> QED BY <1>4, <2>1 DEF Range
<1>6. ListOK'
  BY <1>1, <1>2, <1>4, <1>5 DEF ListOK, Range
<1>7. ShapeOK'
  BY <1>1 DEF SInv, ShapeOK
<1>8. BenchesAre'
  BY <1>1 DEF BenchesAre
<1> QED BY <1>1, <1>6, <1>7, <1>8, QuietSInv

(* Every method gets its series: the quotient of a place gives the method, *)
(* the remainder the digit count, and every pair has a place.              *)
LEMMA RegisterAllSInv == ASSUME IInv, SInv, RegisterAll PROVE SInv'
<1> DEFINE S == SeriesLength
           M == Len(methods)
<1>1. /\ pc = "verify" /\ pc' = "initialize"
      /\ UNCHANGED <<methods, per_digit, argv0, argv, i, commit_hash, exit,
                     data, pool, measured>>
      /\ benches' = [n \in 1 .. M * S |-> Benchmark(n)]
  BY DEF RegisterAll
<1>2. methods \in Seq(Methods) /\ Range(methods) = Methods /\ M \in Nat
      /\ DOMAIN methods = 1 .. M /\ per_digit \in BOOLEAN
  BY <1>1 DEF IInv, MethodsOK, BenchesOK
<1>3. S \in Nat \ {0} /\ 0 .. S - 1 = IF per_digit THEN 0 .. max_digits ELSE {0}
  <2>1. max_digits \in Nat
    BY HarnessAssumption
  <2>2. CASE per_digit
    <3>1. S = max_digits + 1
      BY <2>2 DEF SeriesLength
    <3> QED BY <2>1, <2>2, <3>1
  <2>3. CASE ~per_digit
    <3>1. S = 1
      BY <2>3 DEF SeriesLength
    <3>2. 0 .. S - 1 = {0}
      BY <3>1
    <3> QED BY <2>3, <3>1, <3>2
  <2> QED BY <2>2, <2>3
<1>4. \A n \in 1 .. M * S :
        Benchmark(n) = [method |-> methods[(n - 1) \div S + 1],
                        digit |-> (((n - 1) % S) + 1) % S]
  BY DEF Benchmark
<1>5. Asked' = [method : Methods, digit : 0 .. S - 1]
  BY <1>1, <1>3 DEF Asked
<1> HIDE DEF S, M
<1>6. ASSUME NEW n \in 1 .. M * S PROVE Benchmark(n) \in Asked'
  <2>1. M * S \in Nat /\ n - 1 \in Nat /\ n - 1 < M * S
    BY <1>2, <1>3
  <2>2. (n - 1) \div S \in Nat /\ (n - 1) \div S < M
    BY <1>2, <1>3, <2>1, DivideIndex
  <2>3. (n - 1) \div S + 1 \in 1 .. M
    BY <1>2, <2>2
  <2>4. methods[(n - 1) \div S + 1] \in Methods
    BY <1>2, <2>3
  <2>5. (((n - 1) % S) + 1) % S \in 0 .. S - 1
    BY <1>3, <2>1
  <2> QED BY <1>4, <1>5, <2>4, <2>5
<1>7. ASSUME NEW b \in Asked' PROVE \E n \in 1 .. M * S : Benchmark(n) = b
  <2>1. b.method \in Methods /\ b.digit \in 0 .. S - 1
        /\ b = [method |-> b.method, digit |-> b.digit]
    BY <1>5
  <2>2. PICK k \in 1 .. M : methods[k] = b.method
    BY <1>2, <2>1 DEF Range
  <2> DEFINE r == IF b.digit = 0 THEN S - 1 ELSE b.digit - 1
             q == k - 1
             n == q * S + r + 1
  <2>3. r \in 0 .. S - 1 /\ q \in Nat /\ q < M /\ q + 1 = k
    BY <1>2, <1>3, <2>1, <2>2
  <2>4. (r + 1) % S = b.digit
    <3>1. CASE b.digit = 0
      <4>1. r + 1 = 1 * S + 0 /\ 0 \in 0 .. S - 1 /\ 1 \in Nat
        BY <1>3, <3>1
      <4>2. (1 * S + 0) % S = 0
        BY <1>3, <4>1, Quotient
      <4> QED BY <3>1, <4>1, <4>2
    <3>2. CASE b.digit # 0
      <4>1. r + 1 = 0 * S + b.digit
        BY <1>3, <2>1, <3>2
      <4>2. (0 * S + b.digit) % S = b.digit
        BY <1>3, <2>1, Quotient
      <4> QED BY <4>1, <4>2
    <3> QED BY <3>1, <3>2
  <2> HIDE DEF r, q
  <2>5. n \in 1 .. M * S
    BY <1>2, <1>3, <2>3, Product
  <2>6. n - 1 = q * S + r /\ (q * S + r) \div S = q /\ (q * S + r) % S = r
    BY <1>3, <2>3, Quotient
  <2> HIDE DEF n
  <2>7. Benchmark(n) = [method |-> methods[q + 1], digit |-> (r + 1) % S]
    BY <1>4, <2>5, <2>6
  <2> QED BY <2>1, <2>2, <2>3, <2>4, <2>5, <2>7
<1>8. Range(benches') = Asked'
  BY <1>1, <1>6, <1>7 DEF Range
<1>9. BenchesAre'
  BY <1>8 DEF BenchesAre, Range
<1>10. ShapeOK' /\ ListOK'
  BY <1>1 DEF SInv, ShapeOK, ListOK, Range
<1> QED BY <1>1, <1>9, <1>10, QuietSInv

(* The filter main() started with is the one the library sees.             *)
LEMMA FilterSeen ==
  ASSUME IInv, SInv, pc = "run"
  PROVE  /\ Filter \in Range(argv) <=> Filter \in Range(argv0)
         /\ \A b \in Asked : Selected(b) <=> b \in Kept
<1>1. Range(argv) \subseteq Range(argv0) /\ Range(argv0) \subseteq OwnArgs \cup Range(argv)
  BY DEF IInv, ArgvOK, SInv, ListOK
<1>2. Filter \notin OwnArgs
  BY DEF Filter, OwnArgs
<1> QED BY <1>1, <1>2 DEF Selected, Kept, Filter

LEMMA RunBenchmarkSInv == ASSUME IInv, SInv, RunBenchmark PROVE SInv'
<1>1. /\ pc = "run" /\ pc' = "run"
      /\ UNCHANGED <<methods, argv0, argv, i, out, per_digit, commit_hash, json_out,
                     benches, results, writing, exit>>
  BY DEF RunBenchmark
<1>2. PICK n \in ToRun :
        LET b == benches[n]
            values == IF b.digit = 0 THEN MixedPool ELSE DigitSlice(b.digit)
        IN /\ measured' = measured \cup {[bench |-> b, values |-> Range(values)]}
           /\ data' = DigitData
           /\ pool' = IF b.digit = 0 THEN MixedPool ELSE pool
  BY DEF RunBenchmark
<1> DEFINE b == benches[n]
           values == IF b.digit = 0 THEN MixedPool ELSE DigitSlice(b.digit)
<1>3. DigitData = Full /\ MixedPool = Full
  BY DEF SInv, PoolsOK, DigitData, MixedPool, Full
<1>4. PoolsOK'
  BY <1>2, <1>3 DEF SInv, PoolsOK
<1>5. b \in Asked /\ b \in Kept
  <2>1. n \in DOMAIN benches /\ Selected(b)
    BY DEF ToRun
  <2>2. b \in Asked
    BY <1>1, <2>1 DEF SInv, BenchesAre, Range
  <2> QED BY <1>1, <2>1, <2>2, FilterSeen
<1>6. b.digit \in 0 .. max_digits
  BY <1>5, HarnessAssumption DEF Asked
<1>7. Range(values) = IF b.digit = 0 THEN 1 .. max_digits ELSE {b.digit}
  <2>1. CASE b.digit = 0
    BY <1>3, <2>1, FullRange
  <2>2. CASE b.digit # 0
    <3>1. b.digit \in 1 .. max_digits
      BY <1>6, <2>2, HarnessAssumption
    <3>2. DigitSlice(b.digit) =
            SubSeq(Full, (b.digit - 1) * num_doubles_per_digit + 1,
                   (b.digit - 1) * num_doubles_per_digit + num_doubles_per_digit)
      BY <1>3 DEF DigitSlice
    <3> HIDE DEF b
    <3> QED BY <2>2, <3>1, <3>2, SliceRange
  <2> QED BY <2>1, <2>2
<1> HIDE DEF b, values
<1>8. measured' = measured \cup {[bench |-> b, values |-> Range(values)]}
  BY <1>2 DEF b, values
<1>9. DigitsMeasured'
  <2> SUFFICES ASSUME NEW r \in measured'
               PROVE  r.values = IF r.bench.digit = 0 THEN 1 .. max_digits
                                                      ELSE {r.bench.digit}
    BY DEF DigitsMeasured
  <2>1. CASE r \in measured
    BY <2>1 DEF SInv, DigitsMeasured
  <2>2. CASE r = [bench |-> b, values |-> Range(values)]
    BY <1>7, <2>2
  <2> QED BY <1>8, <2>1, <2>2
<1>10. RunOK'
  BY <1>1, <1>5, <1>8 DEF SInv, RunOK, Measured, Kept, Asked, Range
<1>11. exit' = -1
  BY <1>1 DEF SInv, ShapeOK
<1>12. ExitCodeTold'
  BY <1>11 DEF ExitCodeTold
<1>13. ShapeOK' /\ ListOK' /\ BenchesAre'
  BY <1>1 DEF SInv, ShapeOK, ListOK, BenchesAre, Range, Asked
<1> QED BY <1>4, <1>9, <1>10, <1>12, <1>13 DEF SInv

(* The process ends well only when nothing is left to run.                 *)
LEMMA FinishSInv == ASSUME IInv, OrderInv, SInv, Finish PROVE SInv'
<1>1. /\ pc = "run" /\ pc' = "exited" /\ ToRun = {} /\ exit' = 0
      /\ UNCHANGED <<argv0, per_digit, json_out, i, commit_hash, data, pool, measured>>
  BY DEF Finish
<1>2. Measured = Kept
  <2>1. Measured \subseteq Kept
    BY <1>1 DEF SInv, RunOK
  <2>2. ASSUME NEW b \in Kept PROVE b \in Measured
    <3>1. b \in Asked
      BY DEF Kept
    <3>2. PICK n \in DOMAIN benches : benches[n] = b
      BY <1>1, <3>1 DEF SInv, BenchesAre, Range
    <3>3. Selected(b)
      BY <1>1, <3>1, FilterSeen
    <3> QED BY <1>1, <3>2, <3>3 DEF ToRun
  <2> QED BY <2>1, <2>2
<1>3. Kept = [method : IF Filter \in Range(argv0) THEN FilterKeeps ELSE Methods,
              digit : IF per_digit THEN 0 .. max_digits ELSE {0}]
  BY HarnessAssumption DEF Kept, Asked
<1>4. json_out # NoPath => results'[json_out] = "complete"
  BY <1>1 DEF Finish, SInv, RunOK, IInv, FilesOK, Typed
<1>5. ExitCodeTold'
  <2>1. Measured' = Measured
    BY <1>1 DEF Measured
  <2>2. /\ exit' = 0 /\ per_digit' = per_digit /\ json_out' = json_out
        /\ argv0' = argv0
    BY <1>1
  <2>3. Range(argv0)' = Range(argv0)
    BY <2>2 DEF Range
  <2>4. Measured' = [method : IF Filter \in Range(argv0)' THEN FilterKeeps ELSE Methods,
                     digit : IF per_digit' THEN 0 .. max_digits ELSE {0}]
    BY <1>2, <1>3, <2>1, <2>2, <2>3
  <2>5. InOrder'
    BY DEF Finish, OrderInv, InOrder
  <2> QED BY <1>4, <2>2, <2>4, <2>5 DEF ExitCodeTold, Filter
<1>6. DigitsMeasured'
  BY <1>1 DEF SInv, DigitsMeasured
<1>7. ShapeOK' /\ ListOK' /\ PoolsOK' /\ BenchesAre' /\ RunOK'
  BY <1>1 DEF SInv, ShapeOK, ListOK, PoolsOK, BenchesAre, RunOK
<1> QED BY <1>5, <1>6, <1>7 DEF SInv

LEMMA NextSInv == ASSUME IInv, OrderInv, SInv, [Next]_vars PROVE SInv'
<1>1. ASSUME NEW m \in Methods, RegisterMethod(m) PROVE SInv'
  <2>1. ShapeOK' /\ ListOK' /\ BenchesAre'
    BY <1>1 DEF RegisterMethod, SInv, ShapeOK, ListOK, BenchesAre, Range
  <2> QED BY <1>1, <2>1, QuietSInv DEF RegisterMethod
<1>2. CASE EnterMain
  <2>1. ShapeOK' /\ ListOK' /\ BenchesAre'
    BY <1>2 DEF EnterMain, SInv, ShapeOK, ListOK, BenchesAre, Range
  <2> QED BY <1>2, <2>1, QuietSInv DEF EnterMain
<1>3. CASE VerifyNext
  <2>1. ShapeOK' /\ ListOK' /\ BenchesAre'
    BY <1>3 DEF VerifyNext, SInv, ShapeOK, ListOK, BenchesAre, Range
  <2> QED BY <1>3, <2>1, QuietSInv DEF VerifyNext
<1>4. CASE VerifyThrows
  BY <1>4, GiveUpSInv DEF VerifyThrows
<1>5. CASE Initialize
  <2>1. pc = "initialize" /\ measured = {} /\ writing = NoPath
    BY <1>5, NothingMeasured DEF Initialize, IInv, FilesOK
  <2>2. CASE pc' = "exited"
    BY <1>5, <2>1, <2>2, GiveUpSInv DEF Initialize
  <2>3. CASE pc' # "exited"
    <3>1. ShapeOK' /\ ListOK' /\ BenchesAre'
      BY <1>5, <2>3 DEF Initialize, SInv, ShapeOK, ListOK, BenchesAre, Range, Asked
    <3> QED BY <1>5, <2>3, <3>1, QuietSInv DEF Initialize
  <2> QED BY <2>2, <2>3
<1>6. CASE OpenJson
  <2>1. pc = "open" /\ measured = {} /\ writing = NoPath /\ exit = -1
    BY <1>6, NothingMeasured DEF OpenJson, IInv, FilesOK, SInv, ShapeOK
  <2>2. CASE pc' = "exited"
    BY <1>6, <2>1, <2>2, GiveUpSInv DEF OpenJson
  <2>3. CASE pc' # "exited"
    <3>1. /\ pc' = "run" /\ exit' = -1 /\ measured' = {}
          /\ json_out' # NoPath => writing' = json_out'
          /\ UNCHANGED <<argv0, argv, i, per_digit, commit_hash, benches, data, pool>>
      BY <1>6, <2>1, <2>3 DEF OpenJson
    <3>2. ShapeOK' /\ ListOK' /\ BenchesAre' /\ PoolsOK'
      BY <2>1, <3>1 DEF SInv, ShapeOK, ListOK, BenchesAre, PoolsOK, Range, Asked
    <3>3. RunOK' /\ DigitsMeasured' /\ ExitCodeTold'
      BY <3>1 DEF RunOK, DigitsMeasured, ExitCodeTold, Measured
    <3> QED BY <3>2, <3>3 DEF SInv
  <2> QED BY <2>2, <2>3
<1>7. CASE Kill
  BY <1>7, GiveUpSInv DEF Kill
<1>8. CASE UNCHANGED vars
  <2>1. ShapeOK' /\ ListOK' /\ PoolsOK' /\ BenchesAre'
    BY <1>8 DEF vars, SInv, ShapeOK, ListOK, PoolsOK, BenchesAre, Range, Asked
  <2>2. RunOK'
    BY <1>8 DEF vars, SInv, RunOK, Measured, Kept, Asked, Range
  <2>3. DigitsMeasured' /\ ExitCodeTold'
    BY <1>8 DEF vars, SInv, DigitsMeasured, ExitCodeTold, InOrder, Measured, Range
  <2> QED BY <2>1, <2>2, <2>3 DEF SInv
<1>9. CASE ParseArg
  BY <1>9, ParseArgSInv
<1>10. CASE SortMethods
  BY <1>10, SortMethodsSInv
<1>11. CASE RegisterAll
  BY <1>11, RegisterAllSInv
<1>12. CASE RunBenchmark
  BY <1>12, RunBenchmarkSInv
<1>13. CASE Finish
  BY <1>13, FinishSInv
<1> QED BY <1>1, <1>2, <1>3, <1>4, <1>5, <1>6, <1>7, <1>8, <1>9, <1>10, <1>11,
           <1>12, <1>13 DEF Next, Run

LEMMA SeriesSafety == Spec => []SInv
<1>1. IInv /\ OrderInv /\ [Next]_vars => OrderInv'
  BY NextOrder
<1>2. IInv /\ OrderInv /\ SInv /\ [Next]_vars => SInv'
  BY NextSInv
<1> QED BY InitOrder, InitSInv, <1>1, <1>2, Safety, PTL DEF Spec

(* The harness keeps to its types.                                         *)
THEOREM TypeCorrect == Spec => []TypeOK
<1> DEFINE WritingOK == writing \in Paths \cup {NoPath}
<1>1. ASSUME IInv, SInv, WritingOK PROVE TypeOK
  <2>1. Range(methods) \subseteq Methods
    BY <1>1 DEF IInv, MethodsOK, Range
  <2>2. writing \in Paths \cup {NoPath}
    BY <1>1
  <2> QED BY <1>1, <2>1, <2>2 DEF IInv, SInv, ShapeOK, TypeOK, MethodsOK, BenchesOK, FilesOK,
             Typed
<1>2. Init => WritingOK
  BY DEF Init
<1>3. ASSUME IInv, WritingOK, [Next]_vars PROVE WritingOK'
  <2>1. writing' = writing \/ writing' = NoPath \/ writing' = json_out
    BY <1>3 DEF vars, Next, Run, RegisterMethod, EnterMain, ParseArg, SortMethods, VerifyNext,
       VerifyThrows, RegisterAll, Initialize, OpenJson, RunBenchmark, Finish, Kill
  <2> QED BY <1>3, <2>1 DEF IInv, FilesOK
<1>4. IInv /\ WritingOK /\ [Next]_vars => WritingOK'
  BY <1>3
<1>5. IInv /\ SInv /\ WritingOK => TypeOK
  BY <1>1
<1> HIDE DEF WritingOK
<1> QED BY <1>2, <1>4, <1>5, Safety, SeriesSafety, PTL DEF Spec

(* The series for d digits converts the numbers generated for d digits and *)
(* no others, whichever benchmark is the first to ask for the numbers; the *)
(* mixed benchmark converts all of them.                                   *)
THEOREM AlwaysDigitsMeasured == Spec => []DigitsMeasured
<1>1. SInv => DigitsMeasured
  BY DEF SInv
<1> QED BY <1>1, SeriesSafety, PTL

(* Exit code 0 means that everything asked for has been measured, in an    *)
(* order no link order changes, and is in the file; exit code 1 that       *)
(* nothing has been measured.                                              *)
THEOREM AlwaysExitCodeTold == Spec => []ExitCodeTold
<1>1. SInv => ExitCodeTold
  BY DEF SInv
<1> QED BY <1>1, SeriesSafety, PTL
=============================================================================
