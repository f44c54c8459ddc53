--------------------------- MODULE PipelineProofs ---------------------------
(***************************************************************************)
(* For every set of result files: if one command runs at a time, whatever  *)
(* is interrupted and wherever, a make run-benchmark that ends well has    *)
(* made the report of what it measured, an old report is recognized, a     *)
(* generate-html.py --all that ends well has left none, and the index      *)
(* lists what there is.                                                    *)
(***************************************************************************)
EXTENDS Pipeline, TLAPS

Complete == {f \in Results : results[f] = "complete"}

(* One command: the benchmark, then the generator make starts, or one that *)
(* was started by hand.                                                    *)
Alone ==
  /\ make = "idle" \/ pc["hand"] = "idle"
  /\ make # "html" => pc["make"] = "idle"
  /\ make # "idle" => job \in Results
  /\ writing # NoPath => make = "bench" /\ writing = job

(* What is old or partial was modified after its page was made, and what   *)
(* is being rendered is whole.                                             *)
PagesOK ==
  /\ \A f \in Results : html[f] = "old" => newer[f]
  /\ \A f \in Results : results[f] = "partial" => newer[f]
  /\ \A p \in Generators :
       pc[p] \in {"render", "page"} => fresh[p] /\ src_path[p] \in Complete

(* The entries collected and the files still to be read.                   *)
IndexOK == \A p \in Generators :
  /\ pc[p] \in {"loop", "render", "page"} => entries[p] = {}
  /\ pc[p] \in {"index", "means"} =>
       /\ entries[p] \subseteq Complete
       /\ Complete \subseteq entries[p] \cup targets[p]
  /\ pc[p] = "means" => src_path[p] \in Complete
  /\ pc[p] = "write" => entries[p] = Complete
  /\ pc[p] = "done" /\ ~options[p].no_index => index = Complete

(* What p's loop is to leave of a file.                                    *)
Good(p, f) ==
  /\ results[f] = "complete"
  /\ html[f] = "current" \/ (html[f] = "truncated" /\ ~options[p].force)

Behind(p) == IF pc[p] \in {"loop", "render", "page"} THEN Globbed \ targets[p]
             ELSE IF pc[p] \in {"index", "means", "write", "done"} THEN Globbed
             ELSE {}

LoopOK == \A p \in Generators :
  /\ pc[p] \in {"render", "page"} => src_path[p] \in targets[p]
  /\ options[p].all /\ ~options[p].index_only =>
       \A f \in Behind(p) : Good(p, f)

(* make's generator: the page of the result just measured is stale until   *)
(* it is made.                                                             *)
MakeOK ==
  /\ make = "html" => results[job] = "complete"
  /\ make = "html" /\ pc["make"] = "idle" => newer[job]
  /\ pc["make"] # "idle" => options["make"] = MakeOptions
  /\ pc["make"] \in {"loop", "render", "page"} =>
       \/ html[job] = "current"
       \/ job \in targets["make"] /\ newer[job]
       \/ pc["make"] = "page" /\ src_path["make"] = job
  /\ pc["make"] \in {"index", "means", "write", "done"} => html[job] = "current"

IInv == TypeOK /\ Alone /\ PagesOK /\ IndexOK /\ LoopOK /\ MakeOK

USE DEF pages, gens, maker

-----------------------------------------------------------------------------
(* Types, whatever overlaps.                                               *)
LEMMA StartTyped ==
  ASSUME TypeOK, NEW p \in Generators, NEW o \in Options, Start(p, o)
  PROVE  TypeOK'
<1>1. targets'[p] \subseteq Results
  BY DEF TypeOK, Start, Globbed, Options
<1> QED BY <1>1, ResultsAssumption DEF TypeOK, Start, Quiet, Stages, Ended, Writer!Content

LEMMA BenchmarkTyped == ASSUME TypeOK, Benchmark PROVE TypeOK'
<1>1. CASE BenchOpen
  BY <1>1, ResultsAssumption
  DEF TypeOK, BenchOpen, JsonModified, Writer!Open, Writer!Content
<1>2. CASE BenchFinish
  BY <1>2, ResultsAssumption
  DEF TypeOK, BenchFinish, JsonModified, Writer!Finish, Writer!Content
<1>3. CASE BenchFail
  BY <1>3 DEF TypeOK, BenchFail, Writer!Abandon, Writer!Content
<1> QED BY <1>1, <1>2, <1>3 DEF Benchmark

LEMMA GenerateTyped ==
  ASSUME TypeOK, NEW p \in Generators, Generate(p) \/ KillGenerator(p)
  PROVE  TypeOK'
<1>1. CASE Skip(p)
  BY <1>1, ResultsAssumption
  DEF TypeOK, Skip, Stages, Ended, Next1
<1>2. CASE Read(p)
  <2>1. PICK f \in Results :
          IF results[f] = "complete"
            THEN /\ pc' = [pc EXCEPT ![p] = "render"]
                 /\ src_path' = [src_path EXCEPT ![p] = f]
                 /\ fresh' = [fresh EXCEPT ![p] = TRUE]
            ELSE /\ pc' = [pc EXCEPT ![p] = "failed"]
                 /\ UNCHANGED <<src_path, fresh>>
    BY <1>2 DEF Read
  <2>2. /\ pc[p] = "loop"
        /\ UNCHANGED <<results, writing, pages, maker, options, targets, entries>>
    BY <1>2 DEF Read
  <2>3. CASE results[f] = "complete"
    <3>1. /\ pc' = [pc EXCEPT ![p] = "render"]
          /\ src_path' = [src_path EXCEPT ![p] = f]
          /\ fresh' = [fresh EXCEPT ![p] = TRUE]
          /\ f # NoPath
      BY <2>1, <2>3, ResultsAssumption
    <3>2. \A q \in Generators :
            /\ pc'[q] \in {"render", "page", "means"} <=> src_path'[q] # NoPath
            /\ pc'[q] \in {"render", "page"} \/ ~fresh'[q]
      BY <3>1 DEF TypeOK
    <3>3. /\ pc' \in [Generators -> Stages]
          /\ src_path' \in [Generators -> Results \cup {NoPath}]
          /\ fresh' \in [Generators -> BOOLEAN]
      BY <3>1 DEF TypeOK, Stages
    <3> QED BY <2>2, <3>2, <3>3 DEF TypeOK, Writer!Content
  <2>4. CASE results[f] # "complete"
    BY <2>1, <2>2, <2>4, ResultsAssumption DEF TypeOK, Stages, Ended
  <2> QED BY <2>3, <2>4
<1>3. CASE TruncatePage(p)
  BY <1>3, ResultsAssumption
  DEF TypeOK, TruncatePage, Stages, Ended, SetPage
<1>4. CASE WritePage(p)
  BY <1>4, ResultsAssumption
  DEF TypeOK, WritePage, Stages, Ended, SetPage
<1>5. CASE EndLoop(p)
  BY <1>5, ResultsAssumption
  DEF TypeOK, EndLoop, Stages, Ended, Globbed
<1>6. CASE CollectEntry(p)
  BY <1>6, ResultsAssumption
  DEF TypeOK, CollectEntry, Stages, Ended, Next1
<1>7. CASE CollectMeans(p)
  BY <1>7, ResultsAssumption
  DEF TypeOK, CollectMeans, Stages, Ended
<1>8. CASE TruncateIndex(p)
  BY <1>8, ResultsAssumption
  DEF TypeOK, TruncateIndex, Stages, Ended
<1>9. CASE WriteIndex(p)
  BY <1>9, ResultsAssumption
  DEF TypeOK, WriteIndex, Stages, Ended
<1>10. CASE Exit(p)
  BY <1>10, ResultsAssumption
  DEF TypeOK, Exit, Stages, Ended, MakeOptions, Options
<1>11. CASE KillGenerator(p)
  BY <1>11, ResultsAssumption
  DEF TypeOK, KillGenerator, Stages, Ended
<1> QED BY <1>1, <1>2, <1>3, <1>4, <1>5, <1>6, <1>7, <1>8, <1>9, <1>10, <1>11 DEF Generate

LEMMA MakeOptionsTyped == MakeOptions \in Options
BY DEF MakeOptions, Options

LEMMA TypeStep == ASSUME TypeOK, [Next]_vars PROVE TypeOK'
<1>1. ASSUME NEW f \in Results, StartMake(f) PROVE TypeOK'
  BY <1>1 DEF TypeOK, StartMake, Writer!Content
<1>2. CASE Benchmark
  BY <1>2, BenchmarkTyped
<1>3. CASE MakeGenerates
  BY <1>3, StartTyped, MakeOptionsTyped DEF MakeGenerates, Generators
<1>4. CASE HandGenerates
  BY <1>4, StartTyped DEF HandGenerates, Generators
<1>5. ASSUME NEW p \in Generators, Generate(p) \/ KillGenerator(p) PROVE TypeOK'
  BY <1>5, GenerateTyped
<1>6. CASE UNCHANGED vars
  BY <1>6 DEF TypeOK, vars, Writer!Content
<1> QED BY <1>1, <1>2, <1>3, <1>4, <1>5, <1>6 DEF Next

LEMMA TypeInit == Init => TypeOK
BY MakeOptionsTyped, ResultsAssumption
DEF Init, TypeOK, Stages, Ended, Writer!Content

(* The processes never confuse what a result file is.                      *)
THEOREM TypeCorrect == Spec => []TypeOK
BY TypeInit, TypeStep, PTL DEF Spec

-----------------------------------------------------------------------------
(* One command at a time.                                                  *)
LEMMA Sole ==
  ASSUME TypeOK, Alone, NEW p \in Generators, pc[p] # "idle"
  PROVE  /\ make # "bench" /\ writing = NoPath
         /\ \A q \in Generators : q # p => pc[q] = "idle"
         /\ p = "make" => make = "html"
         /\ p = "hand" => make = "idle"
BY DEF TypeOK, Alone, Generators

LEMMA InvInit == Init => IInv
<1> SUFFICES ASSUME Init PROVE IInv
  OBVIOUS
<1>1. TypeOK
  BY TypeInit
<1>2. Alone /\ MakeOK
  BY DEF Init, Alone, MakeOK, Generators
<1>3. PagesOK
  BY DEF Init, PagesOK
<1>4. IndexOK
  BY DEF Init, IndexOK
<1>5. LoopOK
  BY DEF Init, LoopOK, Behind
<1> QED BY <1>1, <1>2, <1>3, <1>4, <1>5 DEF IInv

LEMMA StartMakeKeeps ==
  ASSUME IInv, ~Overlap, NEW f \in Results, StartMake(f) PROVE IInv'
<1>1. TypeOK'
  BY TypeStep DEF IInv, Next
<1>2. \A p \in Generators : pc[p] = "idle"
  BY DEF IInv, Alone, StartMake, Quiet, Generators
<1>3. Alone'
  BY <1>2 DEF IInv, Alone, StartMake, Generators
<1>4. PagesOK'
  BY <1>2 DEF IInv, PagesOK, StartMake, Complete
<1>5. IndexOK'
  BY <1>2 DEF IInv, IndexOK, StartMake
<1>6. LoopOK'
  BY <1>2 DEF IInv, LoopOK, Behind, StartMake
<1>7. MakeOK'
  BY <1>2 DEF MakeOK, StartMake, Generators
<1> QED BY <1>1, <1>3, <1>4, <1>5, <1>6, <1>7 DEF IInv

LEMMA BenchmarkKeeps ==
  ASSUME IInv, ~Overlap, Benchmark PROVE IInv'
<1>1. TypeOK'
  BY TypeStep DEF IInv, Next
<1>2. make = "bench" /\ job \in Results /\ \A p \in Generators : pc[p] = "idle"
  BY DEF IInv, Alone, Benchmark, BenchOpen, BenchFinish, BenchFail, Generators
<1>3. UNCHANGED <<pc, options, job>>
  BY DEF Benchmark, BenchOpen, BenchFinish, BenchFail, JsonModified
<1>4. IndexOK' /\ LoopOK'
  BY <1>2, <1>3 DEF IndexOK, LoopOK, Behind
<1>5. CASE BenchOpen
  <2>1. Alone'
    BY <1>2, <1>3, <1>5 DEF IInv, Alone, BenchOpen, Writer!Open, Generators
  <2>2. PagesOK'
    BY <1>2, <1>3, <1>5
    DEF IInv, PagesOK, TypeOK, BenchOpen, Writer!Open, JsonModified
  <2>3. MakeOK'
    BY <1>2, <1>3, <1>5 DEF MakeOK, BenchOpen, Generators
  <2> QED BY <1>1, <1>4, <2>1, <2>2, <2>3 DEF IInv
<1>6. CASE BenchFinish
  <2>1. Alone'
    BY <1>2, <1>3, <1>6 DEF IInv, Alone, BenchFinish, Writer!Finish, Generators
  <2>2. PagesOK'
    BY <1>2, <1>3, <1>6
    DEF IInv, PagesOK, TypeOK, BenchFinish, Writer!Finish, JsonModified
  <2>3. MakeOK'
    BY <1>2, <1>3, <1>6
    DEF IInv, TypeOK, MakeOK, BenchFinish, Writer!Finish, JsonModified, Generators
  <2> QED BY <1>1, <1>4, <2>1, <2>2, <2>3 DEF IInv
<1>7. CASE BenchFail
  <2>1. Alone'
    BY <1>2, <1>3, <1>7 DEF IInv, Alone, BenchFail, Writer!Abandon, Generators
  <2>2. PagesOK'
    BY <1>2, <1>3, <1>7 DEF IInv, PagesOK, BenchFail, Writer!Abandon
  <2>3. MakeOK'
    BY <1>2, <1>3, <1>7 DEF MakeOK, BenchFail, Generators
  <2> QED BY <1>1, <1>4, <2>1, <2>2, <2>3 DEF IInv
<1> QED BY <1>5, <1>6, <1>7 DEF Benchmark

LEMMA StartKeeps ==
  ASSUME IInv, ~Overlap, MakeGenerates \/ HandGenerates PROVE IInv'
<1>1. TypeOK'
  BY TypeStep DEF IInv, Next
<1>2. PICK p \in Generators, o \in Options :
        /\ Start(p, o)
        /\ p = "make" => make = "html" /\ o = MakeOptions
        /\ p = "hand" => make = "idle"
  BY MakeOptionsTyped DEF MakeGenerates, HandGenerates, Generators
<1>3. pc[p] = "idle" /\ UNCHANGED <<results, writing, html, newer, index, make, job,
                                   src_path, fresh>>
  BY <1>2 DEF Start, Quiet
<1>4. /\ pc' = [pc EXCEPT ![p] = "loop"]
      /\ options' = [options EXCEPT ![p] = o]
      /\ entries' = [entries EXCEPT ![p] = {}]
      /\ targets' = [targets EXCEPT ![p] = IF o.index_only THEN {}
                                            ELSE IF o.all THEN Globbed ELSE o.inputs]
  BY <1>2 DEF Start
<1>5. \A q \in Generators : pc[q] = "idle"
  BY <1>2, <1>3 DEF IInv, Alone, Generators
<1>6. Alone'
  BY <1>2, <1>3, <1>4, <1>5 DEF IInv, Alone, TypeOK, Generators
<1>7. PagesOK'
  BY <1>3, <1>4, <1>5 DEF IInv, PagesOK, TypeOK, Complete
<1>8. IndexOK'
  BY <1>3, <1>4, <1>5 DEF IndexOK, IInv, TypeOK
<1>9. LoopOK'
  BY <1>3, <1>4, <1>5 DEF LoopOK, Behind, Globbed, IInv, TypeOK
<1>10. MakeOK'
  <2>1. p = "make" => job \in Globbed /\ newer[job]
    BY <1>2, <1>5 DEF IInv, MakeOK, Alone, Globbed, Generators
  <2> QED BY <1>2, <1>3, <1>4, <1>5, <2>1
          DEF MakeOK, IInv, TypeOK, MakeOptions, Generators
<1> QED BY <1>1, <1>6, <1>7, <1>8, <1>9, <1>10 DEF IInv

-----------------------------------------------------------------------------
(* A step of a generator: the other one and the benchmark are idle.        *)
LEMMA SkipKeeps ==
  ASSUME IInv, NEW p \in Generators, Skip(p) PROVE IInv'
<1>1. TypeOK'
  BY GenerateTyped DEF IInv, Generate
<1>2. PICK f \in Results :
        /\ Next1(p, f) /\ ~ToDo(p, f)
        /\ targets' = [targets EXCEPT ![p] = @ \ {f}]
  BY DEF Skip
<1>3. /\ pc[p] = "loop"
      /\ UNCHANGED <<results, writing, html, newer, index, make, job, pc, options,
                     src_path, fresh, entries>>
  BY DEF Skip
<1>4. \A q \in Generators : q # p => pc[q] = "idle"
  BY <1>3, Sole DEF IInv
<1>5. results[f] = "absent" \/ (html[f] # "absent" /\ ~newer[f] /\ ~options[p].force)
  BY <1>2 DEF ToDo, is_stale, IInv, TypeOK, Options
<1>6. targets'[p] = targets[p] \ {f}
  BY <1>2 DEF IInv, TypeOK
<1>7. Alone'
  BY <1>3 DEF IInv, Alone
<1>8. PagesOK'
  BY <1>3 DEF IInv, PagesOK, Complete
<1>9. IndexOK'
  BY <1>3, <1>4 DEF IInv, IndexOK, Complete
<1>10. f \in Globbed => Good(p, f)
  BY <1>5 DEF IInv, PagesOK, TypeOK, Good, Globbed, Writer!Content
<1>11. LoopOK'
  BY <1>3, <1>4, <1>6, <1>10 DEF IInv, LoopOK, Behind, Globbed, Good
<1>12. MakeOK'
  <2>1. p = "make" => job # f \/ html[job] = "current" \/ ~(job \in targets[p] /\ newer[job])
    BY <1>3, <1>5, Sole DEF IInv, MakeOK
  <2> QED BY <1>3, <1>4, <1>6, <2>1 DEF IInv, MakeOK, Generators
<1> QED BY <1>1, <1>7, <1>8, <1>9, <1>11, <1>12 DEF IInv

LEMMA ReadKeeps ==
  ASSUME IInv, NEW p \in Generators, Read(p) PROVE IInv'
<1>1. TypeOK'
  BY GenerateTyped DEF IInv, Generate
<1>2. PICK f \in Results :
        /\ Next1(p, f)
        /\ IF results[f] = "complete"
             THEN /\ pc' = [pc EXCEPT ![p] = "render"]
                  /\ src_path' = [src_path EXCEPT ![p] = f]
                  /\ fresh' = [fresh EXCEPT ![p] = TRUE]
             ELSE /\ pc' = [pc EXCEPT ![p] = "failed"]
                  /\ UNCHANGED <<src_path, fresh>>
  BY DEF Read
<1>3. /\ pc[p] = "loop"
      /\ UNCHANGED <<results, writing, html, newer, index, make, job, options,
                     targets, entries>>
  BY DEF Read
<1>4. \A q \in Generators : q # p => pc[q] = "idle" /\ pc'[q] = "idle"
  BY <1>2, <1>3, Sole DEF IInv, TypeOK
<1>5. f \in targets[p]
  BY <1>2 DEF Next1
<1>6. \/ /\ results[f] = "complete" /\ pc'[p] = "render"
         /\ src_path'[p] = f /\ fresh'[p] = TRUE
      \/ pc'[p] = "failed"
  BY <1>2 DEF IInv, TypeOK
<1>7. Alone'
  BY <1>3, <1>4, Sole DEF IInv, Alone, Generators
<1>8. PagesOK'
  BY <1>3, <1>4, <1>6 DEF IInv, PagesOK, Complete
<1>9. IndexOK'
  BY <1>3, <1>4, <1>6 DEF IInv, IndexOK, Complete
<1>10. LoopOK'
  BY <1>3, <1>4, <1>5, <1>6 DEF IInv, LoopOK, Behind, Globbed, Good
<1>11. MakeOK'
  BY <1>3, <1>4, <1>6, Sole DEF IInv, MakeOK, Generators
<1> QED BY <1>1, <1>7, <1>8, <1>9, <1>10, <1>11 DEF IInv

LEMMA TruncatePageKeeps ==
  ASSUME IInv, NEW p \in Generators, TruncatePage(p) PROVE IInv'
<1>1. TypeOK'
  BY GenerateTyped DEF IInv, Generate
<1>2. /\ pc[p] = "render"
      /\ pc' = [pc EXCEPT ![p] = "page"]
      /\ html' = [html EXCEPT ![src_path[p]] = "truncated"]
      /\ newer' = [newer EXCEPT ![src_path[p]] = FALSE]
      /\ UNCHANGED <<results, writing, index, make, job, options, targets,
                     src_path, fresh, entries>>
  BY DEF TruncatePage, SetPage
<1>3. \A q \in Generators : q # p => pc[q] = "idle" /\ pc'[q] = "idle"
  BY <1>2, Sole DEF IInv, TypeOK
<1>4. pc'[p] = "page"
  BY <1>2 DEF IInv, TypeOK
<1>5. src_path[p] \in Results /\ src_path[p] \in Complete /\ src_path[p] \in targets[p]
  BY <1>2 DEF IInv, PagesOK, LoopOK, Complete
<1>6. Alone'
  BY <1>2, <1>3, Sole DEF IInv, Alone, Generators
<1>7. PagesOK'
  BY <1>2, <1>3, <1>4, <1>5 DEF IInv, PagesOK, Complete, TypeOK
<1>8. IndexOK'
  BY <1>2, <1>3, <1>4 DEF IInv, IndexOK, Complete
<1>9. LoopOK'
  BY <1>2, <1>3, <1>4, <1>5 DEF IInv, TypeOK, LoopOK, Behind, Globbed, Good
<1>10. MakeOK'
  BY <1>2, <1>3, <1>4, <1>5, Sole DEF IInv, TypeOK, MakeOK, Generators
<1> QED BY <1>1, <1>6, <1>7, <1>8, <1>9, <1>10 DEF IInv

LEMMA WritePageKeeps ==
  ASSUME IInv, NEW p \in Generators, WritePage(p) PROVE IInv'
<1>1. TypeOK'
  BY GenerateTyped DEF IInv, Generate
<1>2. pc[p] = "page" /\ fresh[p] /\ src_path[p] \in Complete /\ src_path[p] \in Results
  BY DEF WritePage, IInv, PagesOK, Complete
<1>3. /\ pc' = [pc EXCEPT ![p] = "loop"]
      /\ html' = [html EXCEPT ![src_path[p]] = "current"]
      /\ newer' = [newer EXCEPT ![src_path[p]] = FALSE]
      /\ targets' = [targets EXCEPT ![p] = @ \ {src_path[p]}]
      /\ UNCHANGED <<results, writing, index, make, job, options, entries>>
  BY <1>2 DEF WritePage, SetPage
<1>4. \A q \in Generators : q # p => pc[q] = "idle" /\ pc'[q] = "idle"
  BY <1>2, <1>3, Sole DEF IInv, TypeOK
<1>5. pc'[p] = "loop" /\ targets'[p] = targets[p] \ {src_path[p]}
  BY <1>3 DEF IInv, TypeOK
<1>6. Alone'
  BY <1>2, <1>3, <1>4, Sole DEF IInv, Alone, Generators
<1>7. PagesOK'
  BY <1>2, <1>3, <1>4, <1>5 DEF IInv, PagesOK, Complete, TypeOK
<1>8. IndexOK'
  BY <1>2, <1>3, <1>4, <1>5 DEF IInv, IndexOK
<1>9. LoopOK'
  <2>1. \A f \in Results : Good(p, f) => Good(p, f)'
    BY <1>3 DEF Good, IInv, TypeOK
  <2>2. \A f \in Results : f = src_path[p] => Good(p, f)'
    BY <1>2, <1>3 DEF Good, IInv, TypeOK, Complete
  <2> QED BY <1>2, <1>3, <1>4, <1>5, <2>1, <2>2 DEF IInv, LoopOK, Behind, Globbed
<1>10. MakeOK'
  BY <1>2, <1>3, <1>4, <1>5, Sole DEF IInv, TypeOK, MakeOK, Generators
<1> QED BY <1>1, <1>6, <1>7, <1>8, <1>9, <1>10 DEF IInv

LEMMA EndLoopKeeps ==
  ASSUME IInv, NEW p \in Generators, EndLoop(p) PROVE IInv'
<1>1. TypeOK'
  BY GenerateTyped DEF IInv, Generate
<1>2. /\ pc[p] = "loop" /\ targets[p] = {}
      /\ UNCHANGED <<results, writing, html, newer, index, make, job, options,
                     src_path, fresh, entries>>
  BY DEF EndLoop
<1>3. \/ options[p].no_index /\ pc' = [pc EXCEPT ![p] = "done"]
      \/ /\ pc' = [pc EXCEPT ![p] = "index"]
         /\ targets' = [targets EXCEPT ![p] = Globbed]
  BY DEF EndLoop
<1>4. \A q \in Generators : q # p => pc[q] = "idle" /\ pc'[q] = "idle"
  BY <1>2, <1>3, Sole DEF IInv, TypeOK
<1>5. \/ options[p].no_index /\ pc'[p] = "done"
      \/ pc'[p] = "index" /\ targets'[p] = Globbed
  BY <1>3 DEF IInv, TypeOK
<1>6. Alone'
  BY <1>2, <1>4, Sole DEF IInv, Alone, Generators
<1>7. PagesOK'
  BY <1>2, <1>4, <1>5 DEF IInv, PagesOK, Complete
<1>8. IndexOK'
  BY <1>2, <1>4, <1>5 DEF IInv, IndexOK, Complete, Globbed
<1>9. LoopOK'
  BY <1>2, <1>4, <1>5 DEF IInv, LoopOK, Behind, Globbed, Good
<1>10. MakeOK'
  BY <1>2, <1>4, <1>5, Sole DEF IInv, MakeOK, Generators
<1> QED BY <1>1, <1>6, <1>7, <1>8, <1>9, <1>10 DEF IInv

LEMMA CollectEntryKeeps ==
  ASSUME IInv, NEW p \in Generators, CollectEntry(p) PROVE IInv'
<1>1. TypeOK'
  BY GenerateTyped DEF IInv, Generate
<1>2. PICK f \in Results :
        IF results[f] = "complete"
          THEN /\ pc' = [pc EXCEPT ![p] = "means"]
               /\ src_path' = [src_path EXCEPT ![p] = f]
               /\ UNCHANGED targets
          ELSE /\ targets' = [targets EXCEPT ![p] = @ \ {f}]
               /\ UNCHANGED <<pc, src_path>>
  BY DEF CollectEntry
<1>3. /\ pc[p] = "index"
      /\ UNCHANGED <<results, writing, html, newer, index, make, job, options,
                     fresh, entries>>
  BY DEF CollectEntry
<1>4. \A q \in Generators : q # p => pc[q] = "idle" /\ pc'[q] = "idle"
  BY <1>2, <1>3, Sole DEF IInv, TypeOK
<1>5. \/ /\ f \in Complete /\ pc'[p] = "means"
         /\ src_path'[p] = f /\ targets'[p] = targets[p]
      \/ /\ f \notin Complete /\ pc'[p] = "index"
         /\ targets'[p] = targets[p] \ {f}
  BY <1>2, <1>3 DEF IInv, TypeOK, Complete
<1>6. Alone'
  BY <1>3, <1>4, Sole DEF IInv, Alone, Generators
<1>7. PagesOK'
  BY <1>3, <1>4, <1>5 DEF IInv, PagesOK, Complete
<1>8. IndexOK'
  BY <1>3, <1>4, <1>5 DEF IInv, IndexOK, Complete
<1>9. LoopOK'
  BY <1>3, <1>4, <1>5 DEF IInv, LoopOK, Behind, Globbed, Good
<1>10. MakeOK'
  BY <1>3, <1>4, <1>5, Sole DEF IInv, MakeOK, Generators
<1> QED BY <1>1, <1>6, <1>7, <1>8, <1>9, <1>10 DEF IInv

LEMMA CollectMeansKeeps ==
  ASSUME IInv, NEW p \in Generators, CollectMeans(p) PROVE IInv'
<1>1. TypeOK'
  BY GenerateTyped DEF IInv, Generate
<1>2. /\ pc[p] = "means" /\ src_path[p] \in Complete
      /\ pc' = [pc EXCEPT ![p] = "index"]
      /\ entries' = [entries EXCEPT ![p] = @ \cup {src_path[p]}]
      /\ targets' = [targets EXCEPT ![p] = @ \ {src_path[p]}]
      /\ UNCHANGED <<results, writing, html, newer, index, make, job, options, fresh>>
  BY DEF CollectMeans, IInv, IndexOK, Complete
<1>3. \A q \in Generators : q # p => pc[q] = "idle" /\ pc'[q] = "idle"
  BY <1>2, Sole DEF IInv, TypeOK
<1>4. /\ pc'[p] = "index"
      /\ entries'[p] = entries[p] \cup {src_path[p]}
      /\ targets'[p] = targets[p] \ {src_path[p]}
  BY <1>2 DEF IInv, TypeOK
<1>5. Alone'
  BY <1>2, <1>3, Sole DEF IInv, Alone, Generators
<1>6. PagesOK'
  BY <1>2, <1>3, <1>4 DEF IInv, PagesOK, Complete
<1>7. IndexOK'
  BY <1>2, <1>3, <1>4 DEF IInv, IndexOK, Complete
<1>8. LoopOK'
  BY <1>2, <1>3, <1>4 DEF IInv, LoopOK, Behind, Globbed, Good
<1>9. MakeOK'
  BY <1>2, <1>3, <1>4, Sole DEF IInv, MakeOK, Generators
<1> QED BY <1>1, <1>5, <1>6, <1>7, <1>8, <1>9 DEF IInv

LEMMA TruncateIndexKeeps ==
  ASSUME IInv, NEW p \in Generators, TruncateIndex(p) PROVE IInv'
<1>1. TypeOK'
  BY GenerateTyped DEF IInv, Generate
<1>2. /\ pc[p] = "index" /\ targets[p] = {}
      /\ pc' = [pc EXCEPT ![p] = "write"]
      /\ UNCHANGED <<results, writing, html, newer, make, job, options, targets,
                     src_path, fresh, entries>>
  BY DEF TruncateIndex
<1>3. \A q \in Generators : q # p => pc[q] = "idle" /\ pc'[q] = "idle"
  BY <1>2, Sole DEF IInv, TypeOK
<1>4. pc'[p] = "write" /\ entries[p] = Complete
  BY <1>2 DEF IInv, TypeOK, IndexOK
<1>5. Alone'
  BY <1>2, <1>3, Sole DEF IInv, Alone, Generators
<1>6. PagesOK'
  BY <1>2, <1>3, <1>4 DEF IInv, PagesOK, Complete
<1>7. IndexOK'
  BY <1>2, <1>3, <1>4 DEF IInv, IndexOK, Complete
<1>8. LoopOK'
  BY <1>2, <1>3, <1>4 DEF IInv, LoopOK, Behind, Globbed, Good
<1>9. MakeOK'
  BY <1>2, <1>3, <1>4, Sole DEF IInv, MakeOK, Generators
<1> QED BY <1>1, <1>5, <1>6, <1>7, <1>8, <1>9 DEF IInv

LEMMA WriteIndexKeeps ==
  ASSUME IInv, NEW p \in Generators, WriteIndex(p) PROVE IInv'
<1>1. TypeOK'
  BY GenerateTyped DEF IInv, Generate
<1>2. /\ pc[p] = "write"
      /\ pc' = [pc EXCEPT ![p] = "done"]
      /\ index' = Complete
      /\ UNCHANGED <<results, writing, html, newer, make, job, options, targets,
                     src_path, fresh, entries>>
  BY DEF WriteIndex, IInv, IndexOK
<1>3. \A q \in Generators : q # p => pc[q] = "idle" /\ pc'[q] = "idle"
  BY <1>2, Sole DEF IInv, TypeOK
<1>4. pc'[p] = "done"
  BY <1>2 DEF IInv, TypeOK
<1>5. Alone'
  BY <1>2, <1>3, Sole DEF IInv, Alone, Generators
<1>6. PagesOK'
  BY <1>2, <1>3, <1>4 DEF IInv, PagesOK, Complete
<1>7. IndexOK'
  BY <1>2, <1>3, <1>4 DEF IInv, IndexOK, Complete
<1>8. LoopOK'
  BY <1>2, <1>3, <1>4 DEF IInv, LoopOK, Behind, Globbed, Good
<1>9. MakeOK'
  BY <1>2, <1>3, <1>4, Sole DEF IInv, MakeOK, Generators
<1> QED BY <1>1, <1>5, <1>6, <1>7, <1>8, <1>9 DEF IInv

LEMMA KillKeeps ==
  ASSUME IInv, NEW p \in Generators, KillGenerator(p) PROVE IInv'
<1>1. TypeOK'
  BY GenerateTyped DEF IInv
<1>2. /\ pc[p] # "idle"
      /\ pc' = [pc EXCEPT ![p] = "killed"]
      /\ UNCHANGED <<results, writing, html, newer, index, make, job, options,
                     targets, entries>>
  BY DEF KillGenerator
<1>3. \A q \in Generators : q # p => pc[q] = "idle" /\ pc'[q] = "idle"
  BY <1>2, Sole DEF IInv, TypeOK
<1>4. pc'[p] = "killed"
  BY <1>2 DEF IInv, TypeOK
<1>5. Alone'
  BY <1>2, <1>3, Sole DEF IInv, Alone, Generators
<1>6. PagesOK'
  BY <1>2, <1>3, <1>4 DEF IInv, PagesOK
<1>7. IndexOK'
  BY <1>2, <1>3, <1>4 DEF IndexOK
<1>8. LoopOK'
  BY <1>2, <1>3, <1>4 DEF LoopOK, Behind
<1>9. MakeOK'
  BY <1>2, <1>3, <1>4, Sole DEF IInv, MakeOK, Generators
<1> QED BY <1>1, <1>5, <1>6, <1>7, <1>8, <1>9 DEF IInv

LEMMA ExitKeeps ==
  ASSUME IInv, NEW p \in Generators, Exit(p) PROVE IInv'
<1>1. TypeOK'
  BY GenerateTyped DEF IInv, Generate
<1>2. /\ pc[p] # "idle"
      /\ pc' = [pc EXCEPT ![p] = "idle"]
      /\ make' = IF p = "make" THEN "idle" ELSE make
      /\ UNCHANGED <<results, writing, html, newer, index, job, src_path, fresh>>
  BY DEF Exit, Ended
<1>3. \A q \in Generators : pc'[q] = "idle"
  BY <1>2, Sole DEF IInv, TypeOK
<1>4. make' = "idle" /\ writing' = NoPath
  BY <1>2, Sole DEF IInv, Generators
<1>5. Alone'
  BY <1>2, <1>3, <1>4 DEF IInv, Alone, Generators
<1>6. PagesOK'
  BY <1>2, <1>3 DEF IInv, PagesOK
<1>7. IndexOK'
  BY <1>3 DEF IndexOK
<1>8. LoopOK'
  BY <1>3 DEF LoopOK, Behind
<1>9. MakeOK'
  BY <1>3, <1>4 DEF MakeOK, Generators
<1> QED BY <1>1, <1>5, <1>6, <1>7, <1>8, <1>9 DEF IInv

LEMMA InvStep == ASSUME IInv, ~Overlap, [Next]_vars PROVE IInv'
<1>1. ASSUME NEW f \in Results, StartMake(f) PROVE IInv'
  BY <1>1, StartMakeKeeps
<1>2. CASE Benchmark
  BY <1>2, BenchmarkKeeps
<1>3. CASE MakeGenerates \/ HandGenerates
  BY <1>3, StartKeeps
<1>4. ASSUME NEW p \in Generators, Generate(p) \/ KillGenerator(p) PROVE IInv'
  BY <1>4, SkipKeeps, ReadKeeps, TruncatePageKeeps, WritePageKeeps, EndLoopKeeps,
     CollectEntryKeeps, CollectMeansKeeps, TruncateIndexKeeps, WriteIndexKeeps,
     KillKeeps, ExitKeeps
  DEF Generate
<1>5. CASE UNCHANGED vars
  BY <1>5 DEF vars, IInv, TypeOK, Alone, PagesOK, IndexOK, LoopOK, MakeOK, Complete,
              Good, Behind, Globbed, Writer!Content
<1> QED BY <1>1, <1>2, <1>3, <1>4, <1>5 DEF Next

LEMMA InvAlways == ASSUME ~Overlap PROVE Spec => []IInv
<1>1. IInv /\ [Next]_vars => IInv'
  BY InvStep
<1> QED BY <1>1, InvInit, PTL DEF Spec

-----------------------------------------------------------------------------
(* A make run-benchmark that ends well leaves the report of what it        *)
(* measured, and an index that links to it, whatever was interrupted       *)
(* before: the JSON is newer than its page from the moment it is opened    *)
(* until the page is rewritten.                                            *)
THEOREM AlwaysMakeReports == ASSUME ~Overlap PROVE Spec => []MakeReports
<1>1. ASSUME IInv PROVE MakeReports
  <2> SUFFICES ASSUME pc["make"] = "done" PROVE html[job] = "current" /\ job \in index
    BY DEF MakeReports
  <2>1. "make" \in Generators /\ make = "html" /\ job \in Results /\ results[job] = "complete"
    BY <1>1, Sole DEF IInv, Alone, MakeOK, Generators
  <2>2. ~options["make"].no_index /\ html[job] = "current"
    BY <1>1 DEF IInv, MakeOK, MakeOptions
  <2> QED BY <1>1, <2>1, <2>2 DEF IInv, IndexOK, Complete
<1> QED BY <1>1, InvAlways, PTL

(* What does not show its JSON is recognized as stale.                     *)
THEOREM AlwaysOldIsStale == ASSUME ~Overlap PROVE Spec => []OldIsStale
<1>1. IInv => OldIsStale
  BY DEF IInv, PagesOK, OldIsStale, is_stale
<1> QED BY <1>1, InvAlways, PTL

(* generate-html.py --all leaves no report that is missing or old, and     *)
(* with --force none that an interruption has cut.                         *)
THEOREM AlwaysAllProcessed == ASSUME ~Overlap PROVE Spec => []AllProcessed
<1>1. IInv => AllProcessed
  BY DEF IInv, LoopOK, AllProcessed, Behind, Good, Globbed
<1> QED BY <1>1, InvAlways, PTL

(* The index lists the results that are complete, and nothing else.        *)
THEOREM AlwaysIndexComplete == ASSUME ~Overlap PROVE Spec => []IndexComplete
<1>1. IInv => IndexComplete
  BY DEF IInv, IndexOK, IndexComplete, Complete
<1> QED BY <1>1, InvAlways, PTL
=============================================================================
