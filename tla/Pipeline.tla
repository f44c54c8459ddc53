------------------------------ MODULE Pipeline ------------------------------
(***************************************************************************)
(* The results directory and the programs that share it: `make             *)
(* run-benchmark` (CMakeLists.txt), which runs the benchmark and, if that  *)
(* succeeds, generate-html.py --all; and generate-html.py started by hand. *)
(* What the benchmark does to its JSON file is ResultWriter, which Harness *)
(* implements.                                                             *)
(*                                                                         *)
(* Two versions of a report matter: one rendered from what the JSON file   *)
(* holds now and one rendered from what it held before.  Of the            *)
(* modification times, only what is_stale compares is kept.  They are      *)
(* taken to be different when the writes are: the file systems in question *)
(* count nanoseconds.                                                      *)
(***************************************************************************)
EXTENDS Integers, FiniteSets

CONSTANTS
  Results,        \* the result files, numbered in the order of their names
  NoPath,         \* no file
  Overlap         \* whether a command may start before the last one has ended

ASSUME ResultsAssumption ==
  /\ Results \subseteq Nat /\ IsFiniteSet(Results)
  /\ NoPath \notin Results
  /\ Overlap \in BOOLEAN

(* Who runs generate-html.py. *)
Generators == {"make", "hand"}

Options == [inputs : SUBSET Results, all : BOOLEAN, force : BOOLEAN,
            no_index : BOOLEAN, index_only : BOOLEAN]

(* GENERATE_HTML *)
MakeOptions == [inputs |-> {}, all |-> TRUE, force |-> FALSE,
                no_index |-> FALSE, index_only |-> FALSE]

VARIABLES
  results, writing, \* the JSON files, and the one being written
  html,             \* "absent", "truncated", "current" or "old"
  newer,            \* file -> its JSON was modified after its HTML
  index,            \* the entries of index.html, NoIndex while it is not whole
  make, job,        \* what make is doing, and for which result file
  pc,               \* generator -> where in main() it is
  options,          \* generator -> its command line
  targets,          \* generator -> what is left of main()'s targets
  src_path,         \* generator -> the file it is at
  fresh,            \* generator -> what it has read is still in that file
  entries           \* generator -> the index entries collected

pages == <<html, newer, index>>
gens  == <<pc, options, targets, src_path, fresh, entries>>
maker == <<make, job>>
vars  == <<results, writing, pages, maker, gens>>

NoIndex == {-1}

Writer == INSTANCE ResultWriter WITH Paths <- Results

Ended  == {"done", "failed", "killed"}
Stages == {"idle", "loop", "render", "page", "index", "means", "write"} \cup Ended
Quiet(p) == pc[p] = "idle"

-----------------------------------------------------------------------------
(* A fresh checkout: some results with their reports, whose modification   *)
(* times are those of the checkout, in any order.                          *)
Init ==
  /\ results \in [Results -> {"absent", "complete"}] /\ writing = NoPath
  /\ html = [f \in Results |-> IF results[f] = "complete" THEN "current"
                                                        ELSE "absent"]
  /\ newer \in [Results -> BOOLEAN]
  /\ index = {f \in Results : results[f] = "complete"}
  /\ make = "idle" /\ job = NoPath
  /\ pc = [p \in Generators |-> "idle"]
  /\ options = [p \in Generators |-> MakeOptions]
  /\ targets = [p \in Generators |-> {}]
  /\ src_path = [p \in Generators |-> NoPath]
  /\ fresh = [p \in Generators |-> FALSE]
  /\ entries = [p \in Generators |-> {}]

(* add_benchmark_target: dtoa-benchmark first.  The commit decides which   *)
(* file it writes.                                                         *)
StartMake(f) ==
  /\ make = "idle"
  /\ Overlap \/ Quiet("hand")
  /\ make' = "bench" /\ job' = f
  /\ UNCHANGED <<results, writing, pages, gens>>

(* Whatever has been made of the JSON file so far is old from now on.      *)
JsonModified(f) ==
  /\ newer' = [newer EXCEPT ![f] = TRUE]
  /\ html' = [html EXCEPT ![f] = IF @ = "current" THEN "old" ELSE @]
  /\ fresh' = [p \in Generators |-> fresh[p] /\ src_path[p] # f]
  /\ UNCHANGED <<index, job, pc, options, targets, src_path, entries>>

BenchOpen ==
  /\ make = "bench"
  /\ Writer!Open(job)
  /\ JsonModified(job)
  /\ UNCHANGED make

BenchFinish ==
  /\ make = "bench"
  /\ Writer!Finish(job)
  /\ JsonModified(job)
  /\ make' = "html"

(* A method that fails verification, an argument nobody knows, an          *)
(* interrupt: make stops at the command that fails.                        *)
BenchFail ==
  /\ make = "bench"
  /\ IF writing # NoPath THEN Writer!Abandon ELSE UNCHANGED <<results, writing>>
  /\ make' = "idle"
  /\ UNCHANGED <<pages, job, gens>>

-----------------------------------------------------------------------------
(* generate-html.py: main() up to its loop.                                *)
Globbed == {f \in Results : results[f] # "absent"}

Start(p, o) ==
  /\ Quiet(p)
  /\ pc' = [pc EXCEPT ![p] = "loop"]
  /\ options' = [options EXCEPT ![p] = o]
  /\ targets' = [targets EXCEPT ![p] = IF o.index_only THEN {}
                                       ELSE IF o.all THEN Globbed ELSE o.inputs]
  /\ entries' = [entries EXCEPT ![p] = {}]
  /\ UNCHANGED <<results, writing, pages, maker, src_path, fresh>>

MakeGenerates == make = "html" /\ Start("make", MakeOptions)

HandGenerates ==
  /\ Overlap \/ make = "idle"
  /\ \E o \in Options :
       /\ o.all \/ o.index_only \/ o.inputs # {}
       /\ Start("hand", o)

(* f is the next of p's targets. *)
Next1(p, f) == f \in targets[p] /\ \A g \in targets[p] : f <= g

(* Mutants of is_stale: only a missing page is stale; the times swapped. *)
is_missing(f) == html[f] = "absent"
is_stale_swapped(f) == html[f] = "absent" \/ ~newer[f]

(* True if the matching .html is missing or older than the source.         *)
is_stale(f) == html[f] = "absent" \/ newer[f]

(* Mutant of ToDo: --force is ignored. *)
ToDoUnforced(p, f) == results[f] # "absent" /\ is_stale(f)

ToDo(p, f) == results[f] # "absent" /\ (options[p].force \/ is_stale(f))

(* Mutant of Skip: the loop does not advance. *)
SkipStuck(p) ==
  /\ pc[p] = "loop"
  /\ \E f \in Results : Next1(p, f) /\ ~ToDo(p, f)
  /\ UNCHANGED vars

Skip(p) ==
  /\ pc[p] = "loop"
  /\ \E f \in Results :
       /\ Next1(p, f)
       /\ ~ToDo(p, f)
       /\ targets' = [targets EXCEPT ![p] = @ \ {f}]
  /\ UNCHANGED <<results, writing, pages, maker, pc, options, src_path, fresh,
                 entries>>

(* render_page reads the JSON; json.load raises on one that is not whole,  *)
(* and nobody catches it.                                                  *)
Read(p) ==
  /\ pc[p] = "loop"
  /\ \E f \in Results :
       /\ Next1(p, f)
       /\ ToDo(p, f)
       /\ IF results[f] = "complete"
            THEN /\ pc' = [pc EXCEPT ![p] = "render"]
                 /\ src_path' = [src_path EXCEPT ![p] = f]
                 /\ fresh' = [fresh EXCEPT ![p] = TRUE]
            ELSE /\ pc' = [pc EXCEPT ![p] = "failed"]
                 /\ UNCHANGED <<src_path, fresh>>
  /\ UNCHANGED <<results, writing, pages, maker, options, targets, entries>>

(* write_text truncates the page, and then writes it. *)
SetPage(f, state) ==
  /\ html' = [html EXCEPT ![f] = state]
  /\ newer' = [newer EXCEPT ![f] = FALSE]
  /\ UNCHANGED index

TruncatePage(p) ==
  /\ pc[p] = "render"
  /\ pc' = [pc EXCEPT ![p] = "page"]
  /\ SetPage(src_path[p], "truncated")
  /\ UNCHANGED <<results, writing, maker, options, targets, src_path, fresh,
                 entries>>

(* Mutant of WritePage: the page is left open. *)
WritePageOpen(p) ==
  /\ pc[p] = "page"
  /\ pc' = [pc EXCEPT ![p] = "loop"]
  /\ SetPage(src_path[p], IF fresh[p] THEN "current" ELSE "old")
  /\ targets' = [targets EXCEPT ![p] = @ \ {src_path[p]}]
  /\ UNCHANGED <<results, writing, maker, options, src_path, fresh, entries>>

WritePage(p) ==
  /\ pc[p] = "page"
  /\ pc' = [pc EXCEPT ![p] = "loop"]
  /\ SetPage(src_path[p], IF fresh[p] THEN "current" ELSE "old")
  /\ targets' = [targets EXCEPT ![p] = @ \ {src_path[p]}]
  /\ src_path' = [src_path EXCEPT ![p] = NoPath]
  /\ fresh' = [fresh EXCEPT ![p] = FALSE]
  /\ UNCHANGED <<results, writing, maker, options, entries>>

(* Mutant of EndLoop: the index is made of the targets instead of the       *)
(* directory.                                                              *)
EndLoopTargets(p) ==
  /\ pc[p] = "loop"
  /\ targets[p] = {}
  /\ pc' = [pc EXCEPT ![p] = IF options[p].no_index THEN "done" ELSE "index"]
  /\ targets' = [targets EXCEPT ![p] = options[p].inputs]
  /\ UNCHANGED <<results, writing, pages, maker, options, src_path, fresh,
                 entries>>

EndLoop(p) ==
  /\ pc[p] = "loop"
  /\ targets[p] = {}
  /\ IF options[p].no_index
       THEN pc' = [pc EXCEPT ![p] = "done"] /\ UNCHANGED targets
       ELSE /\ pc' = [pc EXCEPT ![p] = "index"]
            /\ targets' = [targets EXCEPT ![p] = Globbed]
  /\ UNCHANGED <<results, writing, pages, maker, options, src_path, fresh,
                 entries>>

(* collect_index_entries reads every file once for its context, passing    *)
(* over those it cannot read, ...                                          *)
CollectEntry(p) ==
  /\ pc[p] = "index"
  /\ \E f \in Results :
       /\ Next1(p, f)
       /\ IF results[f] = "complete"
            THEN /\ pc' = [pc EXCEPT ![p] = "means"]
                 /\ src_path' = [src_path EXCEPT ![p] = f]
                 /\ UNCHANGED targets
            ELSE /\ targets' = [targets EXCEPT ![p] = @ \ {f}]
                 /\ UNCHANGED <<pc, src_path>>
  /\ UNCHANGED <<results, writing, pages, maker, options, fresh, entries>>

(* ... and once more for its rows, where it raises.                        *)
CollectMeans(p) ==
  /\ pc[p] = "means"
  /\ IF results[src_path[p]] = "complete"
       THEN /\ pc' = [pc EXCEPT ![p] = "index"]
            /\ entries' = [entries EXCEPT ![p] = @ \cup {src_path[p]}]
            /\ targets' = [targets EXCEPT ![p] = @ \ {src_path[p]}]
       ELSE /\ pc' = [pc EXCEPT ![p] = "failed"]
            /\ UNCHANGED <<entries, targets>>
  /\ src_path' = [src_path EXCEPT ![p] = NoPath]
  /\ UNCHANGED <<results, writing, pages, maker, options, fresh>>

TruncateIndex(p) ==
  /\ pc[p] = "index"
  /\ targets[p] = {}
  /\ pc' = [pc EXCEPT ![p] = "write"]
  /\ index' = NoIndex
  /\ UNCHANGED <<results, writing, html, newer, maker, options, targets,
                 src_path, fresh, entries>>

WriteIndex(p) ==
  /\ pc[p] = "write"
  /\ pc' = [pc EXCEPT ![p] = "done"]
  /\ index' = entries[p]
  /\ UNCHANGED <<results, writing, html, newer, maker, options, targets,
                 src_path, fresh, entries>>

(* The user interrupts it, or the machine stops. *)
KillGenerator(p) ==
  /\ pc[p] \notin Ended \cup {"idle"}
  /\ pc' = [pc EXCEPT ![p] = "killed"]
  /\ src_path' = [src_path EXCEPT ![p] = NoPath]
  /\ fresh' = [fresh EXCEPT ![p] = FALSE]
  /\ UNCHANGED <<results, writing, pages, maker, options, targets, entries>>

(* Its exit ends the command it belongs to. *)
Exit(p) ==
  /\ pc[p] \in Ended
  /\ pc' = [pc EXCEPT ![p] = "idle"]
  /\ targets' = [targets EXCEPT ![p] = {}]
  /\ entries' = [entries EXCEPT ![p] = {}]
  /\ options' = [options EXCEPT ![p] = MakeOptions]
  /\ make' = IF p = "make" THEN "idle" ELSE make
  /\ UNCHANGED <<results, writing, pages, job, src_path, fresh>>

-----------------------------------------------------------------------------
Generate(p) ==
  \/ Skip(p) \/ Read(p) \/ TruncatePage(p) \/ WritePage(p) \/ EndLoop(p)
  \/ CollectEntry(p) \/ CollectMeans(p) \/ TruncateIndex(p) \/ WriteIndex(p)
  \/ Exit(p)

Benchmark == BenchOpen \/ BenchFinish \/ BenchFail

Next ==
  \/ \E f \in Results : StartMake(f)
  \/ Benchmark \/ MakeGenerates \/ HandGenerates
  \/ \E p \in Generators : Generate(p) \/ KillGenerator(p)

(* Programs that were started are given processor time; whether anybody    *)
(* starts or kills one is left open.                                       *)
Spec ==
  /\ Init /\ [][Next]_vars
  /\ WF_vars(Benchmark) /\ WF_vars(MakeGenerates)
  /\ \A p \in Generators : WF_vars(Generate(p))

-----------------------------------------------------------------------------
TypeOK ==
  /\ Writer!Content = {"absent", "partial", "complete"}
  /\ results \in [Results -> Writer!Content] /\ writing \in Results \cup {NoPath}
  /\ html \in [Results -> {"absent", "truncated", "current", "old"}]
  /\ newer \in [Results -> BOOLEAN]
  /\ index \subseteq Results \/ index = NoIndex
  /\ make \in {"idle", "bench", "html"} /\ job \in Results \cup {NoPath}
  /\ pc \in [Generators -> Stages]
  /\ options \in [Generators -> Options]
  /\ targets \in [Generators -> SUBSET Results]
  /\ entries \in [Generators -> SUBSET Results]
  /\ src_path \in [Generators -> Results \cup {NoPath}]
  /\ fresh \in [Generators -> BOOLEAN]
  /\ \A p \in Generators :
       /\ pc[p] \in {"render", "page", "means"} <=> src_path[p] # NoPath
       /\ pc[p] \in {"render", "page"} \/ ~fresh[p]

(* README.md: the results are "automatically converted to a self-contained *)
(* HTML report with the same base name": a make run-benchmark that         *)
(* succeeds leaves the report of what it measured, and an index that links *)
(* to it, whatever earlier runs were interrupted and wherever.             *)
MakeReports ==
  pc["make"] = "done" => html[job] = "current" /\ job \in index

(* The same of every make run-benchmark that is not interrupted.           *)
ConvertedAutomatically ==
  pc["make"] \in {"done", "failed"} => html[job] = "current"

(* A report that shows anything but what its JSON holds is recognized as   *)
(* stale, except while it is being written.                                *)
OldIsStale ==
  \A f \in Results :
    html[f] = "old" => is_stale(f) \/ \E p \in Generators : src_path[p] = f

(* --all, if it ends well, has made every report there is a report of what *)
(* its JSON holds, if it was not interrupted when it was last written;     *)
(* --force repairs that too.                                               *)
AllProcessed ==
  \A p \in Generators :
    pc[p] = "done" /\ options[p].all /\ ~options[p].index_only =>
      \A f \in Globbed :
        /\ results[f] = "complete"
        /\ html[f] = "current" \/ (html[f] = "truncated" /\ ~options[p].force)

(* The index that is written lists the results that are complete, be there *)
(* interrupted ones or not.                                                *)
IndexComplete ==
  \A p \in Generators :
    pc[p] = "done" /\ ~options[p].no_index =>
      index = {f \in Results : results[f] = "complete"}

(* Every command that is started comes back, with or without a report.     *)
CommandsEnd ==
  /\ make # "idle" ~> make = "idle"
  /\ ~Quiet("hand") ~> Quiet("hand")
=============================================================================
