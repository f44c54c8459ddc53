---------------------------- MODULE ResultWriter ----------------------------
(***************************************************************************)
(* What a run of the benchmark does to the result files, as the reader of  *)
(* those files sees it: at most one file is written by a run, from an      *)
(* empty file (open truncates) through a partial one to a complete one,    *)
(* and the run may end at any point in between.                            *)
(***************************************************************************)
CONSTANTS Paths,    \* the files a run may write
          NoPath    \* no file is being written

VARIABLES results,  \* path -> "absent", "partial" or "complete"
          writing   \* the file the run has open

vars == <<results, writing>>

Content == {"absent", "partial", "complete"}

Init == results \in [Paths -> Content] /\ writing = NoPath

Open(p) ==
  /\ writing = NoPath
  /\ writing' = p
  /\ results' = [results EXCEPT ![p] = "partial"]

(* The footer of the JSON document is written last.                        *)
Finish(p) ==
  /\ writing = p
  /\ writing' = NoPath
  /\ results' = [results EXCEPT ![p] = "complete"]

Abandon ==
  /\ writing # NoPath
  /\ writing' = NoPath
  /\ UNCHANGED results

Next == (\E p \in Paths : Open(p) \/ Finish(p)) \/ Abandon

Spec == Init /\ [][Next]_vars
=============================================================================
