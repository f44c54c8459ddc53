----------------------------- MODULE MCPipeline -----------------------------
(***************************************************************************)
(* Two result files: the one at hand, and one whose name comes before or   *)
(* after it.                                                               *)
(***************************************************************************)
EXTENDS Pipeline
=============================================================================
