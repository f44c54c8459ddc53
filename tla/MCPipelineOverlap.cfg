\* A command may start while another is running.
CONSTANTS
  Results = {1, 2}
  NoPath = NoPath
  Overlap = TRUE
SPECIFICATION Spec
INVARIANTS
  OldIsStale
