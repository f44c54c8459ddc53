\* One command at a time, interrupted anywhere.
CONSTANTS
  Results = {1, 2}
  NoPath = NoPath
  Overlap = FALSE
SPECIFICATION Spec
INVARIANTS
  ConvertedAutomatically
