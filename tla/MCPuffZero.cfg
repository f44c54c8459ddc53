\* Zero, of either sign: an element of bigits that nobody wrote is read.
CONSTANTS
  num_sig_bits = 10
  exp_mask = 63
  bigit_digits = 3
  left_bits = 9
  precision = 5
  Garbage = {0, 7}
  Arguments <- MCZeros
  NoValue = NoValue
  Weights <- MCWeights
SPECIFICATION Spec
INVARIANTS
  ReadsBack
