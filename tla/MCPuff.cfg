\* 3-digit bigits, 11-bit significands.
CONSTANTS
  num_sig_bits = 10
  exp_mask = 63
  bigit_digits = 3
  left_bits = 9
  precision = 5
  Garbage = {0, 7}
  Arguments <- MCArguments
  NoValue = NoValue
  Weights <- MCWeights
SPECIFICATION Spec
INVARIANTS
  TypeOK
  Exact
  ReadsBack
  RoundedToEven
