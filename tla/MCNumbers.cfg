\* A 7-bit generator and a 14-bit format.
CONSTANTS
  num_sig_bits = 8
  exp_mask = 31
  half_bits = 7
  multiplier = 61
  increment = 53
  cases <- MCCases
  num_random_cases = 60
  max_digits = 4
  num_doubles_per_digit = 15
  NoValue = NoValue
SPECIFICATION Spec
INVARIANTS
  TypeOK
  EvenOnly
  DigitsFit
CHECK_DEADLOCK FALSE
