\* A 12-bit IEEE format, every value of it.
CONSTANTS
  num_sig_bits = 5
  exp_mask = 63
  word_bits = 13
  max_digits10 = 3
  buffer_size = 9
  log10_2_exp = 20
  log10_2_sig = 315653
  log10_3_over_4_sig <- MCarg_log10_3_over_4_sig
  log2_pow10_exp = 16
  log2_pow10_sig = 217707
  pow10_significands <- MCpow10_significands
  Arguments <- MCArguments
  NoValue = NoValue
  NoText = NoText
SPECIFICATION Spec
INVARIANTS
  TypeOK
  BufferFits
  BothInside
  ReadsBack
  NothingShorter
  NoOverflow
PROPERTIES
  Implements
  NearestTaken
