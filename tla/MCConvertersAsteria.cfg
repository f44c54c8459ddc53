CONSTANTS
  num_sig_bits = 7
  exp_mask = 63
  Methods = {"asteria"}
  Arguments <- MCArguments
  NoValue = NoValue
  NoText = NoText
  Garbage = {0, 1, 100, 32767}
  uscale_bits = 15
  pow10Tab <- MCpow10Tab
  DOUBLE_POW5_INV_BITCOUNT = 24
  DOUBLE_POW5_BITCOUNT = 24
  DOUBLE_POW5_INV_SPLIT <- MCDOUBLE_POW5_INV_SPLIT
  DOUBLE_POW5_SPLIT <- MCDOUBLE_POW5_SPLIT
  pow5_word = 12
  max_pow5_tested = 3
  max_pow2_tested = 15
  max_digits = 6
  kDiySignificandSize = 15
  kCachedPowers_F <- MCkCachedPowers_F
  kCachedPowers_E <- MCkCachedPowers_E
  cached_min <- MCcached_min
  cached_step = 1
  alpha <- MCalpha
  log10_2_num = 30103
  log10_2_den = 100000
  kPow10_size = 2
  carrier_bits = 16
  cache <- MCcache
  fmt_bits = 16
  fmt_kappa = 1
  base_significands <- MCbase_significands
  min_k <- MCmin_k
  compression_ratio = 7
  left_endpoint_lower = 2
  left_endpoint_upper = 3
  tie_lower <- MCtie_lower
  tie_upper <- MCtie_upper
  magic_shift = 16
  power_8 <- MCpower_8
  mod_inv <- MCmod_inv
  zmij_bits = 15
  extra_shift = 4
  biased_half = 16386
  max_digits10 = 4
  pow10_significands <- MCpow10_significands
  xjb_bits = 15
  offset = 4
  c4 = 16386
  max_dec_sig_len = 4
  smallest <- MCsmallest
  pow10_double <- MCpow10_double
  yy_bits = 15
  yy_digits = 3
  pow10_sig_table <- MCpow10_significands
  kSignificandSize = 15
  kMinimalTargetExponent <- MCkMinimalTargetExponent
  decimal_in_shortest_low <- MCdecimal_in_shortest_low
  decimal_in_shortest_high = 6
  kBigitSize = 12
  kChunkSize = 14
  kBigitCapacity = 16
  mant_bits = 15
  point_digits <- MCpoint_digits
  least_exp <- MCleast_exp
  s_decimal_multipliers <- MCs_decimal_multipliers
  Texts <- MCTexts
  Layouts <- MCLayouts
  NoRead = NoRead
  kMaxExactDoubleIntegerDecimalDigits = 2
  kExactPowersOfTenSize = 4
  kMaxDecimalPower = 10
  kMinDecimalPower <- MCkMinDecimalPower
  kMaxSignificantDigits = 30
  kMaxSignificantDecimalDigits = 32
  kDecimalPowers_F <- MCkDecimalPowers_F0
  kDecimalPowers_E <- MCkDecimalPowers_E0
  kMinDecimalExponent <- MCkMinDecimalExponent
  kDecimalExponentDistance = 3
SPECIFICATION Spec
INVARIANT AsteriaReadsBack
