CONSTANTS
  kBigitSize = 2
  kChunkSize = 3
  kBigitCapacity = 7
  Objects = {"a", "b"}
  Factors = {0, 1, 3, 7, 50}
  Shifts = {0, 1, 2, 3}
  Thirds <- MCThirds
  Decimals <- MCDecimals
  Limit = 64
  None = None
SPECIFICATION Spec
INVARIANT WellFormed
PROPERTY Exact
