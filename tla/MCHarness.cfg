\* Three methods, two digit counts, command lines of up to four arguments.
CONSTANTS
  Methods = {1, 2, 3}
  Null = 2
  max_digits = 2
  num_doubles_per_digit = 2
  FilterKeeps = {3}
  CommandLines <- MCCommandLines
  NoPath = NoPath
SPECIFICATION Spec
INVARIANTS
  TypeOK
  ArgsKept
  MeasuredVerified
  DigitsMeasured
  ExitCodeTold
PROPERTIES
  OldResultKept
  ImplementsWriter
  Terminates
CHECK_DEADLOCK FALSE
