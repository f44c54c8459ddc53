# A verification project for dtoa-benchmark

dtoa-benchmark measures how fast different algorithms turn a `double` into
text. Its correctness has three layers: the converters (each must print a text
that reads back as the same number), the benchmark process (it must measure
what it has verified, and leave a result file that can be trusted), and the
results pipeline (`generate-html.py` must show what the result files hold).
This directory models the components of each layer in TLA+, checks small
instances with TLC, and proves the main safety properties with TLAPS for every
value of the constants.

All paths below are relative to the repository; `X.cc:n` is a line of it.

## Inventory

| Component | State | Operations | Hard about it |
|---|---|---|---|
| schubfach (`src/schubfach/`) | locals of one call, the caller's buffer | `dtoa`, `write`, `umul192_upper64_modified`, the table of powers of ten | exactness of truncated products, boundaries, logarithms, the irregular interval below a power of two, digits beyond the end of the text |
| uscale, ryu, dragonbox, fmt, zmij, xjb, yy, asteria | locals of one call, tables | one `dtoa` each | the same, each with other shortcuts: products without their lower half, powers recovered from a compressed table, biased ties, corrections of the last digit |
| milo (Grisu2) | locals of one call | `dtoa_milo` | promises to read back only; looks up a power of ten at an unbounded index |
| double-conversion, writing | locals, the digit buffer, two or three bignums | `ToShortest`: Grisu3, then bignums | Grisu3 must notice every number its error leaves open; leaves digits behind when it gives up |
| double-conversion, reading | locals, the digit buffer, two bignums | `StringToDouble`, which `verify()` trusts | one word of precision with a counted error, then bignums |
| `Bignum` of double-conversion | `bigits_`, `used_digits_`, `exponent_`, of objects that are used again without being cleared | assignments, multiplication, shifts, sum, difference, quotient digit, comparison | carries, clamping, gaps below the first bigit, what earlier calls left in the array |
| puff (`src/puff-test.cc`) | `decimal`: `bigits`, `num_bigits`, `fraction_start`; the text | constructor, `shift_left`, `shift_right`, `dtoa` | carries and borrows over an array that grows and shrinks at both ends; an element that is never written; ties |
| benchmark process (`src/benchmark.cc`) | `methods`, `argv`, registered benchmarks, two lazily built pools, the open result file | static registration, `main`, `verify`, `register_all`, the benchmark functions | link order, compaction of `argv` in place, lazy initialization, exits and interrupts with a half-written result |
| random numbers (`src/benchmark.cc:72-102,160-199`) | the generator's seed, the pool | `rng`, random cases of `verify`, `get_random_digit_data` | patterns in the low bits of a linear congruential generator, limiting digits after the check for infinity |
| results pipeline (`generate-html.py`, `CMakeLists.txt`) | JSON and HTML files and their times, the index | `make run-benchmark`, `main`, `is_stale`, `process`, `collect_index_entries` | two programs share a directory without a lock; partial files |
| counter formatting (`src/benchmark.cc:261-311`) | none | `format_counter` | SI prefix at 999..1000 |
| report rendering (`generate-html.py`) | none | `load_json`, `aggregate`, charts | pure functions |
| sprintf, ostringstream, to_chars, null | none | one library call | – |
| cache-pressure, cache-contention | timings | other `main`s over the same methods | size of the competitor array |

Interactions: converters register themselves with the benchmark process by
static objects and are called through `dtoa_fun`; the process reads their text
back with double-conversion; it hands benchmarks to Google Benchmark, which
calls back into the benchmark functions; its JSON file is the only channel to
`generate-html.py`; `make` runs one after the other.

PROJECT.json lists every hazard at its line, with the properties that
watch it, or why none does.

## Modules

| Module | Models | |
|---|---|---|
| `BinaryFloat` | the binary format, exact comparison of `n * 2^q` with `d * 10^k`, the rounding interval | shared by all number modules |
| `DtoaContract` | the abstract converter: a call is answered by a shortest, closest text that reads back (README.md:18-21, schubfach.h:10) | abstract specification |
| `Schubfach` | `schubfach.cc`, an action per part of `dtoa` between two early returns | implements `DtoaContract` |
| `Uscale`, `Ryu`, `Grisu2`, `Dragonbox`, `Fmt`, `Zmij`, `Xjb`, `Yy`, `Asteria` | one vendored converter each, as operators from a value to a text | |
| `DoubleConversion` | `ToShortest`: Grisu3, its rejection, `BignumDtoa`, both layouts | uses `DiyFp`, `Bignum` |
| `Strtod` | `StringToDouble` and `Strtod`, from a sequence of characters to a value | uses `DiyFp`, `Bignum` |
| `DiyFp`, `DecimalText` | double-conversion's one-word number; digits without their trailing zeros | shared |
| `Converters` | a caller that has a converter write a value and the reader read what was written | composes the ten converters and the reader |
| `Bignum` | the methods of `Bignum`, as operators on its representation | |
| `Bignums` | any sequence of calls on a few objects | implements `Arithmetic` |
| `Arithmetic` | what the calls promise: an object is a number | abstract specification |
| `Puff` | `puff-test.cc`, an action per loop iteration | checked against the exact value and the rounding interval |
| `Numbers` | the numbers `benchmark.cc` draws, an action per draw, per verified case and per limited number | |
| `ResultWriter` | what a run does to the result files, as a reader sees it | abstract specification |
| `Harness` | one process of `benchmark.cc` from the static initializers to its exit | implements `ResultWriter` |
| `Pipeline` | `make run-benchmark`, `generate-html.py` started by make or by hand | composes `ResultWriter` with two generators |
| `MC*` | the instances TLC checks | |
| `NaturalFacts` | induction over numbers, powers, quotients | lemmas every number proof cites |
| `BinaryFloatProofs` | lemmas on the comparisons and the roundings of `BinaryFloat`, and when a decimal is the best one for a value | what the proofs about converters share |
| `SchubfachProofs` | the theorems about `Schubfach`, and that it implements `DtoaContract` | |
| `ConvertersProofs` | the theorems about the vendored converters in `Converters` | |
| `HarnessProofs`, `NumbersProofs`, `PipelineProofs`, `PuffProofs` | the theorems about the module named | |

Definitions keep the names of the functions, constants and locals they
translate. Definitions that begin with "Mutant of" in their comment are faulty
variants of the definition that follows them; no specification uses them.
Substituted for the original, each makes one property fail, which shows that
the property depends on the code it is about.

### How the state corresponds to the code

* **Schubfach.** The widths are constants: `num_sig_bits` (52), `exp_mask`
  (0x7ff), `word_bits` (64), `max_digits10` (17), the fixed-point logarithms
  and the table. Integers are unbounded in TLA+; that no 64-bit operation wraps
  is the property `NoOverflow`, and where the code relies on truncation
  (the upper half of a product) the truncation is modelled. `reach` is one past
  the highest byte of the buffer written, the digits later removed included.
* **Converters.** The other converters keep nothing between calls, share
  nothing, and are never interrupted, so that a call is one action: `Call`
  chooses value and method, one `...Writes` action per method gives the text.
  A text is its sign, its digits and the decimal exponent of the first digit
  (or a word for zero, infinity and NaN); what a layout does to the digits
  (padding with zeros) is part of it, where the point and the exponent stand is
  not. Products of words are exact pairs of words, truncated, rounded and
  wrapped where the code does it. `FromChars` is the reader: it gets a text as
  characters, in each layout the methods use, and goes through `StringToIeee`
  character by character. `Snprintf` gives it texts that no converter wrote.
* **Bignums.** An object is its array, the number of bigits in use and the
  exponent; the whole array is kept from call to call, since the methods read
  beyond `used_digits_` and rely on the zeros there.
  `kBigitSize` and `kChunkSize` are constants; a chunk has a bit more than two
  bigits need, as the code's 32 bits have over 28.
* **Puff.** `bigits` is the written part of the array; reading behind it is a
  choice from `Garbage`. `frexp` is modelled by what it does. The layout
  (moving digits to make room for the point) is left out, the padding with
  zeros is not, because it changes the digits.
* **Harness.** A method is verified as a whole: `broken` is the set of methods
  for which `verify_value` throws on some value, which is fixed since the
  generator's seed is. Google Benchmark is external: it removes the arguments
  it knows, runs the selected benchmarks in their order, and writes the file.
  What is measured is recorded as the digit limits of the numbers converted.
* **Numbers.** `verified` is the list of numbers `verify()` tries a method on:
  first the fixed `cases[]` (0, 0.1, ..., thirds, `min()`, `max()`,
  `denorm_min()`), then the random ones. Every method but `null` gets the same
  list, so the model goes through it once; the texts some cases expect only give
  warnings and are left out. A double is two calls of the generator. `snprintf`
  and the reader are taken to round correctly; for the reader that is `ReadsNearest` of
  `MCConverters`.
* **Pipeline.** `html[f]` says whether a report shows what the JSON holds now
  (`current`) or held before (`old`); `newer[f]` is the only thing kept of the
  modification times, the comparison `is_stale` makes. Writing a file is two
  steps, truncation and completion. Times of different writes are taken to be
  different, as nanosecond clocks make them.

## Runs

| Run | Distinct states | Shows |
|---|---|---|
| `mc_schubfach` | 22,685 | every value of a 12-bit format |
| `mc_converters` | 262,953 | ten converters on every finite value of a 14-bit format; the reader on all they write and on texts at midpoints |
| `mc_bignum` | 253,976 | every sequence of calls on two bignums up to 64 |
| `mc_puff` | 133,578 | 15,360 values at 13 exponents |
| `mc_numbers` | 258 | the fixed cases and almost one period of the generator |
| `mc_harness` | 410,328 | every link order of three methods, every set of broken ones, 94 command lines |
| `mc_pipeline` | 313,601 | two results, one command at a time |
| `numbers_inf`, `puff_zero`, `pipeline_overlap`, `pipeline_blocked`, `asteria_power` | – | five disagreements, below |

**Bounds, and why they are enough.**
*Schubfach* runs on a format with 1 + 6 + 5 bits: all 4,096 values are
arguments, so every boundary case of such a format occurs: subnormals, the
smallest normal number, powers of two with a narrow gap below them, small
integers, candidates on a boundary, ties, specials. The word has 13 bits, the
narrowest that holds ten times a shifted significand, and the table two halves
of 12 bits each, generated as overestimates like the code's. `buffer_size` is
9: sign, 3 digits, point, `e`, sign, two digits.

*Converters* run on a format with 1 + 6 + 7 bits, the narrowest in which zmij,
xjb and yy see significands of two decimal lengths, as they do in the code.
The words have 15 bits, the widest whose products TLC's integers hold;
dragonbox and fmt need 16, because they shift a significand by nine bits.
Tables are computed in `MCConverters` the way their owners computed them: cut
(zmij, yy), rounded up (uscale, xjb, dragonbox), or to nearest (milo,
double-conversion), or in pairs of 12-bit words (ryu). Constants that the sources derive from the format (offsets,
ranges in which a tie can occur, inverses, the margin of yy's fast path) follow
the same formulas. Fmt keeps every seventh power, since 5^6 is the last one in
a word; its table of two-word powers of ten of eight digits has one here, of
four digits. All values are arguments, the negative ones with three
significands only, since the sign takes part in nothing else. One value is an
exception to "shortest": the smallest double of this format, 7.3e-12, has
1e-11 in its interval, a power of ten one place above its own digit, which the
smallest double of the code, 4.9e-324, has not.
The *reader* has a table from 10^-17 to 10^10 in steps of three where the
code's has steps of eight; doubles of up to two digits and powers up to 10^3
take the way over exact doubles; numbers of five digits may or may not fit in a
word; 30 digits are kept, and the longest midpoint has 29. Its texts are
everything the converters write, and at every exponent, for seven
significands, the upper midpoint: exact, a little less, a little more, more by
a digit so far behind that it is beyond what is kept, and rounded down and up to two to
five digits; and the powers of ten at which it gives infinity and zero. The
estimate is refused and the bignums decide on 8,275 of these texts, exact
midpoints included.

*Bignums* has bigits of two bits and chunks of three, so that small numbers
have several bigits and every carry, borrow and clamping happens; two objects,
in any state a sequence of calls leaves them in, and values below 64. The array has 7
bigits, which these values do not fill; the guards of the calls are the
conditions under which the program makes them.

*Puff* has 3-digit bigits and 11-bit significands: as with 9 digits and 53
bits, a significand takes two bigits at most; the loop to the left runs zero to
two times and the one to the right zero to seven times, with and without a
rest; the longest decimals have nine bigits, and the first one is removed
several times on the way.
*Numbers* has a 7-bit generator with an odd multiplier and an odd increment
and the full period, like the code's 32-bit one, and a 14-bit format; its
constants were chosen so that a special value is drawn again and a number next
to the largest one meets the one-digit series. The fixed cases are those of
`verify()`, rounded to that format; as in double, those with odd significands
are the thirds, `max()`, `denorm_min()` and a part of the decimals. (The generator of the code
gives 13 infinities among the 100,000 one-digit numbers and 2 among the
two-digit ones.)
*Harness* has three methods (`null` in the middle of the order), two digit
counts of two numbers, every command line of at most two arguments and three
longer ones with arguments repeated and interleaved.
*Pipeline* has two result files: the one at hand, and one whose name sorts
before or after it.

**Fairness.** `Harness` assumes weak fairness of the process's own steps: it
is single-threaded and never waits. `Pipeline` assumes it of every program that
was started. Nobody is forced to start or to interrupt anything. The other
modules state safety only.

**Deadlock** is checked except in `Harness` and `Numbers`, which model a
process, respectively a computation, that ends.

### What the properties say

* `Implements` (Schubfach): the steps of `dtoa` are steps of `DtoaContract`
  or invisible to the caller. It covers the text as a whole: sign, digits
  without needless zeros, exponent, shortest and closest. `ReadsBack`,
  `BothInside`, `NothingShorter` and `NearestTaken` say why, at the points of
  the code where it is decided. `schubfach.cc:791` treats the lower boundary of
  the smallest normal number as irregular, which makes the interval a quarter
  too short. That is harmless, and the properties make no exception for it: no
  candidate that reads back lies in the quarter left out
  (`CandidatesAssumption`, evaluated for the instance; for a double it is one
  number).
* `UscaleShortest`, `RyuShortest`, `DragonboxShortest` (with fmt),
  `DoubleConversionShortest`, `ZmijShortest`, `XjbShortest`, `YyShortest`:
  each text is one `DtoaContract` accepts. Together they say that these methods
  and schubfach write the same digits for every value but ties.
* `ReadsNearest`: whatever text it is given, the reader returns the nearest
  double, the even one of two, infinity or zero beyond the ends.
* `Verified`: what `verify()` tests, for every method and value instead of a
  sample: all of the text is read, and it is read as the value. Milo is
  covered by this one, whatever its read past the end of `kPow10` gives;
  asteria is excepted at the powers of two.
* `Exact` (Bignums): each call changes the numbers the objects stand for as
  `Arithmetic` says, whatever earlier calls left behind. `WellFormed`: between two calls
  the highest bigit in use is not zero, and those not in use are.
* `Exact` (Puff): after every iteration the bigits are those of the
  significand times the power of two reached so far. `RoundedToEven`: the digits
  are the exact ones rounded half to even. It names one exception, `TailUnseen`:
  `has_nonzero` begins its search at `bigit_index + 1` although `bigit_index`
  is already the first bigit that is not in the buffer, so that a tie broken
  only by that bigit is rounded to even. The text still reads back.
* `EvenOnly` (Numbers): every double `verify()` draws has an even significand,
  because every call of the generator changes the parity of its state and the
  low word is always a second call. An odd significand is tried only where one
  of the fixed cases has it (1/3, `max()`, `denorm_min()`, ...): the code that
  excludes the boundary for odd significands is verified on a handful of
  values, and on no random one.
* `MeasuredVerified`, `OldResultKept`, `ExitCodeTold` (Harness): nothing is
  measured before everything is verified; an older result is overwritten only
  after all checks that can be made beforehand; the exit code tells which. Code
  0 also means that the benchmarks ran in the order of the names (`InOrder`), so
  that neither what is in the file nor its order depends on the link.
  `DigitsMeasured`: a series measures the numbers of its digit count, whichever
  benchmark generated them.
* `MakeReports`, `OldIsStale`, `AllProcessed`, `IndexComplete` (Pipeline):
  what a finished `make run-benchmark` and a finished `--all` guarantee, whatever
  was interrupted before. `AllProcessed` has to except a page whose writer was
  interrupted: it is newer than its JSON and counts as up to date until
  `--force`.

### Disagreements found

1. `puff_zero`: for 0.0 puff prints an element of `bigits` that was never
   written (puff-test.cc:108).
2. `numbers_inf`: the series for few digits contain infinities
   (benchmark.cc:193), although the numbers are drawn again until finite.
3. `pipeline_overlap`: a generator started by hand that overlaps with a
   benchmark leaves an old report which `is_stale` takes for up to date.
4. `pipeline_blocked`: the partial JSON of an interrupted run stops the
   automatic conversion of later results.
5. `asteria_power`: `put_DD` takes the interval of a power of two to be as wide
   below as above (ascii_numput.cpp:1236-1238) and writes texts that read as
   the number below it. The library does so for 232 of the 2,098 powers of two
   of a double; 2^-1019, for instance, becomes `1.780059086805761e-307`, which
   is the number below it.

Met on the way, not wrong or not stated anywhere as a promise:

* `CMakeLists.txt:36` disables the Grisu2 variants because "they don't
  guarantee correctness". They do not guarantee the shortest text; milo's texts
  read back (`Verified`).
* The assertion of bignum.cc:515 that both numbers have the same number of
  bigits can fail (dividend B^n, divisor B^n - 1, B the bigits' base); the
  estimate that follows is then zero and the result right (`Exact`).
* `StringToIeee` counts a dangling `e` or `e+` as read, so that the comparison
  of the lengths in `verify()` would not notice one.
* The cut of `TrimAndCut` for texts of more than 780 digits is not reachable
  from `StringToDouble`, which keeps 772.
* Some increments and clamps make no difference in the format checked here:
  zmij's clamp of `lo`, the correction of fmt's and dragonbox's left endpoint
  in the shorter interval. Whether the code needs them is not decided by these
  runs.
* The comment at cache-contention.cc:65 promises a uniform distribution across
  1-17 digits; a round formats the first 16 of the 68 values, which have one to
  four digits.

## Proofs

### Schubfach

`SchubfachProofs` proves every property `mc_schubfach` checks, for every format, table and set of arguments that satisfies the
assumptions of module `Schubfach`:

* `FormatAssumption`: positive widths.
* `PowersAssumption`: for the exponents that occur, `^` is multiplication
  repeated. The provers take `^` as a symbol; everything else they need of
  powers is proved from this.
* `TableAssumption`: the table has enough bits, each product it is used for is
  exactly rounded to odd. This is the numerical fact the author of the
  algorithm must establish.
* `LogAssumption`: the logarithms have enough bits. 10^k is at most the length
  of the interval, 10^(k+1) is more, and the boundaries are shifted by no more
  than the scale allows.
* `DigitsAssumption`, `WidthAssumption`, `BufferAssumption`: the digit count
  of `write` is right at powers of ten, `max_digits10` digits hold twenty
  times a significand, a word holds 256 times one, the buffer holds the sign,
  the digits, the point and the exponent.
* `CandidatesAssumption`: no candidate for the smallest normal number lies in
  the quarter of its interval that the code leaves out.

TLC evaluates all of them on the instance. All but the one on the table were
also evaluated outside TLC for the double itself.

The invariants are not inductive alone, since they compare locals with the
argument. The first strengthening, `IInv`, says what each local is at each
program point: the unpacked significand and exponent are those of the argument,
and the three scaled numbers are estimates of the argument and its boundaries.
From there the argument runs: an estimate rounded to odd compares with a
multiple of four exactly as the exact number does (`RoundToOddCompares`); 10^k
is no longer than the interval, so one of two neighbours is inside; if not
exactly one of them is, both are; ten times 10^k is longer than the interval,
so at most one multiple of ten is inside.

The refinement needs more: `DtoaContract` speaks of decimals of every exponent,
and of the text rather than the number. The second strengthening, `ContractInv`,
says that the decimal each of the three paths hands to `write` is `Best`: no
decimal with a larger exponent reads back, and none of the same exponent is
nearer unless its zeros are going to be taken away. The proof changes the
exponent of a comparison (`ScaleOnce`, `ScaleRoundTrips`), so that a coarser
decimal is a multiple of ten of the finer scale (`CoarserFromTens`); follows
the digits of `write` by induction over their positions (`WrittenDigitsAre`,
`StripZerosAre`, `TextDigits`); and concludes that the text is a shortest one
(`BestIsShortest`). `ImplementsContract` then maps each step of `dtoa` to a
step of `DtoaContract` or to a stutter. `AlwaysBufferFits` follows `reach`,
the digits that are written and removed again included; `AlwaysNoOverflow`
bounds each word (`SmallPowersOfTwo`, `ScaledFits`).

### Uscale

`ConvertersProofs` proves `UscaleShortest` and `RyuShortest`. The first: for every format, word, table and
logarithm that satisfies the assumptions of module `Converters` the text
`uscale_short` writes reads back, no text with fewer digits does, and none of
as many digits is closer. The one exception is the smallest double of the
format, for which only reading back is promised: in a small format it may have
a one-digit decimal one place above its own digit, which `trimZeros` prefers to
a closer one.

What a converter has to show is stated once, in `BinaryFloatProofs`: a decimal
`d * 10^k` is the best one for a value if `10^k` is about the length of the
rounding interval (`Framed`) and `d`, in the interval, is either a multiple of
ten (`BestTen`) or the nearest where no multiple of ten is inside
(`BestOther`). `SchubfachProofs` and `ConvertersProofs` both rest on it. For
uscale the argument is:

* `unpack64` moves the significand to the top of the word, and the end points
  `Short` computes are the midpoints to the neighbours (`UnpackIs`,
  `IntervalIs`).
* A product rounded to odd compares with the integers as the exact number does,
  so that the floors and ceilings are exact (`EstimateCompares`,
  `BoundsExact`), and `uround` is the nearest integer, half to even
  (`RoundIsNear`).
* `trimZeros` takes away all zeros, by the halves of its binary search
  (`CutStep`, `TrimZerosIs`). So the answer is a multiple of ten where one is
  inside and otherwise the nearest (`UscaleBest`).
* `countDigits` is the number of digits (`CountDigitsIs`), so that the exponent
  of the text is that of the decimal (`TextIs`), and the best decimal makes the
  text the contract wants (`TextAcceptable`).
* The text is written in one step and stays until the call returns
  (`UscaleInv`).

The assumptions are evaluated by TLC on the instance: `UscaleWidthAssumption`
(a word holds twenty times a significand), `UscalePowersAssumption`,
`UscaleTableAssumption` (each product with the table is exactly rounded to
odd), `UscaleLogAssumption` (10^k is at most the length of the interval,
10^(k+1) is more), `UscaleCountAssumption` (`log10Pow2` is right for the lengths
of words) and `UscaleNineAssumption` (where 10 is inside, 9 is not closer). For
the double, the ones on the logarithm, the digit count and the nine were also
evaluated outside TLC for every exponent, the one on the table, the code's
`pow10.h`, for 200,000 random values.

### Ryu

`RyuShortest` is the same statement about `d2s_buffered_n`, and its proof in
`ConvertersProofs` rests on the same lemmas on the best decimal; what differs
is how ryu gets there. Let the three numbers `vr`, `vp` and `vm` be the value
and the two ends of its interval at the scale `10^e10`, rounded down:

* Each of them is the exact floor (`ProductIs`), and the tests for powers of
  two and five decide whether what was cut off was zero: an odd number that
  divides `y * 2^n` divides `y` (`OddDivides`), so that the factors of two and
  five can be looked at separately (`DownExact`, `FlagsDown`, `FlagsUp`). Hence the
  interval at this scale is read off `vm`, `vp`, `vmIsTrailingZeros` and the
  parity of the significand (`RightFlags`, `ScaleIs`).
* A level is what is left once `j` digits are removed. Every turn of every loop leads
  from a level to the next (`CutLevel`), and the loops end at the first one
  whose condition fails (`Removing`, `WideLoop`, `ZerosLoop`). General or common
  case, two digits at a time or one, they end where something is in the
  interval and nothing would be with one digit more removed (`Stopped`,
  `GeneralIs`, `CommonIs`).
* `lastRemovedDigit` and `vrIsTrailingZeros` say on which side of the half the
  value is (`LevelRounds`). Rounded by them, and up if `vr` itself is not
  inside, the digits are in the interval (`OutInside`) and the nearest there
  (`OutClosest`).
* The scale is at most two digits finer than the exponent uscale looks for a
  candidate in (`RyuScaled`). If the loops end at that exponent, no multiple of
  ten is inside and the nearest is the best (`PlainGood`); if they end beyond
  it, a multiple of ten is (`ShiftedGood`); if they have nothing to remove, the
  value is that integer (`ExactOut`).
* Small integers are exact, and no other integer is in their interval
  (`SmallIntInside`, `SmallIntBest`).

The assumptions, besides uscale's on the length of the interval and the nine,
which do not depend on the algorithm: `RyuWidthAssumption` (the
longest candidate holds twenty times a significand), `RyuPowersAssumption`,
`RyuTableAssumption` (each product with the table is the exact floor),
`RyuLogAssumption` (the scale is at most two digits too fine) and
`RyuFiveAssumption` (beyond `q = 21`, where the code no longer tests, no end of
an interval that matters is a multiple of a larger power of five). TLC
evaluates them on the instance. Of the last one the code says "I think 21 is also safe" (d2s.c:141). For the double it was
decided outside TLC, by enumerating the multiples of `5^(q+1)` among the ends of
all intervals: there are nine, and none belongs to an end the code would have
to notice. The logarithms, the digits and the small integers were evaluated
for every exponent, the table, the code's `d2s_full_table.h`, on 950,000
products over all exponents.

### Induction

The library's induction theorems take a predicate as a parameter, which the
provers here cannot instantiate. `NaturalFacts` therefore states induction
with a set in the place of the predicate: `LeastNatural` and `SetInduction`
follow from the well-foundedness of `<`, and from them `IntervalInduction`,
`GreatestNatural`, and that a function defined by recursion over numbers
exists and satisfies its equation (`Recursion`, `RecursionOnNat`). On these
rest the laws of powers and of quotients, and Horner's rule: what a sequence of
digits is worth, and the part of it behind a position (`HornerTail`,
`HornerBound`). This is what makes statements about digits, folds and long
division provable here.

### Harness

`HarnessProofs` proves `MeasuredVerified`, `OldResultKept`, `TypeOK`,
`ArgsKept`, `DigitsMeasured`, `ExitCodeTold` and that `Harness` implements
`ResultWriter`, for every set of methods, link order and command line. The
invariant follows the compaction of `argv` (what has been read was either ours
or is kept, what has not been read is untouched) and the prefix of verified
methods. For `ArgsKept` the kept prefix must be what a filter leaves of the
arguments read so far; since the filter is a fold, its value at each position
is stated by a function over the positions (`KeptUpTo`), extended by one in
each iteration. A second invariant, `SInv`, says that the methods are listed
once each, that the registered benchmarks are those `register_all` makes, that
the pools hold a block of numbers for every digit count once they are there,
and that the benchmarks run so far are a prefix of the selected ones. Slices of
the pool are found by quotient and remainder (`Quotient`, `Product`). The order
is a third one, `OrderInv`: the methods are sorted when the benchmarks are
registered, and since the quotient grows with the place (`QuotientGrows`), the
benchmarks are in the order of the methods.

### Puff

`PuffProofs` proves `TypeOK` and `Exact` for every width of bigit and every
argument, with an arbitrary set of `Weights`: after any number of iterations
the bigits are the digits of `v * 2^i`, in front of the point and behind it.
`Exact` is not inductive: a shift to the right drops a first bigit and appends
one at the end, which is right only if nothing was left behind the end before.
The invariant `ShiftInv` adds that the digits in front of the first bigit are
zero (`LeadingBigit`), that the expansion ends with the last one (`Exhausted`),
and names the whole part and the unit whose long division gives the digits
(`HasFraction`). The step to the right takes digit `w` of the halved number
from digits `w` and `w + 1` of the number, the step to the left follows the
carries from the last bigit to the first; each is an induction over positions.

`RoundedToEven` and `ReadsBack` are about the text, several steps later. Their
theorems have one hypothesis, `PowersAreProducts`, which is the definition of
`^` for every base and exponent: an exact decimal has more places than any
bound that could be named in the module. The argument is:

* All the bigits together are one integer (`BigitsNumber`), and the argument is
  that integer divided by a power of ten (`BigitsDecimal`): the expansion ends,
  since the unit is a power of two that the powers of the base absorb.
* While bigits are written, the text is worth what the bigits up to
  `bigit_index` are, its first digit is not zero, and `dec_exp` is the exponent
  of that digit (`IsBlocks`).
* Cutting the text at `precision` splits the integer into the digits kept, the
  digit behind them and a rest below one unit of it (`RoundParts`).
  `has_nonzero` looks for the rest in the buffer and in the bigits, and misses
  one bigit: that case is `TailUnseen`, and no other digit is missed.
  `RoundDown` and `RoundUp` then show that what `RoundsUp` decides is the
  nearest, with ties to even; `IncrementedValue` that the nines carry right,
  also out of the first digit.
* So in every state the text is the decimal itself or the nearest with
  `precision` digits (`TextInv`). `AlwaysRoundedToEven` compares the two sides
  after multiplying by powers of two and five (`DecimalCompares`).
* `AlwaysReadsBack` uses `PrecisionAssumption`, 2^53 < 10^16 for the double:
  half a unit of the last digit is then less than half the gap to the
  neighbouring doubles, also below a power of two (`NearestIsInside`).

`AlwaysReadsBack` leaves out two kinds of texts. For zero the property is false
(`puff_zero`). If `TailUnseen` holds, the text may be off by more than half a
unit of the last digit, and the widths alone do not say that it still reads
back: for those texts `ReadsBack` is only model-checked.

### Pipeline

`PipelineProofs` proves `MakeReports`, `OldIsStale`, `AllProcessed` and
`IndexComplete` for every set of results, if one command runs at a time
(`~Overlap`; the run `pipeline_overlap` shows why), and `TypeOK` without that
condition. The invariant: one program at a time touches the directory
(`Alone`), a page that is old or whose result is partial is stale (`PagesOK`),
the entries collected and those to come are all there are (`IndexOK`), the
files behind the loop are done (`LoopOK`), and the result just measured is
stale until its page is made (`MakeOK`).

### Numbers

`NumbersProofs` proves `EvenOnly` for every width and every odd multiplier and
increment and every list of fixed cases: between two numbers the state of the
generator is even, and what has been verified is even or the case in that
place. It also
proves `TypeOK`, for which the invariant must bound the length of the series:
the digit count is the quotient of that length, and only a series that is not
complete keeps it in its range.

### Only model-checked

* Liveness (`Terminates`, `CommandsEnd`), which the prover does not reach.
* `ReadsBack` of `Puff` for texts with an unseen tail.
* The vendored converters but uscale and ryu, and the reader. Zmij, xjb and yy
  decide by the fraction of one product, and that the fraction is on the right
  side of each comparison is the whole of their correctness: an assumption
  strong enough to prove them would say as much as the property.
* `WellFormed` and `Exact` of the bignums. The estimate of a quotient bigit in
  `DivideModuloIntBignum` and the loop around it need both properties at once,
  exactly, and an induction over the pairs of lengths.
* `DigitsFit` of `Numbers`. It is not true of all constants: limiting to 16
  digits and reading back may need 17 digits again when the result is a power
  of two, which does not happen for the numbers drawn.

## Not modelled, and why

* Most lines of the vendored libraries are not part of the program: of fmt only
  `dragonbox::to_decimal` and the layout of a double are called, of asteria one
  conversion of 21, of ryu `d2s`, of yy the writer, of double-conversion the
  shortest mode and the reader. Format strings, chrono, locales, fixed and
  exponential formats, single precision, hexadecimal numbers and ryu's and yy's
  parsers are never called; the tables of powers are data, whose small
  counterparts `MCConverters` computes. The map therefore names a small part
  of all the lines there are.
* SIMD variants of the digit writers compute the same digits as the portable
  ones and are represented by them. Multiplications by reciprocals are
  represented by the divisions they stand for.
* `write<float>` of zmij and the policies of dragonbox that the repository does
  not choose are not instantiated.
* Rendering (`aggregate`, charts, CSS) and `format_counter` produce what a
  person looks at; no state and no other part depends on them.
* Library calls (`sprintf`, `ostringstream`, `to_chars`) are one line each.
* The cache programs time the machine's caches and keep no state of their own.
  (cache-contention.cc:186: the competitor array of 128 KB is enough as long as
  the L1 data cache has no more than 124 KB.)
* Time: what `is_stale` sees is a comparison; clocks with ticks would need a
  bound on how long a page takes to be written.

Left for later: the bignums (`WellFormed` and `Exact` for every width of
bigit), and proofs about dragonbox, which rests on the same two kinds of
assumptions as `Schubfach`, enough bits in the table and in the logarithms.
