---------------------------- MODULE DtoaContract ----------------------------
(***************************************************************************)
(* What a shortest converter promises its caller, whatever algorithm is    *)
(* behind it: README.md:18-21 (the text read back by a correct strtod is   *)
(* the value) and schubfach.h:10 (the shortest, correctly rounded text).   *)
(* One call at a time: the caller gives a double, and is given a text.     *)
(***************************************************************************)
EXTENDS BinaryFloat

CONSTANTS
  Arguments,      \* the doubles the caller passes
  NoValue,        \* no call is in progress
  NoText          \* nothing has been written yet

(* A text is a word, or digits d1.d2d3... times 10^exp with a sign.        *)
Word   == {"inf", "nan", "0"}
Text   == [negative : BOOLEAN, word : Word]
            \cup [negative : BOOLEAN, digits : Seq(0..9), exp : Int]

VARIABLES req, resp

vars == <<req, resp>>

WordOf(v) ==
  CASE IsZero(v)                     -> "0"
    [] IsSpecial(v) /\ v.sig = 0     -> "inf"
    [] IsSpecial(v) /\ v.sig # 0     -> "nan"

(* The text of an ordinary value: no leading and no trailing zeros, it     *)
(* reads back as the value, nothing shorter does, and nothing as short     *)
(* that does is closer.                                                    *)
IsShortest(v, digits, exp) ==
  LET len == Len(digits)
      d   == DigitsValue(digits)
      k   == exp - (len - 1)
  IN /\ len > 0
     /\ digits[1] # 0
     /\ digits[len] # 0
     /\ RoundTrips(v, d, k)
     /\ ~HasShorter(v, d, k, len)
     /\ ~HasCloser(v, d, k, len)

Acceptable(v, text) ==
  /\ text.negative = v.negative
  /\ IF IsOrdinary(v)
       THEN /\ "digits" \in DOMAIN text
            /\ IsShortest(v, text.digits, text.exp)
       ELSE /\ "word" \in DOMAIN text
            /\ text.word = WordOf(v)

Init == req = NoValue /\ resp = NoText

Call == req = NoValue /\ req' \in Arguments /\ resp' = NoText

Write ==
  /\ req # NoValue
  /\ resp = NoText
  /\ resp' \in Text
  /\ Acceptable(req, resp')
  /\ UNCHANGED req

Return == resp # NoText /\ req' = NoValue /\ resp' = NoText

Next == Call \/ Write \/ Return

Spec == Init /\ [][Next]_vars
=============================================================================
