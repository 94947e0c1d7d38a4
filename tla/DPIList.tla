------------------------------ MODULE DPIList ------------------------------
(***************************************************************************)
(* The resolutions a sensor advertises (feature 0x2201) and the choice of  *)
(* one: Supported, decodeDPIList and NearestDPI of                         *)
(* internal/mxmaster/features.go.                                          *)
(*                                                                         *)
(* The device sends a list of 16-bit words that ends with a zero.  A word  *)
(* whose top three bits are set is the step of a range that goes from the  *)
(* value before it to the word after it; any other word is a value.        *)
(***************************************************************************)
EXTENDS Integers, Sequences, SequencesExt, FiniteSets

CONSTANTS
  MaxValues,   \* longest list accepted (4096 in the code)
  MaxWords     \* words the requests for a list can bring (256 frames in the code)

ASSUME DPIListAssumption == {MaxValues, MaxWords} \subseteq Nat \ {0}

RangeMark == 57344    \* 0xe000
IsStep(word) == word >= RangeMark
StepOf(word) == word - RangeMark

\* The words Supported passes on: up to the first zero, wherever it stands.
NoTerminator == << >>

EndsAt(words, n) ==
  /\ n \in DOMAIN words
  /\ n <= MaxWords
  /\ words[n] = 0
  /\ \A i \in 1..(n - 1) : words[i] # 0

Received(words) ==
  IF \E n \in DOMAIN words : EndsAt(words, n)
    THEN SubSeq(words, 1, CHOOSE n \in DOMAIN words : EndsAt(words, n))
    ELSE NoTerminator

-----------------------------------------------------------------------------
(* decodeDPIList, one word at a time *)

\* What has been decoded: the values in order, the step of a range whose end is
\* the next word (0 when there is none), and whether the list is complete.
Nothing == [values |-> << >>, step |-> 0, end |-> "open"]

Malformed == [values |-> << >>, step |-> 0, end |-> "malformed"]

RangeFrom(low, step, high) ==
  [i \in 1..((high - low) \div step) |-> low + i * step]

Extend(list, values) ==
  IF Len(list.values) + Len(values) > MaxValues
    THEN Malformed
    ELSE [values |-> list.values \o values, step |-> 0, end |-> list.end]

CloseRangeInclusive(list, word) ==    \* mutant: the end is always taken for a value
  IF word <= Last(list.values)
    THEN Malformed
    ELSE Extend(list, Append(RangeFrom(Last(list.values), list.step, word), word))

\* The word after a step closes the range; it must lie beyond its start.
CloseRange(list, word) ==
  IF word <= Last(list.values)
    THEN Malformed
    ELSE Extend(list, RangeFrom(Last(list.values), list.step, word))

\* A step needs a start.
OpenRange(list, word) ==
  IF StepOf(word) = 0 \/ list.values = << >>
    THEN Malformed
    ELSE [list EXCEPT !.step = StepOf(word)]

DecodeWord(list, word) ==
  CASE list.end # "open" -> list
    [] list.end = "open" /\ list.step # 0 -> CloseRange(list, word)
    [] list.end = "open" /\ list.step = 0 /\ word = 0 -> [list EXCEPT !.end = "complete"]
    [] list.end = "open" /\ list.step = 0 /\ IsStep(word) -> OpenRange(list, word)
    [] OTHER -> Extend(list, <<word>>)

decodeDPIList(words) ==
  LET list[n \in 0..Len(words)] ==
        IF n = 0 THEN Nothing ELSE DecodeWord(list[n - 1], words[n])
  IN list[Len(words)]

\* The values the client learns, or none when the list is malformed.
Supported(words) ==
  LET list == decodeDPIList(Received(words))
  IN IF list.end = "complete" THEN list.values ELSE << >>

-----------------------------------------------------------------------------
(* NearestDPI *)

Distance(a, b) == IF a < b THEN b - a ELSE a - b

Closer(requested, value, best) ==
  \/ Distance(requested, value) < Distance(requested, best)
  \/ Distance(requested, value) = Distance(requested, best) /\ value < best

Better(requested, value, best) == IF Closer(requested, value, best) THEN value ELSE best

\* The first value is the best until a closer one comes.
NearestDPI(values, requested) ==
  LET best[n \in 0..Len(values)] ==
        IF n = 0 THEN values[1] ELSE Better(requested, values[n], best[n - 1])
  IN best[Len(values)]
=============================================================================
