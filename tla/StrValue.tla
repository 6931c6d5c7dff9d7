------------------------------ MODULE StrValue -------------------------------
(***************************************************************************)
(* The value of one string key of LazyDB as the commands that compute with *)
(* it see it (str.go): a 64-bit integer in decimal, or a text that is no   *)
(* number, of which only the length is kept.  StrStore says how the value  *)
(* gets to the log and back.                                               *)
(***************************************************************************)
EXTENDS Integers

CONSTANTS
  Half,       \* how many negative integers there are (2^63 in the code)
  MaxText     \* bound: the longest text

ASSUME HalfAssumption == Half \in Nat \ {0}
ASSUME TextAssumption == MaxText \in Nat

VARIABLE val

MaxInt == Half - 1
MinInt == - Half
Int64 == MinInt .. MaxInt

(* A mutant: an integer grows as far as it has to.                         *)
WrapNothing(n) == n

(* What an integer operation leaves in the bits there are.                 *)
Wrap(n) == ((n - MinInt) % (2 * Half)) + MinInt

Missing == [kind |-> "missing", n |-> 0]
Number(n) == [kind |-> "number", n |-> n]
Text(len) == [kind |-> "text", n |-> len]
Failed == [kind |-> "ErrIntegerOverFlow", n |-> 0]

ValueInit == val = Missing

-----------------------------------------------------------------------------
(* A mutant: only sums of positive numbers are looked at.                  *)
OverflowsUpwards(n, incr) == incr > 0 /\ n > 0 /\ incr > Wrap(MaxInt - n)

Overflows(n, incr) ==
  \/ incr > 0 /\ n > 0 /\ incr > Wrap(MaxInt - n)
  \/ incr < 0 /\ n < 0 /\ incr < Wrap(MinInt - n)

(* A missing key and an empty text count as zero; another text is an       *)
(* error that leaves the value alone.                                      *)
IsNumber == val.kind # "text" \/ val.n = 0

incrDecrBy(incr) ==
  IF Overflows(val.n, incr) THEN Failed ELSE Number(Wrap(val.n + incr))

(* Incr, IncrBy, Decr and DecrBy, with their results.                      *)
IncrBy(incr) == incrDecrBy(incr)
DecrBy(decr) == incrDecrBy(Wrap(- decr))

CountTo(result) == IsNumber /\ result # Failed /\ val' = result

(* How long a number is in decimal, with its sign.                         *)
Digits[n \in 0 .. Half] == IF n < 10 THEN 1 ELSE 1 + Digits[n \div 10]
Decimal(n) == IF n < 0 THEN 1 + Digits[-n] ELSE Digits[n]

(* StrLen.                                                                 *)
StrLen == IF val.kind = "number" THEN Decimal(val.n) ELSE val.n

(* Append, of some letters or none: what then is no number is a text.      *)
AppendText(len) ==
  /\ StrLen + len <= MaxText
  /\ val' = IF val.kind = "number" /\ len = 0 THEN val ELSE Text(StrLen + len)

Set == val' \in {Missing} \cup {Number(n) : n \in Int64} \cup {Text(0)}

ValueNext ==
  \/ \E d \in Int64 : CountTo(IncrBy(d)) \/ CountTo(DecrBy(d))
  \/ \E len \in 0 .. MaxText : AppendText(len)
  \/ Set

ValueSpec == ValueInit /\ [][ValueNext]_val

-----------------------------------------------------------------------------
(* A mutant: the end is not cut off.                                       *)
GetRangeNotCut(len, start, end) ==
  LET from == IF start >= 0 THEN start ELSE IF len + start < 0 THEN 0 ELSE len + start
      to == IF end >= 0 THEN end ELSE IF len + end < 0 THEN 0 ELSE len + end
  IN  IF from > len - 1 THEN {} ELSE from .. to

(* GetRange: the positions of the bytes returned, of a value so long.       *)
GetRange(len, start, end) ==
  LET from == IF start >= 0 THEN start ELSE IF len + start < 0 THEN 0 ELSE len + start
      past == IF end >= 0 THEN end ELSE IF len + end < 0 THEN 0 ELSE len + end
      to == IF past > len - 1 THEN len - 1 ELSE past
  IN  IF len = 0 \/ from > len - 1 \/ from > to THEN {} ELSE from .. to

-----------------------------------------------------------------------------
(* IncrBy returns the exact sum or, just when that does not fit in an      *)
(* integer, ErrIntegerOverFlow; DecrBy does so with the difference, but    *)
(* for the smallest integer, whose negative there is not.                  *)
Exactly(n) == IF n \in Int64 THEN Number(n) ELSE Failed

CountsExactly ==
  IsNumber =>
    /\ \A d \in Int64 : IncrBy(d) = Exactly(val.n + d)
    /\ \A d \in Int64 \ {MinInt} : DecrBy(d) = Exactly(val.n - d)

(* GetRange returns the bytes at the positions from start to end that the  *)
(* text has, a negative position counting from its end; but an end before  *)
(* the first byte is taken for the first byte.                             *)
GetRangeIsSubstring ==
  LET At(i) == IF i >= 0 THEN i ELSE StrLen + i
      Offsets == - MaxText - 2 .. MaxText + 1
  IN  \A start, end \in Offsets :
        GetRange(StrLen, start, end) =
          {p \in 0 .. StrLen - 1 :
             /\ At(start) <= p
             /\ p <= At(end) \/ (p = 0 /\ At(end) < 0)}

(* Why that is so.  A number is one that fits in an integer.               *)
ValueInv ==
  \/ val = Missing
  \/ \E n \in Int64 : val = Number(n)
  \/ \E len \in 0 .. MaxText : val = Text(len)
=============================================================================
