------------------------------- MODULE Words -------------------------------
(***************************************************************************)
(* Go's fixed-width integers, as the settings of both daemons use them.    *)
(* An int or int64 is a word of Width bits; a time.Duration is a word that *)
(* counts units, Second of them to a second.  A result that does not fit   *)
(* wraps around.                                                           *)
(***************************************************************************)
EXTENDS Integers

CONSTANTS
  MaxInt,   \* 2^63 - 1
  Second    \* time.Second, 10^9

ASSUME WordsAssumption ==
  MaxInt \in Nat \ {0} /\ Second \in 1 .. MaxInt

MinInt == -MaxInt - 1
Word == MinInt .. MaxInt

Wrap(x) == ((x - MinInt) % (2 * (MaxInt + 1))) + MinInt

(* time.Duration(seconds) * time.Second *)
Duration(seconds) == Wrap(seconds * Second)

(* A variable that is unset or does not parse yields the fallback; so does *)
(* a number that is no word.                                               *)
getenvInt(v, fallback) == IF v \in Word THEN v ELSE fallback
=============================================================================
