--------------------------- MODULE ParseTimeDuration ---------------------------
(***************************************************************************)
(* parseTimeDuration.cpp: how a text of the configuration becomes a         *)
(* std::chrono::steady_clock::duration.                                     *)
(*                                                                         *)
(* A text is described by what the code looks at: the number its leading    *)
(* digits make (-1 without any), the unit behind them, and whether white    *)
(* space separates the two.  Numbers are those of a signed type whose       *)
(* largest is LongMax; multiplying by the nanoseconds of a unit wraps.      *)
(***************************************************************************)
EXTENDS Integers

CONSTANTS LongMax,   \* the largest long and the largest count of nanoseconds
          UnitNs     \* UnitNs[u]: the nanoseconds of unit u

Units == {"us", "ms", "s", "min"}

ASSUME LongAssumption == LongMax \in Nat
ASSUME UnitAssumption == UnitNs \in [Units -> Nat \ {0}]

-----------------------------------------------------------------------------
\* What follows the digits: nothing, a unit, or anything else.
Text == [quantity : Nat \cup {-1}, unit : Units \cup {"", "?"}, spaced : BOOLEAN]

Unit(text) == IF text.unit = "" THEN "ms" ELSE text.unit

\* What the arithmetic of the code makes of n.
Wrap(n) == ((n + LongMax + 1) % (2 * (LongMax + 1))) - (LongMax + 1)

Product(text) == text.quantity * UnitNs[Unit(text)]
Fits(text)    == Product(text) <= LongMax

\* parseDuration(): a text without digits, with an unknown unit, with 0, or with
\* more than a long holds makes it throw.  operator>>() stops at white space, and
\* what is left over makes its caller refuse the text.
IsDuration(text) ==
  /\ text.quantity \in 1..LongMax
  /\ text.unit \in Units \cup {""}
  /\ ~text.spaced

ParseDuration(text) == Wrap(Product(text))
=============================================================================
