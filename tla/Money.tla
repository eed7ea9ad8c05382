------------------------------- MODULE Money --------------------------------
(***************************************************************************)
(* Money (internal/domain/money): a signed count of minor units and a       *)
(* currency, its decimal spelling and its checked arithmetic.  The code's   *)
(* ten digits and 64 bits are parameters, so that every amount, and every   *)
(* string an amount could be written as, can be gone through at a small     *)
(* width; a string is a sequence of digits and of two other characters.     *)
(***************************************************************************)
EXTENDS Integers, Sequences

CONSTANTS
  Base,        \* digits are 0 .. Base - 1
  Scale,       \* decimal places
  MaxInt,      \* the largest signed integer; the smallest is -MaxInt - 1
  Supported,   \* currencies with Scale minor-unit digits
  Point, Minus,  \* the characters an amount has beside its digits
  None         \* the uninitialised currency

ASSUME MoneyAssumption ==
  /\ Base \in Nat \ {0, 1} /\ Scale \in Nat \ {0} /\ MaxInt \in Nat
  /\ None \notin Supported \cup {"UNINITIALIZED_VALUE", "CURRENCY_MISMATCH"}
  /\ {Point, Minus} \cap 0 .. Base - 1 = {} /\ Point # Minus

MinInt == -MaxInt - 1
Ints == MinInt .. MaxInt
Digit == 0 .. Base - 1
Power[n \in 0 .. Scale] == IF n = 0 THEN 1 ELSE Power[n - 1] * Base
minorPerMajor == Power[Scale]

(* One major unit fits the width, and any count of minor units short of it. *)
ASSUME WidthAssumption == minorPerMajor - 1 <= MaxInt

Money(units, currency) == [units |-> units, currency |-> currency]
Uninitialized == Money(0, None)
IsUninitialized(m) == m.currency = None

(* What an operation returns: a value, or a code of the catalogue. *)
Ok(v) == [ok |-> TRUE, value |-> v]
Refused(code) == [ok |-> FALSE, code |-> code]

-----------------------------------------------------------------------------
(* Spelling. *)
(* What the first n digits come to, for every n. *)
Readings(digits) ==
  LET value[n \in 0 .. Len(digits)] == IF n = 0 THEN 0 ELSE value[n - 1] * Base + digits[n]
  IN value

ValueOf(digits) == Readings(digits)[Len(digits)]

(* The digits of a magnitude, laid down from the right. *)
DigitsOf[n \in 0 .. MaxInt + 1] ==
  IF n < Base THEN <<n>> ELSE Append(DigitsOf[n \div Base], n % Base)

Zeros(n) == [i \in 1 .. n |-> 0]
Fraction(n) == Zeros(Scale - Len(DigitsOf[n])) \o DigitsOf[n]

(* amountInto: the canonical form, through the magnitude so that the        *)
(* smallest value renders too.                                              *)
Amount(m) ==
  LET magnitude == IF m.units < 0 THEN -m.units ELSE m.units
  IN (IF m.units < 0 THEN <<Minus>> ELSE <<>>)
       \o DigitsOf[magnitude \div minorPerMajor] \o <<Point>> \o Fraction(magnitude % minorPerMajor)

HasLeadingZero(whole) == Len(whole) > 1 /\ whole[1] = 0

(* A mutant: the bound is taken before the minor units are added. *)
MajorFits(major, minor) == major <= MaxInt \div minorPerMajor
InRange(major, minor) == major <= (MaxInt - minor) \div minorPerMajor

parseAmount(s) ==
  LET dots  == {i \in 1 .. Len(s) : s[i] = Point}
      plain == \A i \in 1 .. Len(s) : s[i] \in Digit \cup {Point}
      dot   == CHOOSE i \in dots : TRUE
      whole == IF dots = {} THEN s ELSE SubSeq(s, 1, dot - 1)
      frac  == IF dots = {} THEN <<>> ELSE SubSeq(s, dot + 1, Len(s))
  IN CASE s = <<>> \/ ~plain \/ \E i, j \in dots : i # j -> Refused("INVALID_AMOUNT_FORMAT")
       [] OTHER ->
            IF whole = <<>> \/ (dots # {} /\ frac = <<>>) \/ HasLeadingZero(whole)
              THEN Refused("INVALID_AMOUNT_FORMAT")
            ELSE IF Len(frac) # Scale THEN Refused("INVALID_AMOUNT_SCALE")
            ELSE IF ValueOf(whole) > MaxInt \/ ~InRange(ValueOf(whole), ValueOf(frac))
              THEN Refused("AMOUNT_OUT_OF_RANGE")
            ELSE Ok(ValueOf(whole) * minorPerMajor + ValueOf(frac))

(* The currency is looked at first. *)
ParseCurrency(code) == code \in Supported
Parse(amount, code) ==
  IF ~ParseCurrency(code) THEN Refused("UNSUPPORTED_CURRENCY")
  ELSE IF ~parseAmount(amount).ok THEN parseAmount(amount)
  ELSE Ok(Money(parseAmount(amount).value, code))

(* The wire form, and what reads it back. *)
MarshalJSON(m) ==
  IF IsUninitialized(m) THEN Refused("UNINITIALIZED_VALUE")
  ELSE IF m.units < 0 THEN Refused("INVALID_AMOUNT_FORMAT")
  ELSE Ok([amount |-> Amount(m), currency |-> m.currency])
UnmarshalJSON(w) == Parse(w.amount, w.currency)

-----------------------------------------------------------------------------
(* Arithmetic, each test as the code makes it: without leaving the range.   *)
compatible(m, n) ==
  CASE IsUninitialized(m) \/ IsUninitialized(n) -> "UNINITIALIZED_VALUE"
    [] OTHER -> IF m.currency # n.currency THEN "CURRENCY_MISMATCH" ELSE None

Add(m, n) ==
  IF compatible(m, n) # None THEN Refused(compatible(m, n))
  ELSE IF \/ n.units > 0 /\ m.units > MaxInt - n.units
          \/ n.units < 0 /\ m.units < MinInt - n.units
    THEN Refused("AMOUNT_OUT_OF_RANGE")
  ELSE Ok(Money(m.units + n.units, m.currency))

Sub(m, n) ==
  IF compatible(m, n) # None THEN Refused(compatible(m, n))
  ELSE IF \/ n.units < 0 /\ m.units > MaxInt + n.units
          \/ n.units > 0 /\ m.units < MinInt + n.units
    THEN Refused("AMOUNT_OUT_OF_RANGE")
  ELSE Ok(Money(m.units - n.units, m.currency))

Neg(m) ==
  IF IsUninitialized(m) THEN Refused("UNINITIALIZED_VALUE")
  ELSE IF m.units = MinInt THEN Refused("AMOUNT_OUT_OF_RANGE")
  ELSE Ok(Money(-m.units, m.currency))

Cmp(m, n) ==
  IF compatible(m, n) # None THEN Refused(compatible(m, n))
  ELSE Ok(CASE m.units < n.units -> -1 [] m.units > n.units -> 1 [] OTHER -> 0)

Equal(m, n) == ~IsUninitialized(m) /\ ~IsUninitialized(n) /\ m = n
=============================================================================
