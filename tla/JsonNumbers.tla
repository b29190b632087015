----------------------------- MODULE JsonNumbers -----------------------------
(***************************************************************************)
(* The numbers of ArduinoJson: reading a literal (Numbers/parseNumber.hpp),*)
(* writing a number (Numbers/FloatParts.hpp, Json/TextFormatter.hpp),      *)
(* comparing two of them (Numbers/arithmeticCompare.hpp) and converting    *)
(* one into an integer type (Numbers/convertNumber.hpp).  A number is its  *)
(* kind with a decimal value m * 10^e; the rounding of the binary floats   *)
(* is left out, what the code itself drops is not.  A text is a sequence   *)
(* of character codes.                                                     *)
(***************************************************************************)
EXTENDS Integers, Sequences

CONSTANTS
  IntBits,      \* bits of UInt (64 as the sketch defines it, else 32 on the board)
  MantissaMax,  \* the greatest mantissa of Float (2^52 - 1)
  ExponentMax,  \* its greatest exponent (308)
  Places,       \* decimal places written (9)
  Thresholds    \* powers of ten from which an exponent is written (-5 and 7)

ASSUME NumbersAssumption ==
  /\ IntBits \in Nat /\ IntBits > 1
  /\ MantissaMax \in Nat \ {0} /\ ExponentMax \in Nat \ {0} /\ Places \in Nat
  /\ Thresholds \in Int \X Int
  /\ Thresholds[1] < 0 /\ Thresholds[2] > 0 /\ Thresholds[2] <= Places + 1

maxUint == 2^IntBits - 1
sintMax == 2^(IntBits - 1)

AbsInt(n) == IF n < 0 THEN -n ELSE n
RECURSIVE DigitsOf(_)
DigitsOf(n) == IF n < 10 THEN 1 ELSE 1 + DigitsOf(n \div 10)

\* The mantissa of a value ends in no zero, so two values are equal when they are
\* the same; an infinite one and "not a number" have exponents of their own.
RECURSIVE Decimal(_, _, _)
Decimal(kind, m, e) ==
  IF m = 0 THEN [kind |-> kind, m |-> 0, e |-> 0]
  ELSE IF AbsInt(m) % 10 = 0
       THEN Decimal(kind, (IF m < 0 THEN -1 ELSE 1) * (AbsInt(m) \div 10), e + 1)
  ELSE [kind |-> kind, m |-> m, e |-> e]
Infinite(negative) ==
  [kind |-> "float", m |-> IF negative THEN -1 ELSE 1, e |-> 2 * ExponentMax]
NotANumber == [kind |-> "float", m |-> 0, e |-> 2 * ExponentMax]
IsInfinite(n) == n.e = 2 * ExponentMax /\ n.m # 0
IntegerOf(n) == n.m * 10^n.e

(***************************************************************************)
(* Reading.                                                                *)
(***************************************************************************)
CharAt(s, i) == IF i \in 1..Len(s) THEN s[i] ELSE 0
isdigit(c) == c \in 48..57
Minus == 45
Plus == 43
Dot == 46
IsExponent(c) == c \in {69, 101}

\* The digits that fit in an unsigned integer.  When the last one does not, the
\* mantissa has been multiplied all the same and the digit is still to be read.
RECURSIVE Mantissa(_, _, _)
Mantissa(s, i, m) ==
  LET d == s[i] - 48
  IN IF ~ isdigit(CharAt(s, i)) \/ m > maxUint \div 10 THEN [m |-> m, i |-> i]
     ELSE IF m * 10 > maxUint - d THEN [m |-> m * 10, i |-> i]
     ELSE Mantissa(s, i + 1, m * 10 + d)

RECURSIVE Shrunk(_, _)
Shrunk(m, e) == IF m > MantissaMax THEN Shrunk(m \div 10, e + 1) ELSE [m |-> m, e |-> e]

RECURSIVE AfterDigits(_, _)
AfterDigits(s, i) == IF isdigit(CharAt(s, i)) THEN AfterDigits(s, i + 1) ELSE i

\* (Bug: a digit that is dropped moves the point all the same.)
RECURSIVE FractionCountsAll(_, _, _)
FractionCountsAll(s, i, p) ==
  IF ~ isdigit(CharAt(s, i)) THEN [m |-> p.m, e |-> p.e, i |-> i]
  ELSE FractionCountsAll(s, i + 1,
         [m |-> IF p.m < MantissaMax \div 10 THEN p.m * 10 + s[i] - 48 ELSE p.m, e |-> p.e - 1])
RECURSIVE Fraction(_, _, _)
Fraction(s, i, p) ==
  IF ~ isdigit(CharAt(s, i)) THEN [m |-> p.m, e |-> p.e, i |-> i]
  ELSE Fraction(s, i + 1, IF p.m < MantissaMax \div 10
                          THEN [m |-> p.m * 10 + s[i] - 48, e |-> p.e - 1] ELSE p)

\* The exponent, as far as it is needed to see that it is too large.
RECURSIVE Exponent(_, _, _, _)
Exponent(s, i, x, offset) ==
  IF ~ isdigit(CharAt(s, i)) THEN [x |-> x, i |-> i, large |-> FALSE]
  ELSE LET y == x * 10 + s[i] - 48
       IN IF y + offset > ExponentMax THEN [x |-> y, i |-> i, large |-> TRUE]
          ELSE Exponent(s, i + 1, y, offset)

\* A product too large for a Float is infinite.
make_float(negative, m, e) ==
  IF m # 0 /\ DigitsOf(m) + e > ExponentMax + 1 THEN Infinite(negative)
  ELSE Decimal("float", IF negative THEN -m ELSE m, e)

NoNumber == [ok |-> FALSE, num |-> Decimal("uint", 0, 0)]
Parsed(n) == [ok |-> TRUE, num |-> n]

\* The rest of a literal that is no integer: p is the mantissa and its exponent, i
\* the first character not read; f the same behind the fraction.
AfterFraction(s, negative, f) ==
  LET down == CharAt(s, f.i + 1) = Minus
      first == f.i + (IF CharAt(s, f.i + 1) \in {Minus, Plus} THEN 2 ELSE 1)
      x == IF IsExponent(CharAt(s, f.i)) THEN Exponent(s, first, 0, f.e)
           ELSE [x |-> 0, i |-> f.i, large |-> FALSE]
  IN IF x.large
     THEN Parsed(IF down THEN Decimal("float", 0, 0) ELSE Infinite(negative))
     ELSE IF x.i <= Len(s) THEN NoNumber
     ELSE Parsed(make_float(negative, f.m, f.e + (IF down THEN -x.x ELSE x.x)))
ParseFloat(s, negative, i, p) ==
  LET j == AfterDigits(s, i)
      q == [p EXCEPT !.e = @ + (j - i)]
  IN AfterFraction(s, negative, IF CharAt(s, j) = Dot THEN Fraction(s, j + 1, q)
                                ELSE [m |-> q.m, e |-> q.e, i |-> j])

ParseNumber(s) ==
  LET negative == CharAt(s, 1) = Minus
      i == IF CharAt(s, 1) \in {Minus, Plus} THEN 2 ELSE 1
      d == Mantissa(s, i, 0)
      whole == d.i > Len(s)
  IN IF ~ isdigit(CharAt(s, i)) /\ CharAt(s, i) # Dot THEN NoNumber
     ELSE IF whole /\ ~ negative THEN Parsed(Decimal("uint", d.m, 0))
     ELSE IF whole /\ d.m <= sintMax THEN Parsed(Decimal("int", -d.m, 0))
     ELSE ParseFloat(s, negative, d.i, Shrunk(d.m, 0))

(***************************************************************************)
(* Writing.                                                                *)
(***************************************************************************)
RECURSIVE WriteDigits(_)
WriteDigits(n) == IF n < 10 THEN <<48 + n>> ELSE Append(WriteDigits(n \div 10), 48 + (n % 10))

WriteInteger(n) == IF n < 0 THEN <<Minus>> \o WriteDigits(-n) ELSE WriteDigits(n)

WriteDecimals(d, width) ==
  <<Dot>> \o [k \in 1..width |-> 48 + ((d \div 10^(width - k)) % 10)]

\* The power of ten that is taken out of m * 10^e.
Normalize(m, e) ==
  LET top == DigitsOf(m) + e - 1
  IN IF top >= Thresholds[2] \/ (m > 0 /\ (top < Thresholds[1] \/ (m = 1 /\ e = Thresholds[1])))
     THEN top ELSE 0

RECURSIVE WithoutZeros(_, _)
WithoutZeros(d, width) ==
  IF d % 10 = 0 /\ width > 0 THEN WithoutZeros(d \div 10, width - 1)
  ELSE [decimal |-> d, places |-> width]

\* m * 10^e rounded to an integer.
Rounded(m, e) ==
  IF e >= 0 THEN m * 10^e
  ELSE IF -e > DigitsOf(m) THEN 0
  ELSE m \div 10^(-e) + (2 * (m % 10^(-e))) \div 10^(-e)

\* The integer below m * 10^e.
Floor(m, e) ==
  IF e >= 0 THEN m * 10^e ELSE IF -e > DigitsOf(m) THEN 0 ELSE m \div 10^(-e)

\* A carry of the decimals goes to the integral part, and on to the exponent.
Carry(power, integral, decimal, width) ==
  LET carried == decimal >= 10^width
      shifts == carried /\ power # 0 /\ integral + 1 >= 10
      d == WithoutZeros(IF carried THEN 0 ELSE decimal, width)
  IN [integral |-> IF shifts THEN 1 ELSE IF carried THEN integral + 1 ELSE integral,
      decimal |-> d.decimal, places |-> d.places,
      exponent |-> IF shifts THEN power + 1 ELSE power]
Split(m, e, power, integral) ==
  LET width == Places - (DigitsOf(integral) - 1)
      rest == IF e >= 0 THEN 0 ELSE IF integral = 0 THEN m ELSE m - integral * 10^(-e)
  IN Carry(power, integral, Rounded(rest, e + width), width)
FloatParts(m, e) ==
  LET power == Normalize(m, e) IN Split(m, e - power, power, Floor(m, e - power))

NullWord == <<110, 117, 108, 108>>
WriteParts(f) ==
  WriteDigits(f.integral)
  \o (IF f.places > 0 THEN WriteDecimals(f.decimal, f.places) ELSE <<>>)
  \o (IF f.exponent # 0 THEN <<101>> \o WriteInteger(f.exponent) ELSE <<>>)
WriteFloat(n) ==
  IF n = NotANumber \/ IsInfinite(n) THEN NullWord
  ELSE (IF n.m < 0 THEN <<Minus>> ELSE <<>>) \o WriteParts(FloatParts(AbsInt(n.m), n.e))

WriteNumber(n) == IF n.kind = "float" THEN WriteFloat(n) ELSE WriteInteger(IntegerOf(n))

(***************************************************************************)
(* Comparing and converting.                                               *)
(***************************************************************************)
\* A magnitude as its length and its digits, brought to the same number of them.
Smaller(a, b) ==
  LET da == DigitsOf(a.m) db == DigitsOf(b.m)
  IN \/ da + a.e < db + b.e
     \/ da + a.e = db + b.e
        /\ IF da <= db THEN a.m * 10^(db - da) < b.m ELSE a.m < b.m * 10^(da - db)
Abs(n) == [n EXCEPT !.m = AbsInt(@)]
LessThan(a, b) ==
  IF a.m >= 0 /\ b.m >= 0 THEN (a.m = 0 /\ b.m > 0) \/ (a.m > 0 /\ b.m > 0 /\ Smaller(a, b))
  ELSE IF a.m < 0 /\ b.m < 0 THEN Smaller(Abs(b), Abs(a))
  ELSE a.m < 0

\* What is neither less nor greater is equal: "not a number" equals every number.
arithmeticCompare(a, b) ==
  IF a = NotANumber \/ b = NotANumber THEN "EQUAL"
  ELSE IF LessThan(a, b) THEN "LESS" ELSE IF LessThan(b, a) THEN "GREATER" ELSE "EQUAL"

Truncated(n) ==
  (IF n.m < 0 THEN -1 ELSE 1) * Floor(AbsInt(n.m), n.e)

\* as<T>() of a number for an integer type of low..high: 0 when it is out of range.
canConvertNumber(n, low, high) ==
  /\ n # NotANumber
  /\ arithmeticCompare(n, Decimal("int", low, 0)) # "LESS"
  /\ arithmeticCompare(n, Decimal("int", high, 0)) # "GREATER"
convertNumber(n, low, high) == IF canConvertNumber(n, low, high) THEN Truncated(n) ELSE 0
=============================================================================
