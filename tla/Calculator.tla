------------------------------ MODULE Calculator ------------------------------
(***************************************************************************)
(* Operations on decimal numbers (op_BINARY_OP and op_UNARY_OP of vm/vm.c, *)
(* with float_bigint.c), one after the other: their operands are literals  *)
(* and earlier results.  Division, and the remainder with it, is a long    *)
(* division, done digit by digit.                                          *)
(***************************************************************************)
EXTENDS Decimals

CONSTANTS
    Literals,         \* numbers as the program writes them, texts
    MayDivide(_, _),  \* the divisions that are tried
    MaxOps,           \* operations, one after the other
    MaxDigits         \* digits of an operand

(* A literal has digits before the point.                                   *)
ASSUME LiteralsAssumption ==
    \A t \in Literals : /\ t.neg \in BOOLEAN
                        /\ t.whole \in Seq(0 .. 9) /\ t.whole # <<>>
                        /\ t.fraction \in Seq(0 .. 9)

ASSUME BoundsAssumption == MaxOps \in Nat /\ MaxDigits \in Nat

VARIABLES
    op,        \* the operation
    left,      \* its operands
    right,
    result,
    phase,     \* "idle", or what a division is doing
    num,       \* the digits of the dividend and of the divisor
    den,
    zeros,     \* how many zeros the dividend was given
    rem,       \* what is left of the digits before
    quotient,  \* the digits so far
    count      \* operations so far

division == <<num, den, zeros, rem, quotient>>
vars == <<op, left, right, result, phase, num, den, zeros, rem, quotient, count>>

NoDivision == num = <<>> /\ den = <<>> /\ zeros = 0 /\ rem = <<>> /\ quotient = <<>>

Init ==
    /\ op = "+x"
    /\ left \in {FromText(t) : t \in Literals}
    /\ right = Zero
    /\ result = left
    /\ phase = "idle"
    /\ count = 0
    /\ NoDivision

Proper(x) == \A i \in DOMAIN x.digits : x.digits[i] \in 0 .. 9

(* Literals, and the last result.                                           *)
Operands ==
    {FromText(t) : t \in Literals}
        \cup {x \in {result} : Proper(x) /\ Len(x.digits) <= MaxDigits /\ x.point <= MaxDigits}

(* After the first operation every other has the last result as an operand. *)
Begin(o, a, b) ==
    /\ phase = "idle" /\ count < MaxOps
    /\ result \in {a, b}
    /\ count' = count + 1
    /\ op' = o /\ left' = a /\ right' = b

Computed(o, a, b, x) ==
    /\ Begin(o, a, b)
    /\ result' = x
    /\ UNCHANGED <<phase, division>>

Plus(a) == Computed("+x", a, Zero, IF a.kind = "finite" THEN FromText(Text(a)) ELSE a)
Minus(a) == Computed("-x", a, Zero, Neg(a))
Sum(a, b) == Computed("+", a, b, Add(a, b))
Difference(a, b) == Computed("-", a, b, Sub(a, b))
Product(a, b) == Computed("*", a, b, Mul(a, b))

-----------------------------------------------------------------------------
(* Without an infinity, a NaN or a zero divisor the digits are divided.     *)
IsLong(a, b) == Kinds(a, b) = {"finite"} /\ ~IsZero(b.digits)

ShortQuotient(a, b) ==
    CASE "nan" \in Kinds(a, b) -> NaN
      [] "nan" \notin Kinds(a, b) /\ b.kind = "inf" -> [Zero EXCEPT !.neg = a.neg # b.neg]
      [] Kinds(a, b) = {"finite"} /\ IsZero(a.digits) -> NaN
      [] OTHER -> Inf(a.neg # b.neg)

ShortDivision(o, a, b) ==
    /\ ~IsLong(a, b)
    /\ Computed(o, a, b, IF o = "/" THEN ShortQuotient(a, b) ELSE NaN)

StartDivision(o, a, b) ==
    /\ IsLong(a, b) /\ MayDivide(a, b)
    /\ Begin(o, a, b)
    /\ LET point == Larger(a.point, b.point)
       IN  /\ num' = Align(a, point).digits \o Zeros(Precision)
           /\ den' = Align(b, point).digits
    /\ zeros' = Precision
    /\ phase' = "scale"
    /\ UNCHANGED <<result, rem, quotient>>

(* Zeros until the dividend is not below the divisor.                       *)
Scale ==
    /\ phase = "scale" /\ CompareDigits(num, den) < 0
    /\ num' = Append(num, 0)
    /\ zeros' = zeros + 1
    /\ UNCHANGED <<op, left, right, result, phase, den, rem, quotient, count>>

(* Mutant of StartDigits: not when they are equal.                          *)
StartDigitsAbove ==
    /\ phase = "scale" /\ CompareDigits(num, den) > 0
    /\ phase' = "digits"
    /\ UNCHANGED <<op, left, right, result, division, count>>

StartDigits ==
    /\ phase = "scale" /\ CompareDigits(num, den) >= 0
    /\ phase' = "digits"
    /\ UNCHANGED <<op, left, right, result, division, count>>

(* Mutant of Fits: not when they are equal.                                 *)
FitsAbove == Len(rem) >= Len(den) /\ CompareDigits(rem, den) > 0

(* The divisor is taken away as often as it can be; not any more once what  *)
(* is left has fewer digits than the divisor, leading zeros included.       *)
Fits == Len(rem) >= Len(den) /\ CompareDigits(rem, den) >= 0

Subtract ==
    /\ phase = "digits" /\ Fits
    /\ rem' = Bare(SubDigits(rem, den))
    /\ quotient' = [quotient EXCEPT ![Len(quotient)] = @ + 1]
    /\ UNCHANGED <<op, left, right, result, phase, num, den, zeros, count>>

NextDigit ==
    /\ phase = "digits" /\ ~Fits /\ Len(quotient) < Len(num)
    /\ rem' = Bare(Append(rem, num[Len(quotient) + 1]))
    /\ quotient' = Append(quotient, 0)
    /\ UNCHANGED <<op, left, right, result, phase, num, den, zeros, count>>

(* The loops of the division.                                               *)
Looping == Scale \/ StartDigits \/ Subtract \/ NextDigit
AllDigits == phase = "digits" /\ ~Fits /\ Len(quotient) = Len(num)

EndDivision ==
    /\ AllDigits
    /\ result' = Limit(Trim(Number(left.neg # right.neg, quotient, zeros)))
    /\ phase' = IF op = "/" THEN "idle" ELSE "remainder"
    /\ num' = <<>> /\ den' = <<>> /\ zeros' = 0 /\ rem' = <<>> /\ quotient' = <<>>
    /\ UNCHANGED <<op, left, right, count>>

(* Mutant of Whole: the quotient as it is.                                  *)
WholeQuotient(x) == x

(* bigfloat_mod goes on: the digits before the point times the divisor.     *)
Whole(x) == Trim(Number(x.neg, SubSeq(x.digits, 1, Len(x.digits) - x.point), 0))

Remainder ==
    /\ phase = "remainder"
    /\ result' = Sub(left, Mul(Whole(result), right))
    /\ phase' = "idle"
    /\ UNCHANGED <<op, left, right, division, count>>

Next ==
    \/ \E a \in Operands : Plus(a) \/ Minus(a)
    \/ \E a, b \in Operands :
         \/ Sum(a, b)
         \/ Difference(a, b)
         \/ Product(a, b)
         \/ \E o \in {"/", "%"} : StartDivision(o, a, b) \/ ShortDivision(o, a, b)
    \/ Looping
    \/ EndDivision
    \/ Remainder

(* A loop goes on as long as its condition holds.                           *)
Spec == Init /\ [][Next]_vars /\ WF_vars(Looping)

-----------------------------------------------------------------------------
Magnitude(n) == IF n < 0 THEN -n ELSE n
Sign(n) == IF n = 0 THEN 0 ELSE IF n < 0 THEN -1 ELSE 1

Decimals2 == Larger(left.point, right.point)
Finite == left.kind = "finite" /\ right.kind = "finite"
Done(ops) == phase = "idle" /\ op \in ops /\ Finite

(* Digits are digits; zeros at the end of a fraction or at the start of     *)
(* what is before it are gone, and only "-x" and division give a zero that  *)
(* is negative.                                                             *)
Normal(x) ==
    /\ x.digits # <<>> /\ Proper(x)
    /\ x.point \in Nat
    /\ x.point > 0 => Last(x.digits) # 0
    /\ Head(x.digits) = 0 /\ Len(x.digits) > 1 => Len(x.digits) <= x.point

TypeOK ==
    /\ phase \in {"idle", "scale", "digits", "remainder"}
    /\ op \in {"+x", "-x", "+", "-", "*", "/", "%"}
    /\ count \in 0 .. MaxOps
    /\ \A x \in {left, right, result} : Normal(x)
    /\ IsZero(result.digits) /\ result.neg /\ result.kind = "finite" => op \in {"-x", "+x", "/", "%"}
    /\ phase = "idle" => NoDivision

(* Sums and differences are exact, whatever the signs and the decimals.     *)
SumsExact ==
    /\ Done({"+"}) =>
         Units(result, Decimals2) = Units(left, Decimals2) + Units(right, Decimals2)
    /\ Done({"-"}) =>
         Units(result, Decimals2) = Units(left, Decimals2) - Units(right, Decimals2)

(* A product is off by half a unit of the last decimal at most, and exact   *)
(* with no more decimals than there may be.                                 *)
ProductsRounded ==
    Done({"*"}) =>
        LET p == left.point + right.point
            error == Units(result, p) - Units(left, left.point) * Units(right, right.point)
        IN  2 * Magnitude(error) * Tens[Precision] <= Tens[p]

(* A quotient is off by less than one unit of the last decimal.             *)
QuotientsClose ==
    Done({"/"}) /\ ~IsZero(right.digits) =>
        LET p == Decimals2
            divisor == Magnitude(Units(right, p))
        IN  Magnitude(Units(result, Precision) * divisor
                         - Side(right.neg) * Units(left, p) * Tens[Precision]) < divisor

(* A remainder is exact, smaller than the divisor, and has the sign of the  *)
(* dividend.                                                                *)
RemaindersExact ==
    Done({"%"}) /\ ~IsZero(right.digits) /\ right.point <= Precision =>
        Units(result, Decimals2) =
            Side(left.neg) * (Magnitude(Units(left, Decimals2)) % Magnitude(Units(right, Decimals2)))

(* What is printed of a number is the number, and can be read again.        *)
TextKept ==
    Done({"+x"}) => /\ Units(result, left.point) = Units(left, left.point)
                    /\ Text(result).whole = Text(left).whole
                    /\ Text(result).fraction = Text(left).fraction

(* Numbers that differ by more than the tolerance are in order, others are  *)
(* equal, unless both are negative or one is a negative zero.               *)
OrderKept ==
    /\ phase = "idle" /\ Finite
    /\ ~(left.neg /\ right.neg)
    /\ ~(\E x \in {left, right} : x.neg /\ IsZero(x.digits))
    =>
        LET p == Larger(Decimals2, Tolerance)
            difference == Units(left, p) - Units(right, p)
        IN  Cmp(left, right) =
              IF left.neg = right.neg /\ Magnitude(difference) <= Tens[p - Tolerance] THEN 0
              ELSE Sign(difference)

(* Every division gets all digits of its quotient.                          *)
DivisionEnds == phase = "scale" ~> AllDigits
=============================================================================
