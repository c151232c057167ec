--------------------------- MODULE Calculator_proofs ---------------------------
(***************************************************************************)
(* Proofs about module Calculator, for every set of literals, any number   *)
(* of decimals and any tolerance, and for strings of any length, from the  *)
(* facts about the arithmetic in Decimals_proofs.                          *)
(***************************************************************************)
EXTENDS Calculator, Decimals_proofs

(* What an operand is: digits, in the form Trim gives a number.              *)
Usable(x) == Numeric(x) /\ Trimmed(x)

-----------------------------------------------------------------------------
(* Literals and results.                                                   *)

(* A literal is an operand. *)
LEMMA LiteralUsable ==
    ASSUME NEW t \in Literals
    PROVE  Usable(FromText(t))
<1> DEFINE S == 0 .. 9
           f == t.fraction
           d == t.whole \o f
           x == Number(t.neg, d, Len(f))
<1>1. t.neg \in BOOLEAN /\ t.whole \in Seq(S) /\ t.whole # <<>> /\ f \in Seq(S)
  BY LiteralsAssumption
<1>2. d \in Seq(S) /\ Len(d) >= 1 /\ Len(f) \in Nat
  <2> DEFINE w == t.whole
  <2>1. w \in Seq(S) /\ w # <<>> /\ f \in Seq(S) /\ d = w \o f
    BY <1>1
  <2> HIDE DEF S, w, f, d
  <2>2. Len(w) \in Nat /\ Len(w) >= 1 /\ Len(f) \in Nat
    BY <2>1
  <2>3. w \o f \in Seq(S) /\ Len(w \o f) = Len(w) + Len(f)
    BY <2>1
  <2>4. Len(d) >= 1
    BY <2>1, <2>2, <2>3
  <2>5. QED
    BY <2>1, <2>2, <2>3, <2>4
<1> DEFINE y == FromText(t)
<1>3. y = Trim(x)
  BY DEF FromText
<1> HIDE DEF d, f
<1>4. d \in Seq(Nat)
  BY <1>2, ValueBound
<1>5. Shape(x) /\ x.kind = "finite" /\ x.digits \in Seq(0 .. 9)
  BY <1>1, <1>2, <1>4, NumberFacts
<1> HIDE DEF x, y
<1>6. Shape(y) /\ y.digits \in Seq(0 .. 9) /\ Trimmed(y)
  BY <1>3, <1>5, TrimFacts DEF Trimmed
<1>7. QED
  BY <1>6 DEF Usable, Numeric, y

(* So is the last result when its digits are digits. *)
LEMMA OperandsUsable ==
    ASSUME Shape(result), Trimmed(result), NEW a \in Operands
    PROVE  Usable(a)
<1>1. CASE a \in {FromText(t) : t \in Literals}
  BY <1>1, LiteralUsable
<1>2. CASE a = result /\ Proper(a)
  <2> DEFINE s == a.digits
  <2>1. s \in Seq(Nat) /\ DOMAIN s = 1 .. Len(s) /\ Len(s) \in Nat
    BY <1>2, ShapeParts
  <2>2. \A i \in 1 .. Len(s) : s[i] \in 0 .. 9
    BY <1>2, <2>1 DEF Proper
  <2> HIDE DEF s
  <2>3. s \in Seq(0 .. 9)
    BY <2>1, <2>2
  <2>4. QED
    BY <1>2, <2>3 DEF Usable, Numeric, s
<1>3. QED
  BY <1>1, <1>2 DEF Operands

(* The results of the operators of one operand, and of a division that is   *)
(* not a long one, can be operands. *)
LEMMA PlusUsable ==
    ASSUME NEW a, Usable(a)
    PROVE  Usable(IF a.kind = "finite" THEN FromText(Text(a)) ELSE a)
  BY TextFacts DEF Usable

(* bigfloat_neg of an operand. *)
LEMMA MinusUsable ==
    ASSUME NEW a, Usable(a)
    PROVE  Usable(Neg(a))
<1> DEFINE c == [a EXCEPT !.neg = ~@]
<1>1. Shape(a) /\ a.digits \in Seq(0 .. 9) /\ Trimmed(a)
  BY DEF Usable, Numeric
<1>2. Shape(c) /\ c.digits = a.digits /\ c.point = a.point
  BY <1>1, NegatedFacts
<1>3. Neg(a) = c \/ Neg(a) = a
  BY DEF Neg
<1> HIDE DEF c
<1>4. Usable(c)
  BY <1>1, <1>2 DEF Usable, Numeric, Trimmed
<1>5. QED
  BY <1>3, <1>4

(* A quotient without a long division, and NaN. *)
LEMMA ShortUsable ==
    ASSUME NEW a, Usable(a), NEW b, Usable(b)
    PROVE  Usable(ShortQuotient(a, b)) /\ Usable(NaN)
<1> DEFINE neg == a.neg # b.neg
           z == [Zero EXCEPT !.neg = neg]
<1>1. neg \in BOOLEAN
  OBVIOUS
<1>2. Usable(NaN) /\ Usable(Inf(neg)) /\ Usable(Zero)
  BY <1>1, SpecialFacts DEF Usable
<1>3. Usable(z)
  <2> DEFINE d == <<0>>
  <2>1. z = Number(neg, d, 0)
    BY DEF Zero, Number
  <2>2. d \in Seq(Nat) /\ Len(d) = 1 /\ d \in Seq(0 .. 9)
    OBVIOUS
  <2> HIDE DEF neg, d, z
  <2>3. Numeric(z) /\ z.digits = d /\ z.point = 0
    <3> DEFINE p == 0
    <3> DEFINE y == Number(neg, d, p)
    <3>1. p \in Nat /\ Len(d) >= 1 /\ d \in Seq(Nat) /\ d \in Seq(0 .. 9)
      BY <2>2
    <3>2. z = y
      BY <2>1
    <3> HIDE DEF p
    <3>3. Shape(y) /\ y.digits = d /\ y.point = p
      BY <1>1, <3>1, NumberFacts
    <3> HIDE DEF y
    <3>4. QED
      BY <3>1, <3>2, <3>3 DEF p, Numeric
  <2>4. ~(z.point > 0) /\ ~(Len(z.digits) > 1)
    <3>1. Len(z.digits) = 1
      BY <2>2, <2>3
    <3>2. QED
      BY <2>3, <3>1
  <2>5. QED
    BY <2>3, <2>4 DEF Usable, Trimmed
<1>4. ShortQuotient(a, b) \in {NaN, z, Inf(neg)}
  BY DEF ShortQuotient
<1>5. QED
  BY <1>2, <1>3, <1>4

-----------------------------------------------------------------------------
(* The inductive invariant.                                                *)

Phases == {"idle", "scale", "digits", "remainder"}
Operations == {"+x", "-x", "+", "-", "*", "/", "%"}

(* Operands are operands.  A result is a number in its form; the digits of  *)
(* a quotient are shown to be digits where the division is.                 *)
NumbersInv ==
    /\ Usable(left) /\ Usable(right)
    /\ Shape(result) /\ Trimmed(result)
    /\ phase \in Phases /\ op \in Operations /\ count \in 0 .. MaxOps

(* The strings of a division, and what a division is of.                    *)
StringsInv ==
    /\ num \in Seq(0 .. 9) /\ den \in Seq(0 .. 9) /\ rem \in Seq(0 .. 9)
    /\ quotient \in Seq(Nat) /\ zeros \in Nat
    /\ phase \in {"idle", "remainder"} => NoDivision
    /\ phase \in {"scale", "digits"} => Len(num) >= 1 /\ Len(den) >= 1
    /\ phase # "idle" => op \in {"/", "%"} /\ IsLong(left, right)
    /\ phase = "remainder" => op = "%"

(* Which function of the operands a result is.                              *)
ResultInv ==
    phase = "idle" =>
      /\ op = "+" => result = Add(left, right)
      /\ op = "-" => result = Sub(left, right)
      /\ op = "*" => result = Mul(left, right)
      /\ op = "+x" => result = left \/ (left.kind = "finite" /\ result = FromText(Text(left)))
      /\ IsZero(result.digits) /\ result.neg /\ result.kind = "finite" =>
           op \in {"-x", "+x", "/", "%"}

Inv == NumbersInv /\ StringsInv /\ ResultInv

(* A literal, and nothing else. *)
LEMMA InitInv == Init => Inv
<1> SUFFICES ASSUME Init PROVE Inv
  OBVIOUS
<1>1. Usable(left) /\ Usable(right) /\ result = left
  BY LiteralUsable, SpecialFacts DEF Init, Usable
<1>2. NumbersInv
  BY <1>1, BoundsAssumption DEF Init, NumbersInv, Usable, Numeric, Phases, Operations
<1>3. StringsInv
  BY DEF Init, StringsInv, NoDivision
<1>4. ResultInv
  BY DEF Init, ResultInv
<1>5. QED
  BY <1>2, <1>3, <1>4 DEF Inv

(* An operation that is done at once. *)
LEMMA ComputedInv ==
    ASSUME Inv, NEW o \in Operations, NEW a, Usable(a), NEW b, Usable(b), NEW x, Usable(x),
           Computed(o, a, b, x),
           o = "+" => x = Add(a, b),
           o = "-" => x = Sub(a, b),
           o = "*" => x = Mul(a, b),
           o = "+x" => x = a \/ (a.kind = "finite" /\ x = FromText(Text(a)))
    PROVE  Inv'
<1>1. /\ phase = "idle" /\ phase' = phase /\ count < MaxOps /\ count' = count + 1
      /\ op' = o /\ left' = a /\ right' = b /\ result' = x
      /\ num' = num /\ den' = den /\ zeros' = zeros /\ rem' = rem /\ quotient' = quotient
  BY DEF Computed, Begin, division
<1>2. NumbersInv'
  <2>1. count' \in 0 .. MaxOps
    BY <1>1, BoundsAssumption DEF Inv, NumbersInv
  <2>2. Shape(x) /\ Trimmed(x)
    BY DEF Usable, Numeric
  <2>3. QED
    BY <1>1, <2>1, <2>2 DEF Inv, NumbersInv
<1>3. StringsInv'
  BY <1>1 DEF Inv, StringsInv, NoDivision
<1>4. o \in {"+", "-", "*"} /\ IsZero(x.digits) /\ x.kind = "finite" => x.neg = FALSE
  <2>1. Shape(a) /\ Shape(b) /\ Numeric(a) /\ Numeric(b) /\ Shape(x)
    BY DEF Usable, Numeric
  <2>2. IsZero(x.digits) => Value(x.digits) = 0
    <3>1. x.digits \in Seq(Nat)
      BY <2>1, ShapeParts
    <3>2. QED
      BY <3>1, ValueZero
  <2>3. Loose(a)
    BY <2>1, ShapeParts DEF Loose
  <2>4. CASE o = "+"
    BY <2>1, <2>2, <2>4, AddFacts
  <2>5. CASE o = "-"
    BY <2>1, <2>2, <2>5, SubFacts
  <2>6. CASE o = "*"
    BY <2>1, <2>2, <2>3, <2>6, MulFacts
  <2>7. QED
    BY <2>4, <2>5, <2>6
<1>5. ResultInv'
  <2>1. o \in {"+", "-", "*"} \/ o \in {"-x", "+x", "/", "%"}
    BY DEF Operations
  <2>2. QED
    BY <1>1, <1>4, <2>1 DEF ResultInv
<1>6. QED
  BY <1>2, <1>3, <1>5 DEF Inv

-----------------------------------------------------------------------------
(* The steps of a division.                                                *)

(* A division begins: the strings are digits. *)
LEMMA StartInv ==
    ASSUME Inv, NEW o \in {"/", "%"}, NEW a, Usable(a), NEW b, Usable(b), StartDivision(o, a, b)
    PROVE  Inv'
<1> DEFINE p == Larger(a.point, b.point)
           s == Align(a, p).digits
           t == Align(b, p).digits
<1>1. /\ phase = "idle" /\ phase' = "scale" /\ count < MaxOps /\ count' = count + 1
      /\ op' = o /\ left' = a /\ right' = b /\ result' = result /\ IsLong(a, b)
      /\ num' = s \o Zeros(Precision) /\ den' = t /\ zeros' = Precision
      /\ rem' = rem /\ quotient' = quotient
  BY DEF StartDivision, Begin
<1>2. Numeric(a) /\ Numeric(b) /\ p \in Nat /\ p >= a.point /\ p >= b.point
  BY LargerFacts, ShapeParts DEF Usable, Numeric
<1> HIDE DEF p
<1>3. s \in Seq(0 .. 9) /\ Len(s) >= 1 /\ t \in Seq(0 .. 9) /\ Len(t) >= 1
  BY <1>2, AlignFacts
<1> HIDE DEF s, t
<1>4. Precision \in Nat /\ Zeros(Precision) \in Seq(0 .. 9) /\ Len(Zeros(Precision)) \in Nat
  BY PrecisionAssumption, ZerosType
<1>5. num' \in Seq(0 .. 9) /\ Len(num') >= 1
  <2> DEFINE z == Zeros(Precision)
             S == 0 .. 9
  <2>1. s \in Seq(S) /\ z \in Seq(S) /\ Len(s) >= 1 /\ Len(z) \in Nat /\ num' = s \o z
    BY <1>1, <1>3, <1>4
  <2> HIDE DEF z, S
  <2>2. s \o z \in Seq(S) /\ Len(s \o z) = Len(s) + Len(z) /\ Len(s) \in Nat
    BY <2>1
  <2>3. num' \in Seq(S) /\ Len(num') >= 1
    BY <2>1, <2>2
  <2>4. QED
    BY <2>3 DEF S
<1>6. NumbersInv'
  BY <1>1, BoundsAssumption DEF Inv, NumbersInv, Phases, Operations
<1>7. StringsInv'
  BY <1>1, <1>3, <1>4, <1>5 DEF Inv, StringsInv, NoDivision
<1>8. ResultInv'
  BY <1>1 DEF ResultInv
<1>9. QED
  BY <1>6, <1>7, <1>8 DEF Inv

(* One more zero for the dividend. *)
LEMMA ScaleInv == ASSUME Inv, Scale PROVE Inv'
<1>1. /\ phase = "scale" /\ phase' = phase /\ count' = count /\ op' = op /\ left' = left
      /\ right' = right /\ result' = result /\ num' = Append(num, 0) /\ den' = den
      /\ zeros' = zeros + 1 /\ rem' = rem /\ quotient' = quotient
  BY DEF Scale
<1>2. num' \in Seq(0 .. 9) /\ Len(num') >= 1
  <2> DEFINE S == 0 .. 9
  <2>1. num \in Seq(S) /\ 0 \in S /\ num' = Append(num, 0)
    BY <1>1 DEF Inv, StringsInv
  <2> HIDE DEF S
  <2>2. num' \in Seq(S) /\ Len(num') = Len(num) + 1 /\ Len(num) \in Nat
    BY <2>1
  <2>3. QED
    BY <2>2 DEF S
<1>3. NumbersInv'
  BY <1>1 DEF Inv, NumbersInv
<1>4. StringsInv'
  BY <1>1, <1>2 DEF Inv, StringsInv
<1>5. ResultInv'
  BY <1>1 DEF ResultInv
<1>6. QED
  BY <1>3, <1>4, <1>5 DEF Inv

(* The dividend is not below the divisor any more. *)
LEMMA StartDigitsInv == ASSUME Inv, StartDigits PROVE Inv'
<1>1. /\ phase = "scale" /\ phase' = "digits" /\ count' = count /\ op' = op /\ left' = left
      /\ right' = right /\ result' = result /\ num' = num /\ den' = den
      /\ zeros' = zeros /\ rem' = rem /\ quotient' = quotient
  BY DEF StartDigits, division
<1>2. NumbersInv'
  BY <1>1 DEF Inv, NumbersInv, Phases
<1>3. StringsInv'
  BY <1>1 DEF Inv, StringsInv
<1>4. ResultInv'
  BY <1>1 DEF ResultInv
<1>5. QED
  BY <1>2, <1>3, <1>4 DEF Inv

(* The rest is not below the divisor when that fits. *)
LEMMA FitsFacts ==
    ASSUME Inv, phase = "digits", Fits
    PROVE  Len(rem) >= 1 /\ Value(den) <= Value(rem)
<1>1. /\ rem \in Seq(0 .. 9) /\ den \in Seq(0 .. 9) /\ Len(den) >= 1 /\ Len(rem) >= Len(den)
      /\ CompareDigits(rem, den) >= 0
  BY DEF Inv, StringsInv, Fits
<1>2. Len(rem) >= 1
  BY <1>1
<1>3. Value(rem) \in Nat /\ Value(den) \in Nat
  BY <1>1, ValueBound
<1>4. CompareDigits(rem, den) = IF Value(rem) > Value(den) THEN 1
                                ELSE IF Value(rem) = Value(den) THEN 0 ELSE -1
  BY <1>1, <1>2, CompareFacts
<1>5. QED
  BY <1>1, <1>2, <1>3, <1>4

(* The divisor is taken away once. *)
LEMMA SubtractInv == ASSUME Inv, Subtract PROVE Inv'
<1>1. /\ phase = "digits" /\ phase' = phase /\ count' = count /\ op' = op /\ left' = left
      /\ right' = right /\ result' = result /\ num' = num /\ den' = den
      /\ zeros' = zeros /\ rem' = Bare(SubDigits(rem, den))
      /\ quotient' = [quotient EXCEPT ![Len(quotient)] = @ + 1]
      /\ Fits
  BY DEF Subtract
<1>2. rem' \in Seq(0 .. 9)
  <2>1. SubDigits(rem, den) \in Seq(0 .. 9)
    BY <1>1, FitsFacts, SubDigitsFacts DEF Inv, StringsInv
  <2>2. 0 .. 9 \in SUBSET Int
    OBVIOUS
  <2> DEFINE S == 0 .. 9
             s == SubDigits(rem, den)
  <2>3. S \in SUBSET Int /\ s \in Seq(S) /\ rem' = Bare(s)
    BY <1>1, <2>1, <2>2
  <2> HIDE DEF S, s
  <2>4. rem' \in Seq(S)
    BY <2>3, BareFacts
  <2>5. QED
    BY <2>4 DEF S
<1>3. quotient' \in Seq(Nat)
  <2> DEFINE q == quotient
             n == Len(quotient)
             f == [q EXCEPT ![n] = @ + 1]
  <2>1. q \in [1 .. n -> Nat] /\ n \in Nat /\ quotient' = f
    BY <1>1 DEF Inv, StringsInv
  <2> HIDE DEF q, n
  <2>2. DOMAIN f = 1 .. n /\ f = [i \in 1 .. n |-> f[i]]
    BY <2>1
  <2>3. ASSUME NEW i \in 1 .. n PROVE f[i] \in Nat
    <3>1. q[i] \in Nat
      BY <2>1
    <3>2. f[i] = IF i = n THEN q[i] + 1 ELSE q[i]
      BY <2>1
    <3>3. QED
      BY <3>1, <3>2
  <2> HIDE DEF f
  <2>4. f \in [1 .. n -> Nat]
    BY <2>2, <2>3
  <2>5. QED
    BY <2>1, <2>4, SeqOfFunction
<1>4. NumbersInv'
  BY <1>1 DEF Inv, NumbersInv
<1>5. StringsInv'
  BY <1>1, <1>2, <1>3 DEF Inv, StringsInv
<1>6. ResultInv'
  BY <1>1 DEF ResultInv
<1>7. QED
  BY <1>4, <1>5, <1>6 DEF Inv

(* A digit is brought down. *)
LEMMA NextDigitInv == ASSUME Inv, NextDigit PROVE Inv'
<1>1. /\ phase = "digits" /\ phase' = phase /\ count' = count /\ op' = op /\ left' = left
      /\ right' = right /\ result' = result /\ num' = num /\ den' = den
      /\ zeros' = zeros /\ rem' = Bare(Append(rem, num[Len(quotient) + 1]))
      /\ quotient' = Append(quotient, 0) /\ Len(quotient) < Len(num)
  BY DEF NextDigit
<1>2. quotient' \in Seq(Nat) /\ Len(quotient) \in Nat
  <2>1. quotient \in Seq(Nat) /\ quotient' = Append(quotient, 0)
    BY <1>1 DEF Inv, StringsInv
  <2>2. QED
    BY <2>1
<1>3. rem' \in Seq(0 .. 9)
  <2> DEFINE S == 0 .. 9
             d == num[Len(quotient) + 1]
             s == Append(rem, d)
  <2>1. num \in Seq(S) /\ rem \in Seq(S) /\ S \in SUBSET Int
    BY DEF Inv, StringsInv
  <2>2. Len(quotient) + 1 \in 1 .. Len(num)
    <3>1. Len(num) \in Nat
      BY <2>1
    <3>2. QED
      BY <1>1, <1>2, <3>1
  <2> HIDE DEF S
  <2>3. d \in S
    BY <2>1, <2>2
  <2> HIDE DEF d
  <2>4. s \in Seq(S)
    BY <2>1, <2>3
  <2>5. rem' = Bare(s)
    BY <1>1 DEF d
  <2> HIDE DEF s
  <2>6. rem' \in Seq(S)
    BY <2>1, <2>4, <2>5, BareFacts
  <2>7. QED
    BY <2>6 DEF S
<1>4. NumbersInv'
  BY <1>1 DEF Inv, NumbersInv
<1>5. StringsInv'
  BY <1>1, <1>2, <1>3 DEF Inv, StringsInv
<1>6. ResultInv'
  BY <1>1 DEF ResultInv
<1>7. QED
  BY <1>4, <1>5, <1>6 DEF Inv

(* The digits of the quotient become a number. *)
LEMMA EndInv == ASSUME Inv, EndDivision PROVE Inv'
<1> DEFINE neg == left.neg # right.neg
           x == Number(neg, quotient, zeros)
<1>1. /\ phase = "digits" /\ phase' = (IF op = "/" THEN "idle" ELSE "remainder")
      /\ count' = count /\ op' = op /\ left' = left /\ right' = right
      /\ num' = <<>> /\ den' = <<>> /\ zeros' = 0 /\ rem' = <<>> /\ quotient' = <<>>
      /\ result' = Limit(Trim(x)) /\ Len(quotient) = Len(num)
  BY DEF EndDivision, AllDigits
<1>2. quotient \in Seq(Nat) /\ Len(quotient) >= 1 /\ zeros \in Nat /\ op \in {"/", "%"}
      /\ IsLong(left, right)
  BY <1>1 DEF Inv, StringsInv
<1>3. neg \in BOOLEAN
  OBVIOUS
<1> HIDE DEF neg
<1>4. Shape(x) /\ x.kind = "finite"
  BY <1>2, <1>3, NumberFacts
<1> DEFINE y == Trim(x)
<1> HIDE DEF x
<1>5. Shape(y) /\ y.kind = "finite" /\ Trimmed(y)
  BY <1>4, TrimFacts DEF Trimmed
<1>6. result' = Limit(y)
  BY <1>1
<1> HIDE DEF y
<1>7. Shape(Limit(y)) /\ Trimmed(Limit(y))
  BY <1>5, LimitFacts
<1>8. NumbersInv'
  BY <1>1, <1>6, <1>7 DEF Inv, NumbersInv, Phases
<1>9. StringsInv'
  BY <1>1, <1>2 DEF StringsInv, NoDivision
<1>10. ResultInv'
  BY <1>1, <1>2 DEF ResultInv
<1>11. QED
  BY <1>8, <1>9, <1>10 DEF Inv

(* The whole part of a number has digits, or none. *)
LEMMA WholeFacts ==
    ASSUME NEW x, Shape(x)
    PROVE  /\ Loose(Whole(x)) /\ Whole(x).kind = "finite" /\ Whole(x).point = 0
           /\ x.digits \in Seq(0 .. 9) => Whole(x).digits \in Seq(0 .. 9)
           /\ Value(Whole(x).digits) = Value(SubSeq(x.digits, 1, Len(x.digits) - x.point))
           /\ Value(Whole(x).digits) # 0 => Whole(x).neg = x.neg
<1> DEFINE n == Len(x.digits) - x.point
           s == SubSeq(x.digits, 1, n)
           y == Number(x.neg, s, 0)
<1>1. /\ x.digits \in Seq(Nat) /\ Len(x.digits) \in Nat /\ x.point \in Nat /\ x.neg \in BOOLEAN
      /\ n \in Int /\ n <= Len(x.digits)
  BY ShapeParts
<1>2. Whole(x) = Trim(y)
  BY DEF Whole
<1>3. CASE n >= 1
  <2>1. /\ s \in Seq(Nat) /\ Len(s) >= 1
        /\ x.digits \in Seq(0 .. 9) => s \in Seq(0 .. 9)
    <3> HIDE DEF n
    <3>1. n \in 0 .. Len(x.digits)
      BY <1>1, <1>3
    <3>2. Nat \in SUBSET Nat /\ 0 .. 9 \in SUBSET Nat
      OBVIOUS
    <3>3. s \in Seq(Nat) /\ Len(s) = n
      BY <1>1, <3>1, <3>2, SplitFacts
    <3>4. x.digits \in Seq(0 .. 9) => s \in Seq(0 .. 9)
      BY <3>1, <3>2, SplitFacts
    <3>5. QED
      BY <1>3, <3>3, <3>4
  <2>2. 0 \in Nat /\ 0 >= 0
    OBVIOUS
  <2> HIDE DEF s
  <2>3. /\ Shape(y) /\ y.kind = "finite" /\ y.digits = s /\ y.point = 0 /\ y.neg = x.neg
        /\ Units(y, 0) = Side(x.neg) * Value(s)
    <3> DEFINE o == 0
               g == x.neg
               u == Number(g, s, o)
    <3>1. o \in Nat /\ y = u /\ g \in BOOLEAN /\ s \in Seq(Nat) /\ Len(s) >= 1
      BY <1>1, <2>1
    <3> HIDE DEF o, g
    <3>2. Shape(u) /\ u.kind = "finite" /\ u.digits = s /\ u.point = o /\ u.neg = g
      BY <3>1, NumberFacts
    <3>3. Units(u, o) = Side(g) * Value(s)
      BY <3>1, NumberFacts
    <3> HIDE DEF u, y
    <3>4. QED
      BY <3>1, <3>2, <3>3 DEF o, g
  <2> DEFINE z == Trim(y)
  <2> HIDE DEF y
  <2>4. /\ Shape(z) /\ z.kind = "finite" /\ z.point <= 0
        /\ x.digits \in Seq(0 .. 9) => z.digits \in Seq(0 .. 9)
        /\ Units(z, 0) = Units(y, 0)
        /\ Value(z.digits) # 0 => z.neg = x.neg
    BY <2>1, <2>2, <2>3, TrimFacts
  <2>5. Whole(x) = z
    BY <1>2
  <2> HIDE DEF z
  <2>6. z.point = 0 /\ Loose(z)
    BY <2>4, ShapeParts, SMTT(30) DEF Loose
  <2>7. Amount(z, 0) = Value(z.digits) /\ Value(z.digits) \in Nat /\ Value(s) \in Nat
    <3>1. Value(z.digits) \in Nat /\ Value(s) \in Nat
      BY <2>1, <2>4, ShapeParts, ValueNat
    <3>2. Amount(z, 0) = Value(z.digits) * Tens[0 - 0]
      BY <2>6 DEF Amount
    <3>3. 0 - 0 = 0
      OBVIOUS
    <3>4. QED
      BY <3>1, <3>2, <3>3, TensFacts
  <2>8. Units(z, 0) = Side(z.neg) * Value(z.digits)
    BY <2>2, <2>4, <2>6, <2>7, AmountFacts
  <2>9. Value(z.digits) = Value(s)
    <3> DEFINE a == Value(z.digits)
               b == Value(s)
               e == Side(z.neg)
               f == Side(x.neg)
    <3>1. e * a = f * b
      BY <2>3, <2>4, <2>8
    <3>2. e \in {-1, 1} /\ f \in {-1, 1} /\ a \in Nat /\ b \in Nat
      BY <2>7 DEF Side
    <3> HIDE DEF a, b, e, f
    <3>3. a = b
      BY <3>1, <3>2
    <3>4. QED
      BY <3>3 DEF a, b
  <2>10. QED
    BY <2>4, <2>5, <2>6, <2>9 DEF s, n
<1>4. CASE ~(n >= 1)
  <2>1. s = <<>>
    BY <1>1, <1>4
  <2> DEFINE z == Trim(y)
             last == Max({0} \cup {k \in 1 .. Smaller(y.point, Len(y.digits) - 1) :
                       IsZero(SubSeq(y.digits, Len(y.digits) - k + 1, Len(y.digits)))})
             first == Max({0} \cup {k \in 1 .. Smaller(Len(y.digits) - last - 1, Len(y.digits) - y.point) :
                       IsZero(SubSeq(y.digits, 1, k))})
             r == SubSeq(y.digits, first + 1, Len(y.digits) - last)
  <2>2. y.neg = x.neg /\ y.digits = <<>> /\ y.point = 0 /\ Len(y.digits) = 0
    BY <2>1 DEF Number
  <2>3. z = IF r = <<0>> THEN Zero ELSE Number(y.neg, r, y.point - last)
    BY DEF Trim
  <2>4. Max({0}) = 0
    <3>1. {0} \in SUBSET (0 .. 0) /\ {0} # {} /\ 0 \in Nat
      OBVIOUS
    <3>2. Max({0}) \in {0}
      BY <3>1, MaxNat
    <3>3. QED
      BY <3>2
  <2> HIDE DEF y
  <2>5. last = 0
    <3>1. Smaller(y.point, Len(y.digits) - 1) < 1
      BY <2>2 DEF Smaller
    <3>2. Smaller(y.point, Len(y.digits) - 1) \in Int
      BY <2>2 DEF Smaller
    <3> DEFINE m == Smaller(y.point, Len(y.digits) - 1)
    <3> HIDE DEF m
    <3>3. 1 .. m = {}
      BY <3>1, <3>2 DEF m
    <3>4. QED
      BY <2>4, <3>3 DEF m
  <2> HIDE DEF last
  <2>6. first = 0
    <3>1. Smaller(Len(y.digits) - last - 1, Len(y.digits) - y.point) < 1
      BY <2>2, <2>5 DEF Smaller
    <3>2. Smaller(Len(y.digits) - last - 1, Len(y.digits) - y.point) \in Int
      BY <2>2, <2>5 DEF Smaller
    <3> DEFINE m == Smaller(Len(y.digits) - last - 1, Len(y.digits) - y.point)
    <3> HIDE DEF m
    <3>3. 1 .. m = {}
      BY <3>1, <3>2 DEF m
    <3>4. QED
      BY <2>4, <3>3 DEF m
  <2> HIDE DEF first
  <2>7. r = <<>>
    BY <2>2, <2>5, <2>6
  <2> HIDE DEF r
  <2>8. r # <<0>>
    <3>1. Len(<<>>) = 0 /\ Len(<<0>>) = 1
      OBVIOUS
    <3>2. QED
      BY <2>7, <3>1
  <2>9. z = Number(x.neg, <<>>, 0)
    <3>1. z = Number(y.neg, r, y.point - last)
      BY <2>3, <2>8
    <3>2. y.point - last = 0
      BY <2>2, <2>5
    <3> HIDE DEF z
    <3>3. QED
      BY <2>2, <2>7, <3>1, <3>2
  <2> HIDE DEF z
  <2>10. z.neg = x.neg /\ z.digits = <<>> /\ z.point = 0 /\ z.kind = "finite"
    BY <2>9 DEF Number
  <2>11. Loose(z) /\ z.digits \in Seq(0 .. 9) /\ z.digits = s
    BY <1>1, <2>1, <2>10, SMTT(30) DEF Loose
  <2> HIDE DEF s
  <2>12. QED
    BY <1>2, <2>10, <2>11 DEF z, s
<1>5. QED
  BY <1>3, <1>4

(* bigfloat_mod goes on. *)
LEMMA RemainderInv == ASSUME Inv, Remainder PROVE Inv'
<1> DEFINE y == Mul(Whole(result), right)
<1>1. /\ phase = "remainder" /\ phase' = "idle" /\ count' = count /\ op' = op /\ left' = left
      /\ right' = right /\ result' = Sub(left, y) /\ num' = num /\ den' = den
      /\ zeros' = zeros /\ rem' = rem /\ quotient' = quotient
  BY DEF Remainder, division
<1>2. op = "%" /\ Numeric(left) /\ Shape(right) /\ Shape(result)
  BY <1>1 DEF Inv, NumbersInv, StringsInv, Usable, Numeric
<1>3. Numeric(y)
  BY <1>2, WholeFacts, MulFacts
<1> HIDE DEF y
<1>4. Numeric(Sub(left, y)) /\ Trimmed(Sub(left, y))
  BY <1>2, <1>3, SubFacts
<1>5. NumbersInv'
  BY <1>1, <1>4 DEF Inv, NumbersInv, Numeric, Phases
<1>6. StringsInv'
  BY <1>1 DEF Inv, StringsInv, NoDivision
<1>7. ResultInv'
  BY <1>1, <1>2 DEF ResultInv
<1>8. QED
  BY <1>5, <1>6, <1>7 DEF Inv

-----------------------------------------------------------------------------
(* Every step. *)
LEMMA NextInv == ASSUME Inv, [Next]_vars PROVE Inv'
<1>1. \A a \in Operands : Usable(a)
  BY OperandsUsable DEF Inv, NumbersInv
<1>2. Usable(Zero)
  BY SpecialFacts DEF Usable
<1>3. CASE \E a \in Operands : Plus(a)
  <2>1. PICK a \in Operands : Plus(a)
    BY <1>3
  <2> DEFINE x == IF a.kind = "finite" THEN FromText(Text(a)) ELSE a
  <2>2. Computed("+x", a, Zero, x) /\ Usable(a) /\ Usable(x)
    BY <1>1, <2>1, PlusUsable DEF Plus
  <2>3. "+x" \in Operations /\ (x = a \/ (a.kind = "finite" /\ x = FromText(Text(a))))
    BY DEF Operations
  <2> HIDE DEF x
  <2>4. QED
    BY <1>2, <2>2, <2>3, ComputedInv
<1>4. CASE \E a \in Operands : Minus(a)
  <2>1. PICK a \in Operands : Minus(a)
    BY <1>4
  <2>2. Computed("-x", a, Zero, Neg(a)) /\ Usable(a) /\ Usable(Neg(a)) /\ "-x" \in Operations
    BY <1>1, <2>1, MinusUsable DEF Minus, Operations
  <2>3. QED
    BY <1>2, <2>2, ComputedInv
<1>5. CASE \E a, b \in Operands :
             \/ Sum(a, b)
             \/ Difference(a, b)
             \/ Product(a, b)
             \/ \E o \in {"/", "%"} : StartDivision(o, a, b) \/ ShortDivision(o, a, b)
  <2>1. PICK a \in Operands, b \in Operands :
             \/ Sum(a, b)
             \/ Difference(a, b)
             \/ Product(a, b)
             \/ \E o \in {"/", "%"} : StartDivision(o, a, b) \/ ShortDivision(o, a, b)
    BY <1>5
  <2>2. Usable(a) /\ Usable(b) /\ Numeric(a) /\ Numeric(b) /\ Shape(b) /\ Loose(a)
    <3>1. Usable(a) /\ Usable(b)
      BY <1>1
    <3>2. Numeric(a) /\ Numeric(b) /\ Shape(a) /\ Shape(b)
      BY <3>1 DEF Usable, Numeric
    <3>3. QED
      BY <3>1, <3>2, ShapeParts DEF Loose
  <2>3. CASE Sum(a, b)
    <3>1. Computed("+", a, b, Add(a, b)) /\ Usable(Add(a, b)) /\ "+" \in Operations
      BY <2>2, <2>3, AddFacts DEF Sum, Operations, Usable
    <3>2. QED
      BY <2>2, <3>1, ComputedInv
  <2>4. CASE Difference(a, b)
    <3>1. Computed("-", a, b, Sub(a, b)) /\ Usable(Sub(a, b)) /\ "-" \in Operations
      BY <2>2, <2>4, SubFacts DEF Difference, Operations, Usable
    <3>2. QED
      BY <2>2, <3>1, ComputedInv
  <2>5. CASE Product(a, b)
    <3>1. Computed("*", a, b, Mul(a, b)) /\ Usable(Mul(a, b)) /\ "*" \in Operations
      BY <2>2, <2>5, MulFacts DEF Product, Operations, Usable
    <3>2. QED
      BY <2>2, <3>1, ComputedInv
  <2>6. CASE \E o \in {"/", "%"} : StartDivision(o, a, b)
    BY <2>2, <2>6, StartInv
  <2>7. CASE \E o \in {"/", "%"} : ShortDivision(o, a, b)
    <3>1. PICK o \in {"/", "%"} : ShortDivision(o, a, b)
      BY <2>7
    <3> DEFINE x == IF o = "/" THEN ShortQuotient(a, b) ELSE NaN
    <3>2. Computed(o, a, b, x)
      BY <3>1 DEF ShortDivision
    <3>3. Usable(x)
      BY <2>2, ShortUsable
    <3> HIDE DEF x
    <3>4. o \in Operations /\ o # "+" /\ o # "-" /\ o # "*" /\ o # "+x"
      BY DEF Operations
    <3>5. QED
      BY <2>2, <3>2, <3>3, <3>4, ComputedInv
  <2>8. QED
    BY <2>1, <2>3, <2>4, <2>5, <2>6, <2>7
<1>6. CASE Looping
  BY <1>6, ScaleInv, StartDigitsInv, SubtractInv, NextDigitInv DEF Looping
<1>7. CASE EndDivision
  BY <1>7, EndInv
<1>8. CASE Remainder
  BY <1>8, RemainderInv
<1>9. CASE UNCHANGED vars
  BY <1>9 DEF vars, Inv, NumbersInv, StringsInv, ResultInv, NoDivision
<1>10. QED
  BY <1>3, <1>4, <1>5, <1>6, <1>7, <1>8, <1>9 DEF Next

(* The invariant holds in every state that is reached. *)
LEMMA SpecInv == Spec => []Inv
<1>1. Init => Inv
  BY InitInv
<1>2. Inv /\ [Next]_vars => Inv'
  BY NextInv
<1>3. QED
  BY <1>1, <1>2, PTL DEF Spec

-----------------------------------------------------------------------------
(* What the runs check.                                                    *)

(* bigfloat_add and bigfloat_sub are exact, whatever the signs, the number  *)
(* of digits and the number of decimals. *)
THEOREM SumsAreExact == Spec => []SumsExact
<1>1. Inv => SumsExact
  <2> SUFFICES ASSUME Inv PROVE SumsExact
    OBVIOUS
  <2>1. Numeric(left) /\ Numeric(right)
    BY DEF Inv, NumbersInv, Usable
  <2>2. Decimals2 = Larger(left.point, right.point)
    BY DEF Decimals2
  <2>3. ASSUME Done({"+"})
        PROVE  Units(result, Decimals2) = Units(left, Decimals2) + Units(right, Decimals2)
    <3>1. result = Add(left, right) /\ left.kind = "finite" /\ right.kind = "finite"
      BY <2>3 DEF Done, Finite, Inv, ResultInv
    <3>2. QED
      BY <2>1, <2>2, <3>1, AddFacts
  <2>4. ASSUME Done({"-"})
        PROVE  Units(result, Decimals2) = Units(left, Decimals2) - Units(right, Decimals2)
    <3>1. result = Sub(left, right) /\ left.kind = "finite" /\ right.kind = "finite"
      BY <2>4 DEF Done, Finite, Inv, ResultInv
    <3>2. QED
      BY <2>1, <2>2, <3>1, SubFacts
  <2>5. QED
    BY <2>3, <2>4 DEF SumsExact
<1>2. QED
  BY <1>1, SpecInv, PTL

(* bigfloat_to_string, read again by bigfloat_create as the unary plus does, *)
(* gives the same number, and the same text when it is printed once more.    *)
THEOREM TextIsKept == Spec => []TextKept
<1>1. Inv => TextKept
  <2> SUFFICES ASSUME Inv, Done({"+x"})
               PROVE  /\ Units(result, left.point) = Units(left, left.point)
                      /\ Text(result).whole = Text(left).whole
                      /\ Text(result).fraction = Text(left).fraction
    BY DEF TextKept
  <2>1. Numeric(left) /\ Trimmed(left) /\ left.kind = "finite"
    BY DEF Inv, NumbersInv, Usable, Done, Finite
  <2>2. result = left \/ result = FromText(Text(left))
    BY DEF Inv, ResultInv, Done
  <2>3. CASE result = left
    BY <2>3
  <2>4. CASE result = FromText(Text(left))
    BY <2>1, <2>4, TextFacts
  <2>5. QED
    BY <2>2, <2>3, <2>4
<1>2. QED
  BY <1>1, SpecInv, PTL

(* bigfloat_cmp orders numbers that are more than the tolerance apart, and   *)
(* takes the others for equal, unless both are negative or one is a negative *)
(* zero. *)
THEOREM OrderIsKept == Spec => []OrderKept
<1>1. Inv => OrderKept
  <2> DEFINE p == Larger(Decimals2, Tolerance)
             d == Units(left, p) - Units(right, p)
             e == Tens[p - Tolerance]
  <2> SUFFICES ASSUME Inv, Finite,
                      ~(left.neg /\ right.neg),
                      ~(\E x \in {left, right} : x.neg /\ IsZero(x.digits))
               PROVE  Cmp(left, right) = IF left.neg = right.neg /\ Magnitude(d) <= e THEN 0 ELSE Sign(d)
    BY DEF OrderKept
  <2>1. /\ Numeric(left) /\ Numeric(right) /\ Shape(left) /\ Shape(right)
        /\ left.kind = "finite" /\ right.kind = "finite"
    BY DEF Inv, NumbersInv, Usable, Numeric, Finite
  <2>2. left.neg \in BOOLEAN /\ right.neg \in BOOLEAN /\ left.point \in Nat /\ right.point \in Nat
        /\ left.digits \in Seq(Nat) /\ right.digits \in Seq(Nat)
    BY <2>1, ShapeParts
  <2>3. p \in Nat /\ p >= left.point /\ p >= right.point /\ p >= Tolerance /\ Tolerance \in Nat
    <3>1. /\ Decimals2 \in Nat /\ Decimals2 >= left.point /\ Decimals2 >= right.point
      BY <2>2, LargerFacts DEF Decimals2
    <3>2. Tolerance \in Nat
      BY PrecisionAssumption
    <3> DEFINE n == Decimals2
    <3> HIDE DEF n
    <3>3. Larger(n, Tolerance) \in Nat /\ Larger(n, Tolerance) >= n /\ Larger(n, Tolerance) >= Tolerance
      BY <3>1, <3>2, LargerFacts DEF n
    <3>4. p = Larger(n, Tolerance) /\ n \in Nat /\ n >= left.point /\ n >= right.point
      BY <3>1 DEF n
    <3> HIDE DEF p
    <3>5. p \in Nat /\ p >= n /\ p >= Tolerance
      BY <3>3, <3>4
    <3>6. QED
      BY <2>2, <3>2, <3>4, <3>5
  <2> HIDE DEF p
  <2>4. /\ Amount(left, p) \in Nat /\ Amount(right, p) \in Nat
        /\ Units(left, p) = Side(left.neg) * Amount(left, p)
        /\ Units(right, p) = Side(right.neg) * Amount(right, p)
        /\ Value(left.digits) = 0 <=> Amount(left, p) = 0
        /\ Value(right.digits) = 0 <=> Amount(right, p) = 0
    BY <2>1, <2>3, AmountFacts
  <2>5. /\ left.neg => Amount(left, p) # 0
        /\ right.neg => Amount(right, p) # 0
    BY <2>2, <2>4, ValueZero
  <2>6. e \in Nat
    <3>1. p - Tolerance \in Nat
      BY <2>3
    <3>2. QED
      BY <3>1, TensFacts
  <2> DEFINE side == IF -e <= d /\ d <= e THEN 0 ELSE IF d < 0 THEN -1 ELSE 1
  <2>7. CompareFinite(left, right) = IF left.neg # right.neg THEN Side(left.neg)
                                     ELSE IF left.neg THEN -side ELSE side
    BY <2>1, <2>3, CompareFiniteFacts
  <2>8. Cmp(left, right) = CompareFinite(left, right)
    <3>1. Kinds(left, right) = {"finite"} /\ "nan" \notin Kinds(left, right)
      BY <2>1 DEF Kinds
    <3>2. QED
      BY <2>1, <3>1 DEF Cmp
  <2> DEFINE a == Amount(left, p)
             b == Amount(right, p)
  <2>9. /\ Side(TRUE) = -1 /\ Side(FALSE) = 1
    BY DEF Side
  <2>10. CASE ~left.neg /\ ~right.neg
    <3>1. d = a - b
      <4>1. left.neg = FALSE /\ right.neg = FALSE
        BY <2>2, <2>10
      <4>2. Units(left, p) = 1 * a /\ Units(right, p) = 1 * b
        BY <2>4, <2>9, <4>1
      <4>3. a \in Nat /\ b \in Nat
        BY <2>4
      <4> HIDE DEF a, b
      <4>4. QED
        BY <4>2, <4>3
    <3>2. a \in Nat /\ b \in Nat
      BY <2>4
    <3>3. Cmp(left, right) = side
      BY <2>2, <2>7, <2>8, <2>10
    <3>4. left.neg = right.neg
      BY <2>2, <2>10
    <3> HIDE DEF d, a, b, e
    <3>5. d \in Int
      BY <3>1, <3>2
    <3>6. side = IF Magnitude(d) <= e THEN 0 ELSE Sign(d)
      BY <2>6, <3>5 DEF Magnitude, Sign
    <3>7. QED
      BY <3>3, <3>4, <3>6
  <2>11. CASE left.neg /\ ~right.neg
    <3>1. left.neg = TRUE /\ right.neg = FALSE
      BY <2>2, <2>11
    <3>2. Units(left, p) = (-1) * a /\ Units(right, p) = 1 * b /\ a \in Nat /\ b \in Nat /\ a # 0
      BY <2>4, <2>5, <2>9, <3>1
    <3>3. Cmp(left, right) = -1
      BY <2>7, <2>8, <2>9, <3>1
    <3> HIDE DEF a, b
    <3>4. d \in Int /\ d < 0
      BY <3>2
    <3> HIDE DEF d, e
    <3>5. Sign(d) = -1
      BY <3>4 DEF Sign
    <3>6. QED
      BY <3>1, <3>3, <3>5
  <2>12. CASE ~left.neg /\ right.neg
    <3>1. left.neg = FALSE /\ right.neg = TRUE
      BY <2>2, <2>12
    <3>2. Units(left, p) = 1 * a /\ Units(right, p) = (-1) * b /\ a \in Nat /\ b \in Nat /\ b # 0
      BY <2>4, <2>5, <2>9, <3>1
    <3>3. Cmp(left, right) = 1
      BY <2>7, <2>8, <2>9, <3>1
    <3> HIDE DEF a, b
    <3>4. d \in Int /\ d > 0
      BY <3>2
    <3> HIDE DEF d, e
    <3>5. Sign(d) = 1
      BY <3>4 DEF Sign
    <3>6. QED
      BY <3>1, <3>3, <3>5
  <2>13. QED
    BY <2>2, <2>10, <2>11, <2>12
<1>2. QED
  BY <1>1, SpecInv, PTL

(* bigfloat_mul is off by half a unit of the last decimal at most, and exact *)
(* with no more decimals than there may be. *)
THEOREM ProductsAreRounded == Spec => []ProductsRounded
<1>1. Inv => ProductsRounded
  <2> DEFINE p == left.point + right.point
             l == Units(left, left.point)
             r == Units(right, right.point)
             error == Units(result, p) - l * r
  <2> SUFFICES ASSUME Inv, Done({"*"})
               PROVE  2 * Magnitude(error) * Tens[Precision] <= Tens[p]
    BY DEF ProductsRounded
  <2>1. /\ Numeric(left) /\ Numeric(right) /\ Shape(left) /\ Shape(right)
        /\ left.kind = "finite" /\ right.kind = "finite" /\ result = Mul(left, right)
    BY DEF Inv, NumbersInv, ResultInv, Usable, Numeric, Done, Finite
  <2>2. /\ Loose(left) /\ left.digits \in Seq(0 .. 9) /\ right.digits \in Seq(0 .. 9)
        /\ left.neg \in BOOLEAN /\ right.neg \in BOOLEAN /\ left.point \in Nat /\ right.point \in Nat
        /\ Value(left.digits) \in Nat /\ Value(right.digits) \in Nat
    BY <2>1, ShapeParts DEF Loose, Numeric
  <2>3. result = MulFinite(left, right)
    <3>1. Kinds(left, right) = {"finite"}
      BY <2>1 DEF Kinds
    <3>2. QED
      BY <2>1, <2>2, <3>1, MulFacts
  <2>4. Rounded(result, left, right)
    BY <2>1, <2>2, <2>3, MulFiniteFacts
  <2> DEFINE m == Value(left.digits)
             n == Value(right.digits)
             e == Side(left.neg)
             f == Side(right.neg)
             g == Side(left.neg # right.neg)
             t == Tens[Precision]
  <2>5. PICK v \in Nat : /\ Units(result, p) = g * v
                         /\ 2 * (v - m * n) * t <= Tens[p]
                         /\ 2 * (m * n - v) * t <= Tens[p]
    BY <2>4 DEF Rounded
  <2>6. l = e * m /\ r = f * n
    <3>1. left.point - left.point = 0 /\ right.point - right.point = 0
      BY <2>2
    <3>2. l = e * m * Tens[0] /\ r = f * n * Tens[0]
      BY <3>1 DEF Units
    <3>3. e \in Int /\ f \in Int /\ m \in Int /\ n \in Int
      BY <2>2 DEF Side
    <3> HIDE DEF e, f, m, n
    <3>4. e * m * 1 = e * m /\ f * n * 1 = f * n
      BY <3>3
    <3>5. QED
      BY <3>2, <3>4, TensFacts
  <2>7. g = e * f /\ e \in {-1, 1} /\ f \in {-1, 1}
    BY <2>2 DEF Side
  <2>8. m \in Nat /\ n \in Nat /\ t \in Nat
    <3>1. t \in Nat
      BY PrecisionAssumption, TensFacts
    <3>2. QED
      BY <2>2, <3>1
  <2> DEFINE c == m * n
             x == Units(result, p)
             y == Tens[p]
  <2>9. x = g * v /\ 2 * (v - c) * t <= y /\ 2 * (c - v) * t <= y
    BY <2>5
  <2>10. error = x - l * r
    OBVIOUS
  <2> HIDE DEF l, r, error, m, n, e, f, g, t, x, y
  <2>11. c \in Nat /\ l * r = g * c /\ g \in {-1, 1}
    <3>1. l * r = (e * m) * (f * n)
      BY <2>6
    <3>2. (e * m) * (f * n) = (e * f) * (m * n)
      BY <2>7, <2>8
    <3>3. QED
      BY <2>7, <2>8, <3>1, <3>2
  <2> HIDE DEF c
  <2>12. error = v - c \/ error = c - v
    BY <2>9, <2>10, <2>11
  <2>13. Magnitude(error) = v - c \/ Magnitude(error) = c - v
    BY <2>11, <2>12 DEF Magnitude
  <2>14. 2 * Magnitude(error) * t <= y
    BY <2>9, <2>13
  <2>15. QED
    BY <2>14 DEF t, y
<1>2. QED
  BY <1>1, SpecInv, PTL

-----------------------------------------------------------------------------
(* Long division: what its digits stand for.                               *)

(* One more digit at the end. *)
LEMMA AppendValue ==
    ASSUME NEW s \in Seq(0 .. 9), NEW d \in 0 .. 9
    PROVE  /\ Append(s, d) \in Seq(0 .. 9) /\ Len(Append(s, d)) = Len(s) + 1
           /\ Value(Append(s, d)) = 10 * Value(s) + d
<1> DEFINE S == 0 .. 9
           t == <<d>>
<1>1. s \in Seq(S) /\ d \in S /\ t \in Seq(S) /\ Len(t) = 1 /\ d \in Int
  OBVIOUS
<1>2. s \in Seq(Int) /\ t \in Seq(Int) /\ Value(s) \in Nat
  BY <1>1, ValueBound
<1>3. Append(s, d) \in Seq(S) /\ Len(Append(s, d)) = Len(s) + 1
  <2> HIDE DEF S
  <2> QED
    BY <1>1
<1>4. Append(s, d) = s \o t
  <2> HIDE DEF S
  <2> QED
    BY <1>1
<1>5. Value(t) = d
  BY <1>1, ValueOfShort
<1> HIDE DEF t
<1>6. Value(s \o t) = Value(s) * Tens[1] + d
  BY <1>1, <1>2, <1>5, ValueOfConcat
<1>7. Tens[1] = 10
  BY TensFacts
<1> DEFINE v == Value(s)
<1>8. Value(s \o t) = v * 10 + d /\ v \in Nat
  BY <1>2, <1>6, <1>7
<1> HIDE DEF v
<1>9. Value(s \o t) = 10 * v + d
  BY <1>8
<1>10. QED
  BY <1>3, <1>4, <1>9 DEF v

(* The last digit counted up. *)
LEMMA CountedUp ==
    ASSUME NEW q \in Seq(0 .. 9), Len(q) >= 1, q[Len(q)] < 9
    PROVE  LET r == [q EXCEPT ![Len(q)] = @ + 1]
           IN  /\ r \in Seq(0 .. 9) /\ Len(r) = Len(q) /\ r[Len(q)] = q[Len(q)] + 1
               /\ Value(r) = Value(q) + 1
<1> DEFINE S == 0 .. 9
           n == Len(q)
           r == [q EXCEPT ![n] = @ + 1]
<1>1. q \in [1 .. n -> S] /\ n \in Nat /\ n >= 1 /\ n \in 1 .. n
  OBVIOUS
<1>2. q[n] \in 0 .. 9 /\ q[n] < 9 /\ q[n] + 1 \in S
  BY <1>1
<1> HIDE DEF n, S
<1>3. /\ r = [i \in 1 .. n |-> r[i]]
      /\ \A i \in 1 .. n : r[i] = IF i = n THEN q[n] + 1 ELSE q[i]
  BY <1>1
<1>4. \A i \in 1 .. n : r[i] \in S
  BY <1>1, <1>2, <1>3
<1> HIDE DEF r
<1>5. r \in Seq(S) /\ Len(r) = n
  <2>1. r \in [1 .. n -> S]
    BY <1>3, <1>4
  <2>2. QED
    BY <1>1, <2>1, SeqOfFunction
<1> DEFINE d == Digits(q)
           e == Digits(r)
<1>6. /\ d \in [Nat -> Int] /\ Value(q) = Weight(d)[n]
      /\ \A k \in 0 .. n - 1 : d[k] = q[n - k]
  <2>1. q \in Seq(Int)
    BY ValueBound
  <2>2. /\ Digits(q) \in [Nat -> Int] /\ Value(q) = Weight(Digits(q))[n]
        /\ \A k \in Nat : Digits(q)[k] = Digit(q, k)
        /\ \A k \in 0 .. n - 1 : Digit(q, k) = q[n - k]
    BY <2>1, DigitsType DEF n
  <2>3. \A k \in 0 .. n - 1 : k \in Nat
    BY <1>1
  <2>4. QED
    BY <2>2, <2>3
<1>7. /\ e \in [Nat -> Int] /\ Value(r) = Weight(e)[n]
      /\ \A k \in 0 .. n - 1 : e[k] = r[n - k]
  <2>1. r \in Seq(Int)
    BY <1>5, ValueBound DEF S
  <2>2. /\ Digits(r) \in [Nat -> Int] /\ Value(r) = Weight(Digits(r))[n]
        /\ \A k \in Nat : Digits(r)[k] = Digit(r, k)
        /\ \A k \in 0 .. n - 1 : Digit(r, k) = r[n - k]
    BY <1>5, <2>1, DigitsType
  <2>3. \A k \in 0 .. n - 1 : k \in Nat
    BY <1>1
  <2>4. QED
    BY <2>2, <2>3
<1> HIDE DEF d, e
<1>8. d[0] \in Int /\ e[0] = d[0] + 1
  <2>1. 0 \in 0 .. n - 1 /\ n - 0 = n
    BY <1>1
  <2>2. d[0] = q[n] /\ e[0] = r[n]
    BY <1>6, <1>7, <2>1
  <2>3. QED
    BY <1>1, <1>2, <1>3, <2>2
<1>9. ASSUME NEW k \in 1 .. 1 + (n - 1) - 1 PROVE d[k] = e[k]
  <2>1. k \in 0 .. n - 1 /\ n - k \in 1 .. n /\ n - k # n
    BY <1>1
  <2>2. QED
    BY <1>3, <1>6, <1>7, <2>1
<1>10. 1 \in Nat /\ n - 1 \in Nat /\ 1 + (n - 1) = n /\ 0 + 1 = 1 /\ 0 \in Nat
  BY <1>1
<1>11. Weight(d)[1 + (n - 1)] - Weight(d)[1] = Weight(e)[1 + (n - 1)] - Weight(e)[1]
  BY <1>6, <1>7, <1>9, <1>10, WeightSameAbove
<1>12. Weight(d)[1] = d[0] /\ Weight(e)[1] = e[0]
  <2>1. Weight(d)[0 + 1] = Weight(d)[0] + d[0] * Tens[0] /\ Weight(d)[0] = 0
    BY <1>6, <1>10, WeightFacts
  <2>2. Weight(e)[0 + 1] = Weight(e)[0] + e[0] * Tens[0] /\ Weight(e)[0] = 0
    BY <1>7, <1>10, WeightFacts
  <2>3. Tens[0] = 1
    BY TensFacts
  <2>4. QED
    BY <1>8, <2>1, <2>2, <2>3
<1> DEFINE a == Weight(d)[n]
           b == Weight(e)[n]
           x == d[0]
<1>13. a \in Int /\ b \in Int
  <2>1. a \in Int
    BY <1>1, <1>6, WeightFacts
  <2>2. b \in Int
    BY <1>1, <1>7, WeightFacts
  <2>3. QED
    BY <2>1, <2>2
<1>14. a - x = b - (x + 1) /\ x \in Int
  BY <1>8, <1>10, <1>11, <1>12
<1> HIDE DEF a, b, x
<1>15. b = a + 1
  BY <1>13, <1>14
<1>16. Value(r) = Value(q) + 1
  BY <1>6, <1>7, <1>15 DEF a, b
<1>17. r[n] = q[n] + 1
  BY <1>1, <1>3
<1>18. QED
  BY <1>5, <1>16, <1>17 DEF n, S, r

(* One more digit of what is divided. *)
LEMMA NextPrefix ==
    ASSUME NEW s \in Seq(0 .. 9), NEW k \in 0 .. Len(s) - 1
    PROVE  Value(SubSeq(s, 1, k + 1)) = 10 * Value(SubSeq(s, 1, k)) + s[k + 1]
<1> DEFINE S == 0 .. 9
           p == SubSeq(s, 1, k)
           r == SubSeq(s, 1, k + 1)
           d == s[k + 1]
<1>1. k \in Nat /\ k + 1 \in 1 .. Len(s) /\ k \in 0 .. Len(s) /\ Len(s) \in Nat
  OBVIOUS
<1>2. d \in S
  BY <1>1
<1>3. p \in Seq(S) /\ Len(p) = k /\ \A i \in 1 .. k : p[i] = s[i]
  <2>1. \A i \in 1 .. k : i \in 1 .. Len(s) /\ s[i] \in S
    BY <1>1
  <2> HIDE DEF S
  <2>2. p = [i \in 1 .. k |-> s[i]]
    BY <1>1
  <2>3. QED
    BY <1>1, <2>1, <2>2
<1>4. r = [i \in 1 .. k + 1 |-> s[i]]
  BY <1>1
<1> HIDE DEF p, S, r, d
<1>5. Append(p, d) \in Seq(S) /\ Len(Append(p, d)) = k + 1
  BY <1>2, <1>3
<1>6. ASSUME NEW i \in 1 .. k + 1 PROVE Append(p, d)[i] = s[i]
  <2>1. i \in 1 .. k \/ i = k + 1
    BY <1>1
  <2>2. CASE i \in 1 .. k
    <3>1. Append(p, d)[i] = p[i]
      BY <1>2, <1>3, <2>2
    <3>2. QED
      BY <1>3, <2>2, <3>1
  <2>3. CASE i = k + 1
    <3>1. Append(p, d)[k + 1] = d
      BY <1>1, <1>2, <1>3
    <3>2. QED
      BY <2>3, <3>1 DEF d
  <2>4. QED
    BY <2>1, <2>2, <2>3
<1>7. r = Append(p, d)
  <2>1. Append(p, d) = [i \in 1 .. k + 1 |-> Append(p, d)[i]]
    <3> DEFINE f == Append(p, d)
    <3>1. f \in Seq(S) /\ Len(f) = k + 1
      BY <1>5
    <3> HIDE DEF f
    <3>2. f = [i \in 1 .. k + 1 |-> f[i]]
      BY <3>1
    <3>3. QED
      BY <3>2 DEF f
  <2>2. QED
    BY <1>4, <1>6, <2>1
<1>8. Value(Append(p, d)) = 10 * Value(p) + d
  BY <1>2, <1>3, AppendValue DEF S
<1>9. QED
  BY <1>7, <1>8 DEF r, p, d

(* A product is the larger one when a factor is. *)
LEMMA TimesStrict ==
    ASSUME NEW m \in Int, NEW n \in Int, NEW c \in Nat, m * c < n * c
    PROVE  m < n
<1>1. SUFFICES ASSUME n <= m PROVE FALSE
  OBVIOUS
<1>2. n * c <= m * c
  BY <1>1, TimesMonotone
<1>3. n * c \in Int /\ m * c \in Int
  OBVIOUS
<1> DEFINE x == m * c
           y == n * c
<1>4. x < y /\ y <= x /\ x \in Int /\ y \in Int
  BY <1>2, <1>3
<1> HIDE DEF x, y
<1>5. QED
  BY <1>4

(* What is off by a rest or by half a unit is off by less than the divisor b *)
(* when w units stand for q and a is divided.                                *)
LEMMA QuotientError ==
    ASSUME NEW a \in Nat, NEW b \in Nat, b >= 1, NEW r \in Nat, r < b, NEW p \in Nat,
           NEW t \in Nat, t >= 1, NEW w \in Nat, NEW q \in Nat,
           a * (p * t) = q * b + r,
           \/ w * t = q
           \/ t >= 2 /\ 2 * (w * t - q) <= t /\ 2 * (q - w * t) <= t
    PROVE  w * b - a * p < b /\ a * p - w * b < b
<1> DEFINE d == w * b - a * p
           g == w * t - q
           x == d * t
           y == g * b
           z == t * b
<1>1. x = y - r
  <2>1. x = (w * t) * b - a * (p * t)
    OBVIOUS
  <2>2. y = (w * t) * b - q * b
    OBVIOUS
  <2> DEFINE e == (w * t) * b
             f == a * (p * t)
             h == q * b
  <2>3. x = e - f /\ y = e - h /\ f = h + r
    BY <2>1, <2>2
  <2>4. e \in Int /\ f \in Int /\ h \in Int
    OBVIOUS
  <2> HIDE DEF x, y, e, f, h
  <2>5. QED
    BY <2>3, <2>4
<1>2. /\ d \in Int /\ g \in Int /\ x \in Int /\ y \in Int /\ z \in Nat /\ z >= b
  <2>1. d \in Int /\ g \in Int
    OBVIOUS
  <2>2. z \in Nat /\ z >= b
    <3>1. 1 * b <= t * b
      BY TimesMonotone
    <3>2. t * b \in Nat
      OBVIOUS
    <3> HIDE DEF d, g, x, y
    <3>3. QED
      BY <3>1, <3>2
  <2> HIDE DEF d, g
  <2>3. QED
    BY <2>1, <2>2
<1>3. g = 0 \/ (t >= 2 /\ 2 * g <= t /\ 2 * (-g) <= t)
  <2> DEFINE m == w * t
  <2>1. m \in Int /\ g = m - q
    OBVIOUS
  <2>2. m = q \/ (t >= 2 /\ 2 * (m - q) <= t /\ 2 * (q - m) <= t)
    OBVIOUS
  <2> HIDE DEF m, g
  <2>3. QED
    BY <2>1, <2>2
<1>4. b * t = z
  OBVIOUS
<1> HIDE DEF d, g, z
<1>5. ASSUME d >= b PROVE FALSE
  <2>1. b * t <= x
    BY <1>2, <1>5, TimesMonotone
  <2>2. CASE g = 0
    <3>1. y = 0
      BY <2>2
    <3> HIDE DEF x, y
    <3>2. QED
      BY <1>1, <1>2, <1>4, <2>1, <3>1
  <2>3. CASE t >= 2 /\ 2 * g <= t
    <3>1. (2 * g) * b <= t * b
      <4> DEFINE m == 2 * g
      <4>1. m \in Int /\ m <= t
        BY <1>2, <2>3
      <4> HIDE DEF m
      <4>2. m * b <= t * b
        BY <4>1, TimesMonotone
      <4>3. QED
        BY <4>2 DEF m
    <3>2. 2 * y <= z
      <4>1. (2 * g) * b = 2 * (g * b)
        BY <1>2
      <4>2. QED
        BY <3>1, <4>1 DEF z
    <3> HIDE DEF x, y
    <3>3. QED
      BY <1>1, <1>2, <1>4, <2>1, <3>2
  <2>4. QED
    BY <1>3, <2>2, <2>3
<1>6. ASSUME -d >= b PROVE FALSE
  <2>1. b * t <= (-d) * t
    BY <1>2, <1>6, TimesMonotone
  <2>2. (-d) * t = -x
    BY <1>2
  <2>3. CASE g = 0
    <3>1. y = 0
      BY <2>3
    <3> HIDE DEF x, y
    <3>2. z <= r
      BY <1>1, <1>2, <1>4, <2>1, <2>2, <3>1
    <3>3. QED
      BY <1>2, <3>2
  <2>4. CASE t >= 2 /\ 2 * (-g) <= t
    <3>1. (2 * (-g)) * b <= t * b
      <4> DEFINE m == 2 * (-g)
      <4>1. m \in Int /\ m <= t
        BY <1>2, <2>4
      <4> HIDE DEF m
      <4>2. m * b <= t * b
        BY <4>1, TimesMonotone
      <4>3. QED
        BY <4>2 DEF m
    <3>2. 2 * (-y) <= z
      <4>1. (2 * (-g)) * b = 2 * (-(g * b))
        BY <1>2
      <4>2. QED
        BY <3>1, <4>1 DEF z
    <3>3. 2 * b <= z
      <4>1. 2 * b <= t * b
        BY <2>4, TimesMonotone
      <4>2. QED
        BY <4>1 DEF z
    <3> HIDE DEF x, y
    <3>4. QED
      BY <1>1, <1>2, <1>4, <2>1, <2>2, <3>2, <3>3
  <2>5. QED
    BY <1>3, <2>3, <2>4
<1>7. d < b /\ -d < b
  BY <1>2, <1>5, <1>6
<1>8. -d = a * p - w * b
  BY DEF d
<1>9. QED
  BY <1>7, <1>8 DEF d

(* The digits before the point are the whole quotient.  It is rounded only   *)
(* when the dividend was below the divisor, and is nothing then.             *)
LEMMA WholeFits ==
    ASSUME NEW a \in Nat, NEW b \in Nat, b >= 1, NEW r \in Nat, r < b, NEW p \in Nat, p >= 10,
           NEW t \in Nat, t >= 1, NEW w \in Nat, NEW q \in Nat, NEW h \in Nat,
           a * (p * t) = q * b + r,
           h * p <= w, w < (h + 1) * p,
           \/ w * t = q
           \/ /\ t >= 10 /\ 2 * (w * t - q) <= t /\ 2 * (q - w * t) <= t
              /\ a * (p * t) < 10 * b
    PROVE  h * b <= a /\ a < (h + 1) * b
<1> DEFINE u == p * t
           v == a * u
<1>1. u \in Nat /\ v \in Nat /\ u >= 10 /\ v = q * b + r
  <2>1. u \in Nat
    OBVIOUS
  <2>2. 10 * t <= p * t
    BY TimesMonotone
  <2>3. u >= 10
    <3> HIDE DEF u
    <3>1. 10 * t <= u
      BY <2>2 DEF u
    <3>2. QED
      BY <2>1, <3>1
  <2>4. v = q * b + r
    OBVIOUS
  <2> HIDE DEF u
  <2>5. v \in Nat
    BY <2>1
  <2>6. QED
    BY <2>1, <2>3, <2>4, <2>5
<1>2. CASE w * t = q
  <2> HIDE DEF v
  <2>1. (h * p) * t <= w * t
    <3> DEFINE m == h * p
    <3>1. m \in Int /\ m <= w
      OBVIOUS
    <3> HIDE DEF m
    <3>2. m * t <= w * t
      BY <3>1, TimesMonotone
    <3>3. QED
      BY <3>2 DEF m
  <2>2. (w + 1) * t <= ((h + 1) * p) * t
    <3> DEFINE m == (h + 1) * p
    <3>1. m \in Int /\ w + 1 <= m /\ w + 1 \in Int
      OBVIOUS
    <3> HIDE DEF m
    <3>2. (w + 1) * t <= m * t
      BY <3>1, TimesMonotone
    <3>3. QED
      BY <3>2 DEF m
  <2>3. (h * p) * t = h * u /\ ((h + 1) * p) * t = (h + 1) * u /\ (w + 1) * t = w * t + t
    OBVIOUS
  <2> DEFINE m == h * u
             n == (h + 1) * u
  <2>4. m \in Nat /\ n \in Nat
    <3> HIDE DEF u
    <3> QED
      BY <1>1
  <2>5. m <= q /\ q + 1 <= n
    <3>1. m <= q
      BY <1>2, <2>1, <2>3
    <3>2. q + t <= n
      BY <1>2, <2>2, <2>3
    <3> HIDE DEF m, n, u
    <3>3. QED
      BY <2>4, <3>1, <3>2
  <2> HIDE DEF u
  <2>6. m * b <= q * b /\ (q + 1) * b <= n * b
    <3> HIDE DEF m, n
    <3>1. m * b <= q * b
      BY <2>4, <2>5, TimesMonotone
    <3>2. q + 1 \in Int
      OBVIOUS
    <3>3. (q + 1) * b <= n * b
      BY <2>4, <2>5, <3>2, TimesMonotone
    <3>4. QED
      BY <3>1, <3>3
  <2>7. m * b = (h * b) * u /\ n * b = ((h + 1) * b) * u
    BY <1>1
  <2>8. (h * b) * u <= v /\ v < ((h + 1) * b) * u
    <3> DEFINE x == q * b
               y == (h * b) * u
               z == ((h + 1) * b) * u
    <3>1. x \in Int /\ y \in Int /\ z \in Int
      BY <1>1
    <3>2. y <= x /\ x + b <= z
      <4>1. (q + 1) * b = q * b + b
        OBVIOUS
      <4>2. QED
        BY <2>6, <2>7, <4>1
    <3>3. v = x + r
      BY <1>1
    <3> HIDE DEF x, y, z
    <3>4. y <= v /\ v < z
      BY <1>1, <3>1, <3>2, <3>3
    <3>5. QED
      BY <3>4 DEF y, z
  <2>9. a < (h + 1) * b
    <3> DEFINE x == (h + 1) * b
    <3>1. x \in Int /\ a * u < x * u
      BY <2>8 DEF v
    <3> HIDE DEF x
    <3>2. a < x
      BY <1>1, <3>1, TimesStrict
    <3>3. QED
      BY <3>2 DEF x
  <2>10. h * b <= a
    <3> DEFINE x == h * b
    <3>1. x \in Int /\ x * u <= a * u /\ a + 1 \in Int
      BY <2>8 DEF v
    <3>2. (a + 1) * u = a * u + u
      BY <1>1
    <3> HIDE DEF x
    <3>3. x * u < (a + 1) * u
      <4> DEFINE y == x * u
                 z == a * u
      <4>1. y \in Int /\ z \in Int /\ y <= z /\ (a + 1) * u = z + u
        BY <1>1, <3>1, <3>2
      <4> HIDE DEF y, z
      <4>2. y < (a + 1) * u
        BY <1>1, <4>1
      <4>3. QED
        BY <4>2 DEF y
    <3>4. x < a + 1
      BY <1>1, <3>1, <3>3, TimesStrict
    <3>5. x <= a
      BY <3>1, <3>4
    <3>6. QED
      BY <3>5 DEF x
  <2>11. QED
    BY <2>9, <2>10
<1>3. CASE /\ t >= 10 /\ 2 * (w * t - q) <= t /\ a * (p * t) < 10 * b
  <2>1. v < 10 * b
    BY <1>3
  <2> HIDE DEF v
  <2>2. q <= 9
    <3>1. q * b < 10 * b
      <4> DEFINE x == q * b
      <4>1. x \in Int /\ v = x + r
        BY <1>1
      <4> HIDE DEF x
      <4>2. x < 10 * b
        BY <1>1, <2>1, <4>1
      <4>3. QED
        BY <4>2 DEF x
    <3>2. q < 10
      BY <3>1, TimesStrict
    <3>3. QED
      BY <3>2
  <2>3. w < 3
    <3> DEFINE x == w * t
    <3>1. x \in Int /\ 2 * (x - q) <= t
      BY <1>3
    <3> HIDE DEF x
    <3>2. x < 3 * t
      BY <1>3, <2>2, <3>1
    <3>3. w * t < 3 * t
      BY <3>2 DEF x
    <3>4. QED
      BY <3>3, TimesStrict
  <2>4. h = 0
    <3>1. SUFFICES ASSUME h >= 1 PROVE FALSE
      OBVIOUS
    <3>2. 1 * p <= h * p
      BY <3>1, TimesMonotone
    <3> DEFINE x == h * p
    <3>3. x \in Int /\ p <= x /\ x <= w
      BY <3>2
    <3> HIDE DEF x
    <3>4. QED
      BY <2>3, <3>3
  <2>5. a < b
    <3>1. a * u < b * u
      <4>1. 10 * b <= u * b
        <5> HIDE DEF u
        <5> QED
          BY <1>1, TimesMonotone
      <4>2. u * b = b * u /\ b * u \in Int
        OBVIOUS
      <4> DEFINE x == b * u
      <4>3. 10 * b <= x /\ x \in Int
        BY <4>1, <4>2
      <4> HIDE DEF x
      <4>4. v < x
        BY <1>1, <2>1, <4>3
      <4>5. QED
        BY <4>4 DEF x, v
    <3> HIDE DEF u
    <3>2. QED
      BY <1>1, <3>1, TimesStrict
  <2>6. QED
    BY <2>4, <2>5
<1>4. QED
  BY <1>2, <1>3
-----------------------------------------------------------------------------
(* The invariant of a division.  A divisor that begins with a zero breaks   *)
(* it: the rest then has fewer digits than the divisor while it is not      *)
(* below it yet, and the divisor is not taken away often enough.            *)

Dividend == Amount(left, Decimals2)
Divisor == Amount(right, Decimals2)

(* The strings that are divided stand for the operands; zeros are added     *)
(* only until the dividend is not below the divisor any more.               *)
ScaledInv ==
    phase \in {"scale", "digits"} =>
      /\ Value(num) = Dividend * Tens[zeros]
      /\ Value(den) = Divisor /\ den[1] # 0
      /\ zeros >= Precision /\ Len(num) >= zeros
      /\ zeros > Precision => Value(num) < 10 * Divisor
      /\ phase = "scale" => quotient = <<>> /\ rem = <<>>

(* The digits that were brought down so far are the quotient times the      *)
(* divisor, and the rest; the last digit of the quotient will be one.       *)
DigitsInv ==
    phase = "digits" =>
      /\ quotient \in Seq(0 .. 9) /\ Len(quotient) <= Len(num)
      /\ Value(SubSeq(num, 1, Len(quotient))) = Value(quotient) * Divisor + Value(rem)
      /\ quotient = <<>> => rem = <<>>
      /\ quotient # <<>> => quotient[Len(quotient)] * Divisor + Value(rem) < 10 * Divisor

(* The digits of a number before the point.                                 *)
WholePart(x) == Value(SubSeq(x.digits, 1, Len(x.digits) - x.point))

(* Results have digits for digits, and the quotient bigfloat_mod goes on    *)
(* with is right before the point.                                          *)
QuotientInv ==
    /\ Numeric(result)
    /\ phase = "remainder" =>
         /\ WholePart(result) * Divisor <= Dividend
         /\ Dividend < (WholePart(result) + 1) * Divisor
         /\ WholePart(result) # 0 => result.neg = (left.neg # right.neg)
    /\ QuotientsClose /\ RemaindersExact

LongInv == ScaledInv /\ DigitsInv /\ QuotientInv

(* Divisors do not begin with a zero. *)
ProperDivisors == \A a, b : MayDivide(a, b) => Head(b.digits) # 0
-----------------------------------------------------------------------------
(* What long division is about: lemmas about numbers.                      *)

(* The string of an operand with p decimals stands for its units of the      *)
(* p-th decimal, and begins with the same digit. *)
LEMMA AlignedFacts ==
    ASSUME NEW x, Numeric(x), NEW p \in Nat, p >= x.point
    PROVE  /\ Value(Align(x, p).digits) = Amount(x, p)
           /\ Align(x, p).digits[1] = x.digits[1]
<1> DEFINE s == x.digits
           n == p - x.point
<1>1. s \in Seq(0 .. 9) /\ s \in Seq(Int) /\ Len(s) >= 1 /\ x.point \in Nat /\ Value(s) \in Nat
  BY ShapeParts, ValueBound DEF Numeric
<1>2. n \in Nat
  BY <1>1
<1>3. CASE x.point < p
  <2>1. Align(x, p).digits = s \o Zeros(n)
    <3>1. Align(x, p) = [x EXCEPT !.digits = @ \o Zeros(p - x.point), !.point = p]
      BY <1>3 DEF Align
    <3>2. x \in [kind : {"finite", "nan", "inf"}, neg : BOOLEAN, digits : Seq(Nat), point : Nat]
      BY DEF Numeric, Shape
    <3>3. QED
      BY <3>1, <3>2
  <2> DEFINE z == Zeros(n)
  <2>2. z \in Seq(0 .. 9) /\ Value(s \o z) = Value(s) * Tens[Larger(n, 0)]
    <3> HIDE DEF n, s
    <3>1. n \in Int
      BY <1>2
    <3>2. z \in Seq(0 .. 9)
      BY <3>1, ZerosType
    <3>3. QED
      BY <1>1, <3>1, <3>2, ValueOfPadded
  <2>3. Larger(n, 0) = n
    BY <1>2 DEF Larger
  <2>4. (s \o z)[1] = s[1]
    <3> DEFINE S == 0 .. 9
    <3>1. s \in Seq(S) /\ z \in Seq(S) /\ Len(s) >= 1
      BY <1>1, <2>2
    <3> HIDE DEF S, s, z
    <3>2. QED
      BY <3>1
  <2> HIDE DEF z, s, n
  <2>5. QED
    BY <2>1, <2>2, <2>3, <2>4 DEF Amount, z, s, n
<1>4. CASE x.point = p
  <2>1. Align(x, p) = x
    BY <1>1, <1>4 DEF Align
  <2>2. p - x.point = 0
    BY <1>1, <1>4
  <2>3. Amount(x, p) = Value(s) * 1
    BY <2>2, TensFacts DEF Amount
  <2>4. QED
    BY <1>1, <2>1, <2>3
<1>5. QED
  BY <1>1, <1>3, <1>4

(* The number made of the digits s with n decimals, as the division ends,    *)
(* is m units of these decimals: as many as the digits say, or rounded.      *)
LEMMA EndedFacts ==
    ASSUME NEW neg \in BOOLEAN, NEW s \in Seq(0 .. 9), Len(s) >= 1,
           NEW n \in Nat, n <= Len(s), n >= Precision
    PROVE  LET z == Limit(Trim(Number(neg, s, n)))
               t == Tens[n - Precision]
           IN  /\ Numeric(z) /\ z.point <= Precision
               /\ \E m \in Nat : /\ Units(z, n) = Side(neg) * m
                                 /\ \/ m = Value(s)
                                    \/ /\ n > Precision
                                       /\ 2 * (m - Value(s)) <= t /\ 2 * (Value(s) - m) <= t
<1> DEFINE x == Number(neg, s, n)
           y == Trim(x)
           z == Limit(y)
           t == Tens[n - Precision]
<1>1. s \in Seq(Nat) /\ Value(s) \in Nat /\ Precision \in Nat /\ Precision >= 1
  BY ValueBound, PrecisionAssumption
<1>2. /\ Shape(x) /\ x.kind = "finite" /\ x.digits = s /\ x.neg = neg /\ x.point = n
      /\ Units(x, n) = Side(neg) * Value(s)
  BY <1>1, NumberFacts
<1> HIDE DEF x
<1>3. /\ Shape(y) /\ y.kind = "finite" /\ y.digits \in Seq(0 .. 9) /\ y.point <= n
      /\ Trimmed(y) /\ Len(y.digits) >= y.point
      /\ Units(y, n) = Units(x, n)
      /\ Value(y.digits) # 0 => y.neg = neg
  <2>1. n >= x.point /\ n \in Nat
    BY <1>2
  <2>2. QED
    BY <1>2, <2>1, TrimFacts DEF Trimmed
<1> HIDE DEF y
<1>4. /\ Shape(z) /\ z.kind = "finite" /\ z.digits \in Seq(0 .. 9) /\ z.point <= y.point
      /\ z.point <= Precision /\ (y.point <= Precision => z = y)
  BY <1>3, LimitFacts
<1>5. y.point > Precision => \E v \in Nat : /\ Units(z, y.point) = Side(y.neg) * v
                                            /\ 2 * (v - Value(y.digits)) <= Tens[y.point - Precision]
                                            /\ 2 * (Value(y.digits) - v) <= Tens[y.point - Precision]
  BY <1>3, LimitFacts
<1> HIDE DEF z
<1>6. y.point \in Nat /\ z.point \in Nat /\ Value(y.digits) \in Nat /\ y.neg \in BOOLEAN
      /\ y.digits \in Seq(Nat) /\ Len(y.digits) >= 1 /\ Len(y.digits) \in Nat
  BY <1>3, <1>4, ShapeParts
<1>7. Numeric(z) /\ z.point <= Precision
  BY <1>4 DEF Numeric
<1>8. CASE y.point <= Precision
  <2>1. Units(z, n) = Side(neg) * Value(s)
    BY <1>2, <1>3, <1>4, <1>8
  <2>2. \E m \in Nat : Units(z, n) = Side(neg) * m /\ m = Value(s)
    BY <1>1, <2>1
  <2>3. QED
    BY <1>7, <2>2 DEF x, y, z
<1>9. CASE y.point > Precision
  <2>1. PICK v \in Nat : /\ Units(z, y.point) = Side(y.neg) * v
                         /\ 2 * (v - Value(y.digits)) <= Tens[y.point - Precision]
                         /\ 2 * (Value(y.digits) - v) <= Tens[y.point - Precision]
    BY <1>5, <1>9
  <2>2. y.neg = neg
    <3>1. y.point > 0 /\ y.digits[Len(y.digits)] # 0
      BY <1>1, <1>3, <1>6, <1>9, SMTT(30) DEF Trimmed
    <3>2. Len(y.digits) \in DOMAIN y.digits
      BY <1>6
    <3>3. ~IsZero(y.digits)
      BY <3>1, <3>2 DEF IsZero
    <3>4. Value(y.digits) # 0
      BY <1>6, <3>3, ValueZero
    <3>5. QED
      BY <1>3, <3>4
  <2> DEFINE u == Value(y.digits)
             c == Tens[n - y.point]
             k == Tens[y.point - Precision]
             e == Side(neg)
             q == Value(s)
  <2>3. n - y.point \in Nat /\ y.point - Precision \in Nat
        /\ (y.point - Precision) + (n - y.point) = n - Precision /\ n > Precision
    <3> DEFINE d == y.point
    <3>1. d \in Nat /\ d <= n /\ d > Precision
      BY <1>3, <1>6, <1>9
    <3> HIDE DEF d
    <3>2. n - d \in Nat /\ d - Precision \in Nat /\ (d - Precision) + (n - d) = n - Precision
          /\ n > Precision
      BY <1>1, <3>1
    <3>3. QED
      BY <3>2 DEF d
  <2>4. c \in Nat /\ c >= 1 /\ k \in Nat /\ t = k * c
    <3>1. c \in Nat /\ c >= 1 /\ k \in Nat
      BY <2>3, TensPositive
    <3>2. Tens[(y.point - Precision) + (n - y.point)] = Tens[y.point - Precision] * Tens[n - y.point]
      BY <2>3, TensSum
    <3>3. QED
      BY <2>3, <3>1, <3>2
  <2>5. Units(z, n) = (e * v) * c
    <3>1. y.point >= z.point /\ n >= y.point
      BY <1>3, <1>4
    <3>2. Units(z, n) = Units(z, y.point) * Tens[n - y.point]
      BY <1>4, <1>6, <3>1, UnitsFacts
    <3>3. QED
      BY <2>1, <2>2, <3>2
  <2>6. q = u * c
    <3>1. Units(y, n) = Side(y.neg) * Value(y.digits) * Tens[n - y.point]
      BY DEF Units
    <3>2. e * u * c = e * q
      BY <1>2, <1>3, <2>2, <3>1
    <3>3. e \in {-1, 1} /\ u \in Nat /\ q \in Nat
      BY <1>1, <1>6 DEF Side
    <3> HIDE DEF e, u, c, q
    <3>4. QED
      BY <2>4, <3>2, <3>3
  <2>7. e \in Int /\ u \in Nat /\ q \in Nat
    BY <1>1, <1>6 DEF Side
  <2> DEFINE m == v * c
  <2>8. 2 * (v - u) <= k /\ 2 * (u - v) <= k
    BY <2>1
  <2> HIDE DEF t, u, c, k, e, q
  <2>9. m \in Nat /\ (e * v) * c = e * m
    BY <2>4, <2>7
  <2>10. 2 * (m - q) <= t
    <3> DEFINE a == 2 * (v - u)
    <3>1. a \in Int /\ a <= k
      BY <2>4, <2>7, <2>8
    <3> HIDE DEF a
    <3>2. a * c <= k * c
      BY <2>4, <3>1, TimesMonotone
    <3>3. a * c = 2 * (v * c - u * c)
      BY <2>4, <2>7 DEF a
    <3>4. QED
      BY <2>4, <2>6, <3>2, <3>3
  <2>11. 2 * (q - m) <= t
    <3> DEFINE a == 2 * (u - v)
    <3>1. a \in Int /\ a <= k
      BY <2>4, <2>7, <2>8
    <3> HIDE DEF a
    <3>2. a * c <= k * c
      BY <2>4, <3>1, TimesMonotone
    <3>3. a * c = 2 * (u * c - v * c)
      BY <2>4, <2>7 DEF a
    <3>4. QED
      BY <2>4, <2>6, <3>2, <3>3
  <2>12. Units(z, n) = e * m
    BY <2>5, <2>9
  <2> HIDE DEF m
  <2>13. \E i \in Nat : /\ Units(z, n) = Side(neg) * i
                        /\ n > Precision
                        /\ 2 * (i - Value(s)) <= t /\ 2 * (Value(s) - i) <= t
    BY <2>3, <2>9, <2>10, <2>11, <2>12 DEF e, q
  <2>14. QED
    BY <1>7, <2>13 DEF x, y, z, t
<1>10. QED
  BY <1>1, <1>6, <1>8, <1>9
-----------------------------------------------------------------------------
(* The steps of a division, once more.                                     *)

(* The operands of a long division. *)
LEMMA LongFacts ==
    ASSUME Usable(left), Usable(right)
    PROVE  /\ Numeric(left) /\ Numeric(right) /\ Shape(left) /\ Shape(right)
           /\ left.point \in Nat /\ right.point \in Nat
           /\ Decimals2 \in Nat /\ Decimals2 >= left.point /\ Decimals2 >= right.point
           /\ Dividend \in Nat /\ Divisor \in Nat
           /\ Units(left, Decimals2) = Side(left.neg) * Dividend
           /\ Units(right, Decimals2) = Side(right.neg) * Divisor
           /\ ~IsZero(right.digits) => Divisor >= 1
<1>1. Numeric(left) /\ Numeric(right) /\ Shape(left) /\ Shape(right)
  BY DEF Usable, Numeric
<1>2. left.point \in Nat /\ right.point \in Nat /\ right.digits \in Seq(Nat)
  BY <1>1, ShapeParts
<1>3. Decimals2 \in Nat /\ Decimals2 >= left.point /\ Decimals2 >= right.point
  BY <1>2, LargerFacts DEF Decimals2
<1>4. Dividend \in Nat /\ Units(left, Decimals2) = Side(left.neg) * Dividend
  BY <1>1, <1>3, AmountFacts DEF Dividend
<1>5. /\ Divisor \in Nat /\ Units(right, Decimals2) = Side(right.neg) * Divisor
      /\ Value(right.digits) = 0 <=> Divisor = 0
  BY <1>1, <1>3, AmountFacts DEF Divisor
<1>6. ~IsZero(right.digits) => Divisor >= 1
  BY <1>2, <1>5, ValueZero
<1>7. QED
  BY <1>1, <1>2, <1>3, <1>4, <1>5, <1>6

(* A literal, and nothing else. *)
LEMMA InitLong == Init => LongInv
<1> SUFFICES ASSUME Init PROVE LongInv
  OBVIOUS
<1>1. phase = "idle" /\ op = "+x"
  BY DEF Init
<1>2. Numeric(result)
  BY LiteralUsable DEF Init, Usable
<1>3. QED
  BY <1>1, <1>2 DEF LongInv, ScaledInv, DigitsInv, QuotientInv, QuotientsClose, RemaindersExact, Done

(* An operation that is done at once is not a long division. *)
LEMMA ComputedLong ==
    ASSUME NEW o, NEW a, NEW b, NEW x, Usable(x), Computed(o, a, b, x),
           o \in {"/", "%"} => ~IsLong(a, b)
    PROVE  LongInv'
<1>1. /\ phase' = "idle" /\ op' = o /\ left' = a /\ right' = b /\ result' = x
  BY DEF Computed, Begin
<1>2. ScaledInv' /\ DigitsInv'
  BY <1>1 DEF ScaledInv, DigitsInv
<1>3. o \in {"/", "%"} /\ a.kind = "finite" /\ b.kind = "finite" => IsZero(b.digits)
  BY DEF IsLong, Kinds
<1>4. QuotientsClose' /\ RemaindersExact'
  BY <1>1, <1>3 DEF QuotientsClose, RemaindersExact, Done, Finite
<1>5. Numeric(result') /\ phase' # "remainder"
  BY <1>1 DEF Usable
<1>6. QED
  BY <1>2, <1>4, <1>5 DEF LongInv, QuotientInv

(* A division begins: the strings stand for the operands. *)
LEMMA StartLong ==
    ASSUME ProperDivisors, Inv, LongInv, NEW o \in {"/", "%"}, NEW a, Usable(a), NEW b, Usable(b),
           StartDivision(o, a, b)
    PROVE  LongInv'
<1> DEFINE p == Larger(a.point, b.point)
           s == Align(a, p).digits
           t == Align(b, p).digits
<1>1. /\ phase = "idle" /\ phase' = "scale" /\ left' = a /\ right' = b /\ result' = result
      /\ num' = s \o Zeros(Precision) /\ den' = t /\ zeros' = Precision
      /\ rem' = rem /\ quotient' = quotient /\ MayDivide(a, b)
  BY DEF StartDivision, Begin
<1>2. Dividend' = Amount(a, p) /\ Divisor' = Amount(b, p)
  BY <1>1 DEF Dividend, Divisor, Decimals2
<1>3. Numeric(a) /\ Numeric(b) /\ p \in Nat /\ p >= a.point /\ p >= b.point
  BY LargerFacts, ShapeParts DEF Usable, Numeric
<1> HIDE DEF p
<1>4. /\ s \in Seq(0 .. 9) /\ Value(s) = Amount(a, p)
      /\ Value(t) = Amount(b, p) /\ t[1] = b.digits[1]
  BY <1>3, AlignFacts, AlignedFacts
<1> HIDE DEF s, t
<1>5. Precision \in Nat /\ Zeros(Precision) \in Seq(0 .. 9) /\ Len(Zeros(Precision)) = Precision
  BY PrecisionAssumption, ZerosType DEF Larger
<1>6. Value(num') = Dividend' * Tens[Precision] /\ Len(num') >= Precision
  <2> DEFINE z == Zeros(Precision)
             S == 0 .. 9
  <2>1. Value(s \o z) = Value(s) * Tens[Larger(Precision, 0)]
    <3>1. s \in Seq(Int) /\ Precision \in Int
      BY <1>4, <1>5, ValueBound
    <3>2. QED
      BY <3>1, ValueOfPadded
  <2>2. Larger(Precision, 0) = Precision
    BY <1>5 DEF Larger
  <2>3. s \in Seq(S) /\ z \in Seq(S) /\ Len(z) = Precision /\ num' = s \o z
    BY <1>1, <1>4, <1>5
  <2> HIDE DEF z, S
  <2>4. Len(s \o z) >= Precision
    <3>1. Len(s \o z) = Len(s) + Len(z) /\ Len(s) \in Nat
      <4>1. Len(z) \in Nat
        BY <1>5, <2>3
      <4>2. s \in Seq(S) /\ z \in Seq(S)
        BY <2>3
      <4>3. Len(s \o z) = Len(s) + Len(z)
        BY <4>2
      <4>4. Len(s) \in Nat
        BY <4>2
      <4>5. QED
        BY <4>3, <4>4
    <3>2. QED
      BY <1>5, <2>3, <3>1
  <2>5. QED
    BY <1>2, <1>4, <2>1, <2>2, <2>3, <2>4
<1>7. den'[1] # 0
  <2>1. Head(b.digits) # 0
    BY <1>1 DEF ProperDivisors
  <2>2. Head(b.digits) = b.digits[1]
    <3> DEFINE d == b.digits
    <3>1. d \in Seq(Nat) /\ Len(d) >= 1
      BY <1>3, ShapeParts DEF Numeric
    <3> HIDE DEF d
    <3>2. Head(d) = d[1]
      BY <3>1
    <3>3. QED
      BY <3>2 DEF d
  <2>3. QED
    BY <1>1, <1>4, <2>1, <2>2
<1>8. quotient' = <<>> /\ rem' = <<>>
  BY <1>1 DEF Inv, StringsInv, NoDivision
<1>9. ScaledInv'
  <2>1. zeros' >= Precision /\ ~(zeros' > Precision) /\ zeros' = Precision
    BY <1>1, <1>5
  <2>2. Value(den') = Divisor'
    BY <1>1, <1>2, <1>4
  <2>3. QED
    BY <1>6, <1>7, <1>8, <2>1, <2>2 DEF ScaledInv
<1>10. QED
  BY <1>1, <1>9 DEF LongInv, DigitsInv, QuotientInv, QuotientsClose, RemaindersExact, Done

(* One more zero for a dividend that is below the divisor. *)
LEMMA ScaleLong ==
    ASSUME Inv, LongInv, Scale
    PROVE  LongInv'
<1>1. /\ phase = "scale" /\ phase' = phase /\ left' = left
      /\ right' = right /\ result' = result /\ num' = Append(num, 0) /\ den' = den
      /\ zeros' = zeros + 1 /\ rem' = rem /\ quotient' = quotient /\ CompareDigits(num, den) < 0
  BY DEF Scale
<1>2. /\ num \in Seq(0 .. 9) /\ den \in Seq(0 .. 9) /\ Len(num) >= 1 /\ Len(den) >= 1 /\ zeros \in Nat
      /\ Usable(left) /\ Usable(right) /\ Precision \in Nat
  BY <1>1, PrecisionAssumption DEF Inv, NumbersInv, StringsInv
<1>3. /\ Value(num) = Dividend * Tens[zeros] /\ Value(den) = Divisor /\ den[1] # 0
      /\ zeros >= Precision /\ Len(num) >= zeros /\ quotient = <<>> /\ rem = <<>>
  BY <1>1 DEF LongInv, ScaledInv
<1>4. Dividend \in Nat /\ Divisor \in Nat
  BY <1>2, LongFacts
<1>5. Dividend' = Dividend /\ Divisor' = Divisor
  BY <1>1 DEF Dividend, Divisor, Decimals2
<1>6. Value(num) < Divisor /\ Value(num) \in Nat
  <2>1. Value(num) \in Nat
    BY <1>2, ValueBound
  <2>2. CompareDigits(num, den) = IF Value(num) > Value(den) THEN 1
                                  ELSE IF Value(num) = Value(den) THEN 0 ELSE -1
    BY <1>2, CompareFacts
  <2>3. QED
    BY <1>1, <1>3, <1>4, <2>1, <2>2
<1>7. Value(num') = 10 * Value(num) /\ Len(num') = Len(num) + 1
  <2>1. 0 \in 0 .. 9
    OBVIOUS
  <2> DEFINE d == 0
             v == Value(num)
  <2>2. d \in 0 .. 9 /\ num' = Append(num, d)
    BY <1>1
  <2> HIDE DEF d
  <2>3. Len(num') = Len(num) + 1 /\ Value(num') = 10 * v + d
    BY <1>2, <2>2, AppendValue
  <2>4. v \in Nat
    BY <1>6
  <2> HIDE DEF v
  <2>5. Value(num') = 10 * v
    BY <2>3, <2>4 DEF d
  <2>6. QED
    BY <2>3, <2>5 DEF v
<1>8. Value(num') = Dividend * Tens[zeros + 1]
  <2>1. Tens[zeros + 1] = 10 * Tens[zeros] /\ Tens[zeros] \in Nat
    BY <1>2, TensFacts
  <2> DEFINE a == Dividend
             c == Tens[zeros]
  <2>2. a \in Nat /\ c \in Nat /\ Value(num') = 10 * (a * c) /\ Tens[zeros + 1] = 10 * c
    BY <1>3, <1>4, <1>7, <2>1
  <2> HIDE DEF a, c
  <2>3. Value(num') = a * (10 * c)
    BY <2>2
  <2>4. QED
    BY <2>2, <2>3 DEF a
<1>9. Value(num') < 10 * Divisor
  BY <1>4, <1>6, <1>7
<1>10. zeros + 1 >= Precision /\ Len(num') >= zeros + 1
  BY <1>2, <1>3, <1>7
<1>11. ScaledInv'
  BY <1>1, <1>3, <1>5, <1>8, <1>9, <1>10 DEF ScaledInv
<1>12. QED
  BY <1>1, <1>11 DEF LongInv, DigitsInv, QuotientInv, QuotientsClose, RemaindersExact, Done

(* The dividend is not below the divisor any more; no digit is there yet. *)
LEMMA StartDigitsLong ==
    ASSUME Inv, LongInv, StartDigits
    PROVE  LongInv'
<1>1. /\ phase = "scale" /\ phase' = "digits" /\ left' = left
      /\ right' = right /\ result' = result /\ num' = num /\ den' = den
      /\ zeros' = zeros /\ rem' = rem /\ quotient' = quotient
  BY DEF StartDigits, division
<1>2. Dividend' = Dividend /\ Divisor' = Divisor
  BY <1>1 DEF Dividend, Divisor, Decimals2
<1>3. quotient = <<>> /\ rem = <<>> /\ Usable(left) /\ Usable(right) /\ num \in Seq(0 .. 9)
  BY <1>1 DEF Inv, NumbersInv, StringsInv, LongInv, ScaledInv
<1>4. Divisor \in Nat
  BY <1>3, LongFacts
<1>5. ScaledInv'
  BY <1>1, <1>2 DEF LongInv, ScaledInv
<1>6. Len(quotient) = 0 /\ quotient \in Seq(0 .. 9) /\ Len(quotient) <= Len(num)
  BY <1>3
<1>7. Value(SubSeq(num, 1, Len(quotient))) = Value(quotient) * Divisor + Value(rem)
  <2>1. SubSeq(num, 1, 0) = <<>>
    BY <1>3
  <2>2. Value(<<>>) = 0
    BY ValueOfShort
  <2>3. Value(SubSeq(num, 1, Len(quotient))) = 0 /\ Value(quotient) = 0 /\ Value(rem) = 0
    BY <1>3, <1>6, <2>1, <2>2
  <2>4. 0 * Divisor + 0 = 0
    BY <1>4
  <2>5. QED
    BY <2>3, <2>4
<1>8. DigitsInv'
  BY <1>1, <1>2, <1>3, <1>6, <1>7 DEF DigitsInv
<1>9. QED
  BY <1>1, <1>5, <1>8 DEF LongInv, QuotientInv, QuotientsClose, RemaindersExact, Done
(* What the digits that are being divided are. *)
LEMMA DigitsFacts ==
    ASSUME Inv, LongInv, phase = "digits"
    PROVE  /\ Usable(left) /\ Usable(right) /\ IsLong(left, right)
           /\ num \in Seq(0 .. 9) /\ den \in Seq(0 .. 9) /\ rem \in Seq(0 .. 9) /\ zeros \in Nat
           /\ quotient \in Seq(0 .. 9)
           /\ Len(num) \in Nat /\ Len(den) \in Nat /\ Len(rem) \in Nat /\ Len(quotient) \in Nat
           /\ Len(num) >= 1 /\ Len(den) >= 1 /\ Len(quotient) <= Len(num)
           /\ Value(num) = Dividend * Tens[zeros] /\ Value(den) = Divisor /\ den[1] # 0
           /\ zeros >= Precision /\ Len(num) >= zeros
           /\ zeros > Precision => Value(num) < 10 * Divisor
           /\ Value(SubSeq(num, 1, Len(quotient))) = Value(quotient) * Divisor + Value(rem)
           /\ quotient = <<>> => rem = <<>>
           /\ quotient # <<>> => quotient[Len(quotient)] * Divisor + Value(rem) < 10 * Divisor
           /\ Dividend \in Nat /\ Divisor \in Nat /\ Divisor >= 1
           /\ Value(rem) \in Nat /\ Value(quotient) \in Nat
<1>1. /\ Usable(left) /\ Usable(right) /\ IsLong(left, right)
      /\ num \in Seq(0 .. 9) /\ den \in Seq(0 .. 9) /\ rem \in Seq(0 .. 9) /\ zeros \in Nat
      /\ Len(num) >= 1 /\ Len(den) >= 1
  BY DEF Inv, NumbersInv, StringsInv
<1>2. /\ quotient \in Seq(0 .. 9) /\ Len(quotient) <= Len(num)
      /\ Value(SubSeq(num, 1, Len(quotient))) = Value(quotient) * Divisor + Value(rem)
      /\ quotient = <<>> => rem = <<>>
      /\ quotient # <<>> => quotient[Len(quotient)] * Divisor + Value(rem) < 10 * Divisor
  BY DEF LongInv, DigitsInv
<1>3. /\ Value(num) = Dividend * Tens[zeros] /\ Value(den) = Divisor /\ den[1] # 0
      /\ zeros >= Precision /\ Len(num) >= zeros
      /\ zeros > Precision => Value(num) < 10 * Divisor
  BY DEF LongInv, ScaledInv
<1>4. ~IsZero(right.digits)
  BY <1>1 DEF IsLong
<1>5. Dividend \in Nat /\ Divisor \in Nat /\ Divisor >= 1
  BY <1>1, <1>4, LongFacts
<1>6. Value(rem) \in Nat /\ Value(quotient) \in Nat
  BY <1>1, <1>2, ValueBound
<1>7. Len(num) \in Nat /\ Len(den) \in Nat /\ Len(rem) \in Nat /\ Len(quotient) \in Nat
  BY <1>1, <1>2
<1>8. QED
  BY <1>1, <1>2, <1>3, <1>5, <1>6, <1>7

(* The divisor is taken away once and the digit counted up: it was not nine. *)
LEMMA SubtractLong ==
    ASSUME Inv, LongInv, Subtract
    PROVE  LongInv'
<1> DEFINE S == 0 .. 9
           q == quotient
           n == Len(quotient)
           r == [q EXCEPT ![Len(q)] = @ + 1]
           s == SubDigits(rem, den)
<1>1. /\ phase = "digits" /\ phase' = phase /\ left' = left
      /\ right' = right /\ result' = result /\ num' = num /\ den' = den
      /\ zeros' = zeros /\ rem' = Bare(s) /\ quotient' = r /\ Fits
  BY DEF Subtract
<1>2. /\ rem \in Seq(S) /\ den \in Seq(S) /\ q \in Seq(S) /\ n \in Nat /\ n <= Len(num)
      /\ Value(den) = Divisor /\ Divisor \in Nat /\ Divisor >= 1
      /\ Value(rem) \in Nat /\ Value(q) \in Nat
      /\ Value(SubSeq(num, 1, n)) = Value(q) * Divisor + Value(rem)
      /\ q = <<>> => rem = <<>>
      /\ q # <<>> => q[n] * Divisor + Value(rem) < 10 * Divisor
  BY <1>1, DigitsFacts
<1>3. Len(rem) >= 1 /\ Value(den) <= Value(rem)
  BY <1>1, FitsFacts
<1>4. Dividend' = Dividend /\ Divisor' = Divisor
  BY <1>1 DEF Dividend, Divisor, Decimals2
<1>5. s \in Seq(S) /\ Value(s) = Value(rem) - Divisor
  BY <1>2, <1>3, SubDigitsFacts
<1> HIDE DEF s
<1>6. rem' \in Seq(S) /\ Value(rem') = Value(rem) - Divisor
  <2>1. S \in SUBSET Int
    OBVIOUS
  <2> HIDE DEF S
  <2>2. Bare(s) \in Seq(S) /\ Value(Bare(s)) = Value(s)
    BY <1>5, <2>1, BareFacts
  <2>3. QED
    BY <1>1, <1>5, <2>2
<1>7. q # <<>> /\ n >= 1 /\ n \in 1 .. n
  <2>1. Len(<<>>) = 0
    OBVIOUS
  <2>2. q # <<>>
    BY <1>2, <1>3, <2>1
  <2> HIDE DEF S
  <2>3. n # 0
    BY <1>2, <2>2
  <2> HIDE DEF n
  <2>4. n >= 1 /\ n \in 1 .. n
    BY <1>2, <2>3
  <2>5. QED
    BY <2>2, <2>4
<1>8. q[n] \in S /\ q[n] < 9
  <2>1. q[n] \in S
    <3> HIDE DEF S
    <3>1. QED
      BY <1>2, <1>7
  <2> DEFINE d == q[n]
             b == Divisor
             v == Value(rem)
  <2>2. d * b + v < 10 * b /\ b <= v /\ d \in 0 .. 9 /\ b \in Nat /\ v \in Nat
    BY <1>2, <1>3, <1>7, <2>1
  <2> HIDE DEF d, b, v
  <2>3. d # 9
    <3>1. SUFFICES ASSUME d = 9 PROVE FALSE
      OBVIOUS
    <3>2. 9 * b + v < 10 * b
      BY <2>2, <3>1
    <3>3. QED
      BY <2>2, <3>2
  <2>4. d < 9
    BY <2>2, <2>3
  <2>5. QED
    BY <2>1, <2>4 DEF d
<1>9. r \in Seq(S) /\ Len(r) = n /\ r[n] = q[n] + 1 /\ Value(r) = Value(q) + 1
  <2>1. q \in Seq(0 .. 9) /\ Len(q) >= 1 /\ q[Len(q)] < 9
    BY <1>2, <1>7, <1>8
  <2> HIDE DEF q
  <2>2. r \in Seq(0 .. 9) /\ Len(r) = Len(q) /\ r[Len(q)] = q[Len(q)] + 1 /\ Value(r) = Value(q) + 1
    BY <2>1, CountedUp
  <2>3. QED
    BY <2>2 DEF q
<1> HIDE DEF r
<1>10. Value(SubSeq(num, 1, n)) = Value(r) * Divisor + Value(rem')
  <2> DEFINE v == Value(SubSeq(num, 1, n))
             a == Value(q)
             b == Divisor
             c == Value(rem)
  <2>1. v = a * b + c /\ a \in Nat /\ b \in Nat /\ c \in Nat
    BY <1>2
  <2>2. Value(r) = a + 1 /\ Value(rem') = c - b
    BY <1>6, <1>9
  <2> HIDE DEF v, a, b, c
  <2>3. (a + 1) * b + (c - b) = a * b + c
    BY <2>1
  <2>4. v = Value(r) * b + Value(rem')
    BY <2>1, <2>2, <2>3
  <2>5. QED
    BY <2>4 DEF v, b
<1>11. r[n] * Divisor + Value(rem') < 10 * Divisor
  <2> DEFINE d == q[n]
             b == Divisor
             c == Value(rem)
  <2>1. d * b + c < 10 * b /\ d \in Nat /\ b \in Nat /\ c \in Nat
    BY <1>2, <1>7, <1>8, SMTT(30)
  <2>2. r[n] = d + 1 /\ Value(rem') = c - b
    BY <1>6, <1>9
  <2> HIDE DEF d, b, c
  <2>3. (d + 1) * b + (c - b) = d * b + c
    BY <2>1
  <2>4. r[n] * b + Value(rem') < 10 * b
    BY <2>1, <2>2, <2>3
  <2>5. QED
    BY <2>4 DEF b
<1>12. r # <<>>
  <2>1. Len(<<>>) = 0
    OBVIOUS
  <2>2. QED
    BY <1>7, <1>9, <2>1
<1>13. ScaledInv'
  BY <1>1, <1>4 DEF LongInv, ScaledInv
<1>14. DigitsInv'
  BY <1>1, <1>2, <1>4, <1>9, <1>10, <1>11, <1>12 DEF DigitsInv
<1>15. QED
  BY <1>1, <1>13, <1>14 DEF LongInv, QuotientInv, QuotientsClose, RemaindersExact, Done

(* When the divisor does not fit into the rest, the rest is below it.  This   *)
(* is where a divisor with a zero in front goes wrong. *)
LEMMA RestBelow ==
    ASSUME Inv, LongInv, phase = "digits", ~Fits
    PROVE  Value(rem) < Divisor
<1>1. /\ rem \in Seq(0 .. 9) /\ den \in Seq(0 .. 9) /\ Len(rem) \in Nat /\ Len(den) \in Nat
      /\ Len(den) >= 1 /\ den[1] # 0 /\ Value(den) = Divisor /\ Divisor \in Nat /\ Value(rem) \in Nat
  BY DigitsFacts
<1>2. CASE Len(rem) < Len(den)
  <2>1. Len(den) > Len(rem)
    BY <1>1, <1>2
  <2>2. Value(den) > Value(rem)
    BY <1>1, <2>1, LongerIsLarger
  <2>3. QED
    BY <1>1, <2>2
<1>3. CASE Len(rem) >= Len(den)
  <2>1. ~(CompareDigits(rem, den) >= 0) /\ Len(rem) >= 1
    BY <1>1, <1>3 DEF Fits
  <2>2. CompareDigits(rem, den) = IF Value(rem) > Value(den) THEN 1
                                  ELSE IF Value(rem) = Value(den) THEN 0 ELSE -1
    BY <1>1, <2>1, CompareFacts
  <2>3. QED
    BY <1>1, <2>1, <2>2
<1>4. QED
  BY <1>1, <1>2, <1>3

(* One more digit is brought down. *)
LEMMA NextDigitLong ==
    ASSUME Inv, LongInv, NextDigit
    PROVE  LongInv'
<1> DEFINE S == 0 .. 9
           q == quotient
           n == Len(q)
           d == num[n + 1]
           s == Append(rem, d)
<1>1. /\ phase = "digits" /\ phase' = phase /\ left' = left
      /\ right' = right /\ result' = result /\ num' = num /\ den' = den
      /\ zeros' = zeros /\ rem' = Bare(s) /\ quotient' = Append(q, 0) /\ ~Fits /\ n < Len(num)
  BY DEF NextDigit
<1>2. /\ rem \in Seq(S) /\ num \in Seq(S) /\ q \in Seq(S) /\ n \in Nat /\ Len(num) \in Nat
      /\ Divisor \in Nat /\ Divisor >= 1
      /\ Value(rem) \in Nat /\ Value(q) \in Nat
      /\ Value(SubSeq(num, 1, n)) = Value(q) * Divisor + Value(rem)
  BY <1>1, DigitsFacts
<1>3. Value(rem) < Divisor
  BY <1>1, RestBelow
<1>4. Dividend' = Dividend /\ Divisor' = Divisor
  BY <1>1 DEF Dividend, Divisor, Decimals2
<1>5. n \in 0 .. Len(num) - 1 /\ n + 1 \in 1 .. Len(num) /\ n + 1 <= Len(num)
  <2> HIDE DEF n
  <2>1. QED
    BY <1>1, <1>2
<1>6. d \in S
  <2> HIDE DEF S, n
  <2>1. QED
    BY <1>2, <1>5
<1>7. Value(SubSeq(num, 1, n + 1)) = 10 * Value(SubSeq(num, 1, n)) + d
  <2> HIDE DEF n
  <2>1. Value(SubSeq(num, 1, n + 1)) = 10 * Value(SubSeq(num, 1, n)) + num[n + 1]
    BY <1>2, <1>5, NextPrefix
  <2>2. QED
    BY <2>1
<1> HIDE DEF d
<1>8. s \in Seq(S) /\ Value(s) = 10 * Value(rem) + d
  BY <1>2, <1>6, AppendValue
<1>9. Append(q, 0) \in Seq(S) /\ Len(Append(q, 0)) = n + 1 /\ Value(Append(q, 0)) = 10 * Value(q)
      /\ Append(q, 0)[n + 1] = 0
  <2> DEFINE o == 0
  <2>1. o \in S /\ Append(q, 0) = Append(q, o)
    OBVIOUS
  <2>2. Value(Append(q, o)) = 10 * Value(q) + o /\ Append(q, o) \in Seq(S) /\ Len(Append(q, o)) = n + 1
    <3> HIDE DEF o, q
    <3>1. QED
      BY <1>2, <2>1, AppendValue
  <2>3. Append(q, o)[n + 1] = o
    <3> HIDE DEF S, o, q
    <3>1. QED
      BY <1>2, <2>1
  <2> DEFINE v == Value(q)
  <2>4. v \in Nat /\ Value(Append(q, o)) = 10 * v + o
    BY <1>2, <2>2
  <2> HIDE DEF v
  <2>5. Value(Append(q, o)) = 10 * v
    BY <2>4
  <2>6. QED
    BY <2>2, <2>3, <2>5 DEF v
<1> HIDE DEF s
<1>10. rem' \in Seq(S) /\ Value(rem') = 10 * Value(rem) + d
  <2>1. S \in SUBSET Int
    OBVIOUS
  <2> HIDE DEF S
  <2>2. Bare(s) \in Seq(S) /\ Value(Bare(s)) = Value(s)
    BY <1>8, <2>1, BareFacts
  <2>3. QED
    BY <1>1, <1>8, <2>2
<1>11. Value(SubSeq(num, 1, n + 1)) = Value(Append(q, 0)) * Divisor + Value(rem')
  <2> DEFINE v == Value(SubSeq(num, 1, n))
             a == Value(q)
             b == Divisor
             c == Value(rem)
             x == Value(Append(q, 0))
             y == Value(SubSeq(num, 1, n + 1))
  <2>1. v = a * b + c /\ a \in Nat /\ b \in Nat /\ c \in Nat /\ d \in Nat
    BY <1>2, <1>6
  <2>2. y = 10 * v + d /\ x = 10 * a /\ Value(rem') = 10 * c + d
    BY <1>7, <1>9, <1>10
  <2> HIDE DEF v, a, b, c, x, y
  <2>3. (10 * a) * b + (10 * c + d) = 10 * (a * b + c) + d
    BY <2>1
  <2>4. y = x * b + Value(rem')
    BY <2>1, <2>2, <2>3
  <2>5. QED
    BY <2>4 DEF y, x, b
<1>12. 0 * Divisor + Value(rem') < 10 * Divisor
  <2> DEFINE b == Divisor
             c == Value(rem)
  <2>1. b \in Nat /\ c \in Nat /\ d \in 0 .. 9 /\ c < b /\ Value(rem') = 10 * c + d
    BY <1>2, <1>3, <1>6, <1>10
  <2> HIDE DEF b, c
  <2>2. 0 * b + Value(rem') < 10 * b
    BY <2>1
  <2>3. QED
    BY <2>2 DEF b
<1>13. Append(q, 0) # <<>>
  <2>1. Len(<<>>) = 0
    OBVIOUS
  <2> HIDE DEF n
  <2>2. QED
    BY <1>2, <1>9, <2>1, SMTT(30)
<1>14. ScaledInv'
  BY <1>1, <1>4 DEF LongInv, ScaledInv
<1>15. DigitsInv'
  <2> DEFINE r == Append(q, 0)
  <2>1. /\ quotient' = r /\ r \in Seq(0 .. 9) /\ Len(r) = n + 1 /\ n + 1 <= Len(num) /\ r # <<>>
        /\ r[n + 1] = 0
        /\ Value(SubSeq(num, 1, n + 1)) = Value(r) * Divisor + Value(rem')
    BY <1>1, <1>5, <1>9, <1>11, <1>13
  <2> HIDE DEF r, n
  <2>2. r[Len(r)] * Divisor + Value(rem') < 10 * Divisor
    BY <1>12, <2>1
  <2>3. QED
    BY <1>1, <1>4, <2>1, <2>2 DEF DigitsInv
<1>16. QED
  BY <1>1, <1>14, <1>15 DEF LongInv, QuotientInv, QuotientsClose, RemaindersExact, Done
(* The digits before the point are what is whole of a number. *)
LEMMA WholePartFacts ==
    ASSUME NEW x, Numeric(x), NEW p \in Nat, p >= x.point
    PROVE  /\ WholePart(x) \in Nat
           /\ WholePart(x) * Tens[p] <= Amount(x, p)
           /\ Amount(x, p) < (WholePart(x) + 1) * Tens[p]
<1> DEFINE S == 0 .. 9
           s == x.digits
           n == Len(s)
           k == x.point
           h == WholePart(x)
           c == Tens[p - k]
           t == Tens[p]
           u == Tens[k]
<1>1. s \in Seq(S) /\ n \in Nat /\ k \in Nat /\ Value(s) \in Nat
  BY ShapeParts DEF Numeric
<1>2. p - k \in Nat /\ k + (p - k) = p
  <2> HIDE DEF k
  <2>1. k <= p
    BY DEF k
  <2>2. QED
    BY <1>1, <2>1
<1>3. c \in Nat /\ c >= 1 /\ u \in Nat /\ t = u * c
  <2>1. c \in Nat /\ c >= 1 /\ u \in Nat
    BY <1>1, <1>2, TensPositive
  <2>2. Tens[k + (p - k)] = Tens[k] * Tens[p - k]
    BY <1>1, <1>2, TensSum
  <2>3. QED
    BY <1>2, <2>1, <2>2
<1>4. \E r \in Nat : r < u /\ h \in Nat /\ Value(s) = h * u + r
  <2>1. CASE n >= k
    <3> DEFINE l == n - k
               rest == SubSeq(s, l + 1, n)
    <3>1. l \in 0 .. n /\ n - l = k
      <4> HIDE DEF n, k
      <4>1. QED
        BY <1>1, <2>1
    <3>2. S \in SUBSET Nat
      OBVIOUS
    <3>3. /\ SubSeq(s, 1, l) \in Seq(S) /\ rest \in Seq(S) /\ Len(rest) = k
          /\ Value(s) = Value(SubSeq(s, 1, l)) * u + Value(rest)
      <4> HIDE DEF S, l, s
      <4>1. /\ SubSeq(s, 1, l) \in Seq(S)
            /\ SubSeq(s, l + 1, Len(s)) \in Seq(S) /\ Len(SubSeq(s, l + 1, Len(s))) = Len(s) - l
            /\ Value(s) = Value(SubSeq(s, 1, l)) * Tens[Len(s) - l] + Value(SubSeq(s, l + 1, Len(s)))
        BY <1>1, <3>1, <3>2, SplitFacts
      <4>2. QED
        BY <3>1, <4>1
    <3>4. h = Value(SubSeq(s, 1, l))
      BY DEF WholePart
    <3> HIDE DEF rest, l, h
    <3>5. Value(rest) \in Nat /\ Value(rest) < u /\ h \in Nat
      <4>1. Value(rest) \in Nat /\ Value(rest) < Tens[Len(rest)]
        BY <3>3, ValueBound
      <4>2. h \in Nat
        BY <3>3, <3>4, ValueBound
      <4>3. QED
        BY <3>3, <4>1, <4>2
    <3>6. Value(s) = h * u + Value(rest)
      BY <3>3, <3>4
    <3>7. QED
      BY <3>5, <3>6
  <2>2. CASE n < k
    <3>1. h = 0
      <4>1. n - k < 1 /\ n - k \in Int
        <5> HIDE DEF n, k
        <5>1. QED
          BY <1>1, <2>2
      <4>2. SubSeq(s, 1, n - k) = <<>>
        <5> DEFINE l == n - k
        <5> HIDE DEF l, S, s
        <5>1. SubSeq(s, 1, l) = <<>>
          BY <1>1, <4>1 DEF l
        <5>2. QED
          BY <5>1 DEF l
      <4>3. QED
        BY <4>2, ValueOfShort DEF WholePart
    <3>2. Value(s) < u
      <4>1. Value(s) < Tens[n]
        BY <1>1, ValueBound
      <4>2. n <= k
        BY <1>1, <2>2
      <4>3. Tens[n] <= Tens[k]
        BY <1>1, <4>2, TensGrow
      <4>4. Tens[n] \in Nat
        BY <1>1, TensFacts
      <4> DEFINE v == Value(s)
                 y == Tens[n]
      <4>5. v \in Nat /\ v < y /\ y <= u /\ y \in Nat
        BY <1>1, <4>1, <4>3, <4>4
      <4> HIDE DEF v, y, u
      <4>6. v < u
        BY <1>3, <4>5
      <4>7. QED
        BY <4>6 DEF v
    <3> DEFINE v == Value(s)
    <3>3. v \in Nat /\ v < u
      BY <1>1, <3>2
    <3> HIDE DEF h, u, v
    <3>4. v = h * u + v
      BY <1>3, <3>1, <3>3
    <3>5. v < u /\ h \in Nat /\ v = h * u + v
      BY <3>1, <3>3, <3>4
    <3>6. \E r \in Nat : r < u /\ h \in Nat /\ v = h * u + r
      BY <3>3, <3>5
    <3>7. QED
      BY <3>6 DEF v
  <2>3. QED
    BY <1>1, <2>1, <2>2
<1>5. PICK r \in Nat : r < u /\ h \in Nat /\ Value(s) = h * u + r
  BY <1>4
<1>6. Amount(x, p) = Value(s) * c
  BY DEF Amount
<1> DEFINE v == Value(s)
           w == Amount(x, p)
<1>7. w = v * c /\ v = h * u + r
  BY <1>5, <1>6
<1> HIDE DEF v, w, h, c, t, u
<1>8. h * t <= w /\ w < (h + 1) * t
  <2>1. h * t = (h * u) * c /\ (h + 1) * t = (h * u) * c + u * c
    BY <1>3, <1>5
  <2>2. w = (h * u) * c + r * c
    BY <1>3, <1>5, <1>7
  <2>3. r * c >= 0 /\ r * c < u * c
    <3>1. r * c \in Nat /\ u * c \in Nat
      BY <1>3
    <3>2. (r + 1) * c <= u * c
      <4>1. r + 1 \in Int /\ r + 1 <= u
        BY <1>3, <1>5
      <4>2. QED
        BY <1>3, <4>1, TimesMonotone
    <3>3. (r + 1) * c = r * c + c
      BY <1>3
    <3> DEFINE y == r * c
               z == u * c
    <3>4. y + c <= z /\ y \in Nat /\ z \in Nat
      BY <3>1, <3>2, <3>3
    <3> HIDE DEF y, z
    <3>5. y >= 0 /\ y < z
      BY <1>3, <3>4
    <3>6. QED
      BY <3>5 DEF y, z
  <2> DEFINE e == (h * u) * c
             y == r * c
             z == u * c
  <2>4. h * t = e /\ (h + 1) * t = e + z /\ w = e + y /\ y >= 0 /\ y < z
        /\ e \in Nat /\ y \in Nat /\ z \in Nat
    BY <1>3, <1>5, <2>1, <2>2, <2>3
  <2> HIDE DEF e, y, z
  <2>5. QED
    BY <2>4
<1>9. QED
  BY <1>5, <1>8 DEF h, t, w

(* A quotient with its sign, and how far it is off. *)
LEMMA SignedError ==
    ASSUME NEW e \in {-1, 1}, NEW f \in {-1, 1}, NEW g, g = e * f,
           NEW w \in Nat, NEW a \in Nat, NEW b \in Nat, NEW t \in Nat,
           w * b - a * t < b, a * t - w * b < b
    PROVE  /\ Magnitude(f * b) = b
           /\ Magnitude((g * w) * b - f * (e * a) * t) < b
<1> DEFINE x == w * b
           y == a * t
           m == (g * w) * b - f * (e * a) * t
<1>1. x \in Nat /\ y \in Nat /\ x - y < b /\ y - x < b
  OBVIOUS
<1>2. m = x - y \/ m = y - x
  <2>1. g \in {-1, 1}
    OBVIOUS
  <2>2. f * (e * a) * t = g * (a * t) /\ (g * w) * b = g * (w * b)
    <3>1. f * (e * a) * t = (e * f) * (a * t)
      OBVIOUS
    <3>2. (g * w) * b = g * (w * b)
      BY <2>1
    <3>3. QED
      BY <3>1, <3>2
  <2>3. m = g * x - g * y
    BY <2>2
  <2> HIDE DEF m, x, y
  <2>4. QED
    BY <1>1, <2>1, <2>3
<1>3. Magnitude(f * b) = b
  <2>1. f * b = b \/ f * b = -b
    OBVIOUS
  <2>2. f * b = -b /\ b = 0 => f * b = b
    OBVIOUS
  <2> DEFINE c == f * b
  <2>3. c = b \/ c = -b
    BY <2>1
  <2> HIDE DEF c
  <2>4. Magnitude(c) = b
    BY <2>3 DEF Magnitude
  <2>5. QED
    BY <2>4 DEF c
<1> HIDE DEF m, x, y
<1>4. Magnitude(m) < b
  BY <1>1, <1>2 DEF Magnitude
<1>5. QED
  BY <1>3, <1>4 DEF m

(* All digits are there: the result is the quotient, but for the rest and    *)
(* the decimals that are rounded away. *)
LEMMA EndFacts ==
    ASSUME Inv, LongInv, AllDigits,
           NEW z, z = Limit(Trim(Number(left.neg # right.neg, quotient, zeros)))
    PROVE  LET w == Amount(z, Precision)
               t == Tens[Precision]
           IN  /\ Numeric(z) /\ z.point <= Precision /\ w \in Nat
               /\ w # 0 => z.neg = (left.neg # right.neg)
               /\ Units(z, Precision) = Side(left.neg # right.neg) * w
               /\ w * Divisor - Dividend * t < Divisor
               /\ Dividend * t - w * Divisor < Divisor
               /\ WholePart(z) * Divisor <= Dividend
               /\ Dividend < (WholePart(z) + 1) * Divisor
               /\ WholePart(z) # 0 => z.neg = (left.neg # right.neg)
<1> DEFINE neg == left.neg # right.neg
           s == quotient
           n == zeros
           k == n - Precision
           q == Value(s)
           a == Dividend
           b == Divisor
           r == Value(rem)
           w == Amount(z, Precision)
           p == Tens[Precision]
           t == Tens[k]
           h == WholePart(z)
<1>1. phase = "digits" /\ ~Fits /\ Len(s) = Len(num)
  BY DEF AllDigits
<1>2. /\ num \in Seq(0 .. 9) /\ s \in Seq(0 .. 9) /\ n \in Nat /\ Len(s) >= 1 /\ n >= Precision
      /\ n <= Len(s)
      /\ Value(num) = a * Tens[n]
      /\ n > Precision => Value(num) < 10 * b
      /\ Value(SubSeq(num, 1, Len(num))) = q * b + r
      /\ a \in Nat /\ b \in Nat /\ b >= 1 /\ r \in Nat /\ q \in Nat
  BY <1>1, DigitsFacts
<1>3. r < b
  BY <1>1, RestBelow
<1>4. neg \in BOOLEAN /\ Precision \in Nat /\ Precision >= 1
  BY PrecisionAssumption
<1>5. Value(num) = q * b + r
  <2> DEFINE S == 0 .. 9
  <2>1. num \in Seq(S)
    BY <1>2
  <2> HIDE DEF S
  <2>2. SubSeq(num, 1, Len(num)) = num
    BY <2>1
  <2>3. QED
    BY <1>2, <2>2
<1>6. k \in Nat /\ Precision + k = n
  BY <1>2, <1>4
<1>7. /\ p \in Nat /\ p >= 10 /\ t \in Nat /\ t >= 1 /\ Tens[n] = p * t
      /\ n > Precision => t >= 10
  <2>1. p \in Nat /\ t \in Nat /\ t >= 1
    BY <1>4, <1>6, TensPositive
  <2>2. \A i \in Nat : i >= 1 => Tens[i] >= 10
    <3>1. SUFFICES ASSUME NEW i \in Nat, i >= 1 PROVE Tens[i] >= 10
      OBVIOUS
    <3>2. i - 1 \in Nat /\ (i - 1) + 1 = i
      BY <3>1
    <3>3. Tens[(i - 1) + 1] = 10 * Tens[i - 1] /\ Tens[i - 1] \in Nat /\ Tens[i - 1] >= 1
      BY <3>2, TensFacts, TensPositive
    <3>4. QED
      BY <3>2, <3>3
  <2>3. Tens[Precision + k] = Tens[Precision] * Tens[k]
    BY <1>4, <1>6, TensSum
  <2>4. n > Precision => k >= 1
    BY <1>2, <1>4, <1>6
  <2>5. p >= 10
    BY <1>4, <2>2
  <2>6. n > Precision => t >= 10
    BY <1>6, <2>2, <2>4
  <2>7. QED
    BY <1>6, <2>1, <2>3, <2>5, <2>6
<1>8. /\ Numeric(z) /\ z.point <= Precision
      /\ \E m \in Nat : /\ Units(z, n) = Side(neg) * m
                        /\ \/ m = q
                           \/ n > Precision /\ 2 * (m - q) <= t /\ 2 * (q - m) <= t
  <2> HIDE DEF neg, s, n, k
  <2>1. z = Limit(Trim(Number(neg, s, n)))
    BY DEF neg, s, n
  <2>2. /\ Numeric(Limit(Trim(Number(neg, s, n)))) /\ Limit(Trim(Number(neg, s, n))).point <= Precision
        /\ \E m \in Nat : /\ Units(Limit(Trim(Number(neg, s, n))), n) = Side(neg) * m
                          /\ \/ m = Value(s)
                             \/ /\ n > Precision
                                /\ 2 * (m - Value(s)) <= Tens[n - Precision]
                                /\ 2 * (Value(s) - m) <= Tens[n - Precision]
    BY <1>2, <1>4, EndedFacts
  <2>3. QED
    BY <2>1, <2>2 DEF k
<1>9. PICK m \in Nat : /\ Units(z, n) = Side(neg) * m
                       /\ m = q \/ (n > Precision /\ 2 * (m - q) <= t /\ 2 * (q - m) <= t)
  BY <1>8
<1>10. /\ w \in Nat /\ Units(z, Precision) = Side(z.neg) * w
       /\ Units(z, n) = Side(z.neg) * (w * t)
       /\ z.neg \in BOOLEAN
  <2>1. Shape(z) /\ z.point \in Nat /\ z.neg \in BOOLEAN
    BY <1>8, ShapeParts DEF Numeric
  <2>2. w \in Nat /\ Units(z, Precision) = Side(z.neg) * w
    BY <1>4, <1>8, <2>1, AmountFacts
  <2>3. n >= Precision /\ n >= z.point
    BY <1>2, <1>4, <1>8, <2>1
  <2>4. Amount(z, n) = w * t
    BY <1>2, <1>4, <1>8, <2>1, <2>3, AmountFacts, SMTT(30)
  <2>5. Units(z, n) = Side(z.neg) * Amount(z, n)
    BY <1>2, <2>1, <2>3, AmountFacts
  <2>6. QED
    BY <2>1, <2>2, <2>4, <2>5
<1> DEFINE e == Side(z.neg)
           f == Side(neg)
<1>11. e \in {-1, 1} /\ f \in {-1, 1} /\ (e = f => z.neg = neg) /\ (z.neg = neg => e = f)
  BY <1>4, <1>10 DEF Side
<1>12. w * t = m /\ (w # 0 => e = f) /\ Units(z, Precision) = f * w
  <2>1. e * (w * t) = f * m /\ Units(z, Precision) = e * w
    BY <1>9, <1>10
  <2> DEFINE v == w * t
  <2>2. v \in Nat /\ e * v = f * m /\ (v = 0 => w = 0)
    <3>1. v \in Nat
      BY <1>7, <1>10
    <3>2. w # 0 => v # 0
      <4>1. SUFFICES ASSUME w # 0 PROVE v # 0
        OBVIOUS
      <4>2. 1 <= w
        BY <1>10, <4>1
      <4>3. 1 * t <= w * t
        BY <1>7, <1>10, <4>2, TimesMonotone
      <4> HIDE DEF v, w, t
      <4>4. 1 * t = t
        BY <1>7
      <4>5. t <= v
        BY <4>3, <4>4 DEF v
      <4>6. QED
        BY <1>7, <3>1, <4>5
    <3>3. QED
      BY <2>1, <3>1, <3>2
  <2> HIDE DEF v, w, e, f
  <2>3. v = m /\ (v # 0 => e = f)
    BY <1>9, <1>11, <2>2
  <2>4. w # 0 => e = f
    BY <2>2, <2>3
  <2>5. e * w = f * w
    <3>1. CASE w = 0
      BY <1>11, <3>1
    <3>2. CASE w # 0
      BY <2>4, <3>2
    <3>3. QED
      BY <3>1, <3>2
  <2>6. QED
    BY <2>1, <2>3, <2>4, <2>5 DEF v
<1>13. a * (p * t) = q * b + r
  BY <1>2, <1>5, <1>7
<1>14. w * t = q \/ (n > Precision /\ 2 * (w * t - q) <= t /\ 2 * (q - w * t) <= t)
  BY <1>9, <1>12
<1>15. w * b - a * p < b /\ a * p - w * b < b
  <2>1. w * t = q \/ (t >= 2 /\ 2 * (w * t - q) <= t /\ 2 * (q - w * t) <= t)
    <3>1. n > Precision => t >= 2
      <4> HIDE DEF t
      <4>1. QED
        BY <1>7
    <3>2. QED
      BY <1>14, <3>1
  <2>2. /\ a \in Nat /\ b \in Nat /\ b >= 1 /\ r \in Nat /\ r < b /\ p \in Nat /\ t \in Nat /\ t >= 1
        /\ w \in Nat /\ q \in Nat /\ a * (p * t) = q * b + r
    BY <1>2, <1>3, <1>7, <1>10, <1>13
  <2> HIDE DEF w, t, q, b, r, p, a
  <2>3. QED
    BY <2>1, <2>2, QuotientError
<1>16. h \in Nat /\ h * p <= w /\ w < (h + 1) * p
  BY <1>4, <1>8, WholePartFacts
<1>17. h * b <= a /\ a < (h + 1) * b
  <2>1. w * t = q \/ /\ t >= 10 /\ 2 * (w * t - q) <= t /\ 2 * (q - w * t) <= t
                     /\ a * (p * t) < 10 * b
    <3>1. n > Precision => a * (p * t) < 10 * b
      BY <1>2, <1>5, <1>13
    <3>2. QED
      BY <1>7, <1>14, <3>1
  <2>2. /\ a \in Nat /\ b \in Nat /\ b >= 1 /\ r \in Nat /\ r < b /\ p \in Nat /\ p >= 10
        /\ t \in Nat /\ t >= 1 /\ w \in Nat /\ q \in Nat /\ a * (p * t) = q * b + r
    BY <1>2, <1>3, <1>7, <1>10, <1>13
  <2>3. h \in Nat /\ h * p <= w /\ w < (h + 1) * p
    BY <1>16
  <2> HIDE DEF w, t, q, b, r, p, a, h
  <2>4. QED
    BY <2>1, <2>2, <2>3, WholeFits
<1>18. h # 0 => w # 0
  <2>1. SUFFICES ASSUME h # 0 PROVE w # 0
    OBVIOUS
  <2> HIDE DEF w, h, p
  <2>2. 1 <= h
    BY <1>16, <2>1
  <2>3. 1 * p <= h * p
    BY <1>7, <1>16, <2>2, TimesMonotone
  <2> DEFINE v == h * p
  <2>4. v \in Nat /\ p <= v /\ v <= w
    BY <1>7, <1>16, <2>3
  <2> HIDE DEF v
  <2>5. QED
    BY <1>7, <1>10, <2>4
<1>19. w # 0 => z.neg = neg
  BY <1>11, <1>12
<1>20. QED
  BY <1>8, <1>10, <1>12, <1>15, <1>17, <1>18, <1>19

(* A quotient is off by less than one unit of the last decimal. *)
LEMMA EndLong ==
    ASSUME Inv, LongInv, EndDivision
    PROVE  LongInv'
<1> DEFINE neg == left.neg # right.neg
           z == Limit(Trim(Number(neg, quotient, zeros)))
           w == Amount(z, Precision)
           t == Tens[Precision]
           e == Side(left.neg)
           f == Side(right.neg)
           g == Side(neg)
           a == Dividend
           b == Divisor
<1>1. /\ AllDigits /\ phase' = (IF op = "/" THEN "idle" ELSE "remainder") /\ op' = op /\ left' = left
      /\ right' = right /\ result' = z
  BY DEF EndDivision
<1> HIDE DEF z
<1>2. z = Limit(Trim(Number(left.neg # right.neg, quotient, zeros)))
  BY DEF z
<1>3. /\ Numeric(z) /\ z.point <= Precision /\ w \in Nat
      /\ Units(z, Precision) = g * w
      /\ w * b - a * t < b
      /\ a * t - w * b < b
      /\ WholePart(z) * b <= a
      /\ a < (WholePart(z) + 1) * b
      /\ WholePart(z) # 0 => z.neg = neg
  BY <1>1, <1>2, EndFacts
<1>4. Dividend' = a /\ Divisor' = b /\ Decimals2' = Decimals2
  BY <1>1 DEF Dividend, Divisor, Decimals2
<1>5. Usable(left) /\ Usable(right) /\ op \in {"/", "%"}
  BY <1>1 DEF AllDigits, Inv, NumbersInv, StringsInv
<1>6. /\ Units(left, Decimals2) = e * a /\ Units(right, Decimals2) = f * b
      /\ a \in Nat /\ b \in Nat /\ left.neg \in BOOLEAN /\ right.neg \in BOOLEAN
  BY <1>5, LongFacts, ShapeParts
<1>7. e \in {-1, 1} /\ f \in {-1, 1} /\ g = e * f
  BY <1>6 DEF Side
<1>8. t \in Nat
  BY PrecisionAssumption, TensFacts
<1>9. Magnitude(f * b) = b /\ Magnitude((g * w) * b - f * (e * a) * t) < b
  <2> HIDE DEF e, f, g, a, b, t, w
  <2>1. QED
    BY <1>3, <1>6, <1>7, <1>8, SignedError
<1>10. QuotientsClose'
  <2>1. SUFFICES ASSUME TRUE
                 PROVE  LET divisor == Magnitude(Units(right, Decimals2))
                        IN  Magnitude(Units(z, Precision) * divisor
                                      - f * Units(left, Decimals2) * t) < divisor
    BY <1>1, <1>4 DEF QuotientsClose
  <2>2. Units(z, Precision) = g * w /\ Magnitude(Units(right, Decimals2)) = b
    BY <1>3, <1>6, <1>9
  <2> HIDE DEF e, f, g, a, b, t, w
  <2>3. QED
    BY <1>6, <1>9, <2>2
<1>11. ScaledInv' /\ DigitsInv'
  BY <1>1 DEF ScaledInv, DigitsInv
<1>12. RemaindersExact'
  BY <1>1, <1>5 DEF RemaindersExact, Done
<1>13. /\ Numeric(result')
       /\ phase' = "remainder" =>
            /\ WholePart(result') * Divisor' <= Dividend'
            /\ Dividend' < (WholePart(result') + 1) * Divisor'
            /\ WholePart(result') # 0 => result'.neg = (left'.neg # right'.neg)
  BY <1>1, <1>3, <1>4
<1>14. QED
  BY <1>10, <1>11, <1>12, <1>13 DEF LongInv, QuotientInv, WholePart
(* What is left of a when b is taken away h times, as often as it can be. *)
LEMMA ModFacts ==
    ASSUME NEW a \in Nat, NEW b \in Nat, b >= 1, NEW h \in Nat, h * b <= a, a < (h + 1) * b
    PROVE  a % b = a - h * b
<1> DEFINE d == a \div b
           r == a % b
<1>1. d \in Int /\ r \in 0 .. b - 1 /\ a = b * d + r
  OBVIOUS
<1> HIDE DEF d, r
<1>2. r \in Int /\ r >= 0 /\ r < b
  BY <1>1
<1> DEFINE x == h * b
           y == d * b
<1>3. x \in Int /\ y \in Int /\ a = y + r /\ (h + 1) * b = x + b /\ (d + 1) * b = y + b
  BY <1>1, <1>2
<1> HIDE DEF x, y
<1>4. x <= a /\ a < x + b
  BY <1>3 DEF x
<1>5. x < y + b /\ y < x + b
  BY <1>2, <1>3, <1>4
<1>6. h < d + 1
  <2>1. h * b < (d + 1) * b
    BY <1>3, <1>5 DEF x
  <2>2. QED
    BY <1>1, <2>1, TimesStrict
<1>7. d < h + 1
  <2>1. d * b < (h + 1) * b
    BY <1>3, <1>5 DEF y
  <2>2. QED
    BY <1>1, <2>1, TimesStrict
<1>8. d = h
  BY <1>1, <1>6, <1>7
<1>9. y = x
  BY <1>8 DEF x, y
<1>10. r = a - x
  BY <1>2, <1>3, <1>9
<1>11. QED
  BY <1>10 DEF r, x

(* The whole quotient times the divisor, in units of the p-th decimal.       *)
(* Nothing is rounded when the divisor has no more decimals than there may be. *)
LEMMA WholeTimes ==
    ASSUME NEW x, Numeric(x), NEW b, Numeric(b), b.kind = "finite", b.point <= Precision,
           NEW p \in Nat, p >= b.point, NEW neg \in BOOLEAN,
           WholePart(x) # 0 => x.neg = (neg # b.neg)
    PROVE  LET y == Mul(Whole(x), b)
           IN  /\ Numeric(y) /\ y.kind = "finite" /\ y.point <= b.point
               /\ Units(y, p) = Side(neg) * (WholePart(x) * Amount(b, p))
<1> DEFINE v == Whole(x)
           y == Mul(v, b)
           h == WholePart(x)
           n == Value(b.digits)
           k == b.point
           c == Tens[p - k]
           t == Tens[Precision]
           u == Tens[k]
<1>1. /\ Shape(b) /\ b.digits \in Seq(0 .. 9) /\ k \in Nat /\ n \in Nat /\ b.neg \in BOOLEAN
      /\ Shape(x) /\ x.neg \in BOOLEAN
  BY ShapeParts DEF Numeric
<1>2. /\ Loose(v) /\ v.kind = "finite" /\ v.point = 0 /\ v.digits \in Seq(0 .. 9)
      /\ Value(v.digits) = h
      /\ h # 0 => v.neg = x.neg
  BY <1>1, WholeFacts DEF WholePart, Numeric
<1> HIDE DEF v
<1>3. h \in Nat /\ v.neg \in BOOLEAN
  BY <1>2, ValueBound DEF Loose
<1> HIDE DEF h
<1>4. y = MulFinite(v, b)
  <2>1. Kinds(v, b) = {"finite"}
    BY <1>2 DEF Kinds
  <2>2. QED
    BY <1>1, <1>2, <2>1, MulFacts
<1>5. /\ Numeric(y) /\ y.kind = "finite" /\ y.point <= v.point + b.point /\ Rounded(y, v, b)
  BY <1>1, <1>2, <1>4, MulFiniteFacts
<1> HIDE DEF y
<1>6. v.point + b.point = k /\ y.point <= k
  BY <1>1, <1>2, <1>5
<1> DEFINE f == Side(v.neg # b.neg)
<1>7. PICK m \in Nat : /\ Units(y, k) = f * m
                       /\ 2 * (m - h * n) * t <= u
                       /\ 2 * (h * n - m) * t <= u
  BY <1>2, <1>5, <1>6 DEF Rounded
<1>8. t \in Nat /\ t >= 1 /\ u \in Nat /\ u <= t /\ c \in Nat
  <2>1. Precision \in Nat /\ p - k \in Nat
    <3> DEFINE d == k
    <3>1. d \in Nat /\ p >= d
      BY <1>1
    <3> HIDE DEF d
    <3>2. p - d \in Nat
      BY <3>1
    <3>3. QED
      BY <3>2, PrecisionAssumption DEF d
  <2>2. t \in Nat /\ t >= 1 /\ u \in Nat /\ c \in Nat
    BY <1>1, <2>1, TensPositive
  <2>3. u <= t
    BY <1>1, <2>1, TensGrow
  <2>4. QED
    BY <2>2, <2>3
<1>9. m = h * n
  <2> DEFINE e == h * n
  <2>1. e \in Nat /\ 2 * (m - e) * t <= u /\ 2 * (e - m) * t <= u
    BY <1>1, <1>3, <1>7
  <2> HIDE DEF e, t, u
  <2>2. ASSUME NEW d \in Int, 2 * d * t <= u PROVE d <= 0
    <3>1. SUFFICES ASSUME d >= 1 PROVE FALSE
      BY <2>2
    <3>2. 2 <= 2 * d
      BY <3>1
    <3>3. 2 * t <= (2 * d) * t
      <4> DEFINE i == 2 * d
      <4>1. i \in Int /\ 2 <= i
        BY <3>2
      <4> HIDE DEF i
      <4>2. 2 * t <= i * t
        BY <1>8, <4>1, TimesMonotone
      <4>3. QED
        BY <4>2 DEF i
    <3> DEFINE j == 2 * d * t
    <3>4. 2 * t <= j /\ j <= u /\ j \in Int
      BY <1>8, <2>2, <3>3
    <3> HIDE DEF j
    <3>5. QED
      BY <1>8, <3>4
  <2>3. m - e \in Int /\ e - m \in Int
    BY <2>1
  <2>4. m - e <= 0
    BY <2>1, <2>2, <2>3
  <2>5. e - m <= 0
    BY <2>1, <2>2, <2>3
  <2>6. m = e
    BY <2>1, <2>4, <2>5
  <2>7. QED
    BY <2>6 DEF e
<1>10. Units(y, p) = (f * m) * c
  <2>1. Shape(y) /\ k >= y.point
    BY <1>5, <1>6 DEF Numeric
  <2>2. Units(y, p) = Units(y, k) * Tens[p - k]
    BY <1>1, <2>1, UnitsFacts
  <2>3. QED
    BY <1>7, <2>2
<1>11. h # 0 => f = Side(neg)
  <2>1. h # 0 => v.neg = (neg # b.neg)
    BY <1>2 DEF h
  <2>2. v.neg = (neg # b.neg) => (v.neg # b.neg) = neg
    BY <1>1, <1>3
  <2>3. QED
    BY <2>1, <2>2
<1>12. Amount(b, p) = n * c
  BY DEF Amount
<1> DEFINE g == Side(neg)
           w == Amount(b, p)
<1>13. f \in {-1, 1} /\ g \in {-1, 1}
  BY DEF Side
<1> HIDE DEF f, g, n, c, w
<1>14. (f * m) * c = g * (h * w)
  <2>1. CASE h = 0
    <3>1. m = 0
      BY <1>1, <1>9, <2>1 DEF n
    <3>2. (f * 0) * c = 0 /\ g * (0 * w) = 0
      <4>1. w \in Int
        BY <1>1, <1>8, <1>12 DEF n, c, w
      <4>2. QED
        BY <1>8, <1>13, <4>1 DEF c
    <3>3. QED
      BY <2>1, <3>1, <3>2
  <2>2. CASE h # 0
    <3>1. f = g /\ w = n * c /\ n \in Nat /\ c \in Nat
      BY <1>1, <1>8, <1>11, <1>12, <2>2 DEF g, w, n, c
    <3>2. (g * (h * n)) * c = g * (h * (n * c))
      BY <1>3, <1>13, <3>1
    <3>3. QED
      BY <1>9, <3>1, <3>2
  <2>3. QED
    BY <2>1, <2>2
<1>15. QED
  BY <1>5, <1>6, <1>10, <1>14 DEF y, v, h, g, w

(* The remainder is what is left of the dividend. *)
LEMMA RemainderLong ==
    ASSUME Inv, LongInv, Remainder
    PROVE  LongInv'
<1> DEFINE y == Mul(Whole(result), right)
           z == Sub(left, y)
           p == Decimals2
           a == Dividend
           b == Divisor
           h == WholePart(result)
           e == Side(left.neg)
<1>1. /\ phase = "remainder" /\ phase' = "idle" /\ op' = op /\ left' = left
      /\ right' = right /\ result' = z
  BY DEF Remainder
<1>2. /\ op = "%" /\ Usable(left) /\ Usable(right) /\ IsLong(left, right) /\ Shape(result)
  BY <1>1 DEF Inv, NumbersInv, StringsInv
<1>3. /\ Numeric(result)
      /\ h * b <= a /\ a < (h + 1) * b
      /\ h # 0 => result.neg = (left.neg # right.neg)
  BY <1>1 DEF LongInv, QuotientInv
<1>4. /\ Numeric(left) /\ Numeric(right) /\ Shape(left) /\ Shape(right)
      /\ left.point \in Nat /\ right.point \in Nat
      /\ p \in Nat /\ p >= left.point /\ p >= right.point
      /\ a \in Nat /\ b \in Nat /\ b >= 1
      /\ Units(left, p) = e * a
      /\ Units(right, p) = Side(right.neg) * b
      /\ left.neg \in BOOLEAN /\ right.neg \in BOOLEAN
  BY <1>2, LongFacts, ShapeParts DEF IsLong
<1>5. left.kind = "finite" /\ right.kind = "finite"
  BY <1>2 DEF IsLong, Kinds
<1>6. h \in Nat
  <2>1. result.point \in Nat
    BY <1>2, ShapeParts
  <2>2. result.point >= result.point
    BY <2>1
  <2>3. QED
    BY <1>3, <2>1, <2>2, WholePartFacts
<1>7. Numeric(z)
  <2>1. Numeric(y)
    BY <1>2, <1>4, WholeFacts, MulFacts
  <2> HIDE DEF y
  <2>2. QED
    BY <1>4, <2>1, SubFacts
<1>8. ASSUME right.point <= Precision
      PROVE  Units(z, p) = e * (Magnitude(Units(left, p)) % Magnitude(Units(right, p)))
  <2>1. /\ Numeric(y) /\ y.kind = "finite" /\ y.point <= right.point
        /\ Units(y, p) = e * (h * b)
    <3>1. b = Amount(right, p)
      BY DEF Divisor
    <3> HIDE DEF p, b, h
    <3>2. h # 0 => result.neg = (left.neg # right.neg)
      BY <1>3
    <3>3. QED
      BY <1>3, <1>4, <1>5, <1>8, <3>1, <3>2, WholeTimes DEF h
  <2> HIDE DEF y
  <2>2. Units(z, p) = Units(left, p) - Units(y, p)
    <3> DEFINE o == Larger(left.point, y.point)
    <3>1. Shape(y) /\ y.point \in Nat
      BY <2>1, ShapeParts DEF Numeric
    <3>2. o \in Nat /\ o >= left.point /\ o >= y.point /\ (o = left.point \/ o = y.point)
      BY <1>4, <3>1, LargerFacts
    <3>3. z.kind = "finite" /\ z.point <= o /\ Units(z, o) = Units(left, o) - Units(y, o)
      BY <1>4, <1>5, <2>1, SubFacts
    <3> HIDE DEF o, z, p
    <3>4. p >= o
      BY <1>4, <2>1, <3>1, <3>2
    <3>5. Shape(z) /\ z.point \in Nat /\ o >= z.point
      BY <1>7, <3>2, <3>3, ShapeParts DEF Numeric
    <3> DEFINE c == Tens[p - o]
    <3>6. /\ Units(z, p) = Units(z, o) * c
          /\ Units(left, p) = Units(left, o) * c
          /\ Units(y, p) = Units(y, o) * c
          /\ Units(left, o) \in Int /\ Units(y, o) \in Int
      BY <1>4, <3>1, <3>2, <3>4, <3>5, UnitsFacts
    <3>7. c \in Nat
      <4>1. p - o \in Nat
        BY <1>4, <3>2, <3>4
      <4>2. QED
        BY <4>1, TensFacts
    <3> DEFINE i == Units(left, o)
               j == Units(y, o)
    <3>8. i \in Int /\ j \in Int /\ Units(z, p) = (i - j) * c /\ Units(left, p) = i * c /\ Units(y, p) = j * c
      BY <3>3, <3>6
    <3> HIDE DEF i, j, c
    <3>9. (i - j) * c = i * c - j * c
      BY <3>7, <3>8
    <3>10. QED
      BY <3>8, <3>9
  <2>3. e \in {-1, 1} /\ Side(right.neg) \in {-1, 1}
    BY DEF Side
  <2>4. Magnitude(Units(left, p)) = a /\ Magnitude(Units(right, p)) = b
    <3>1. \A i \in {-1, 1} : \A n \in Nat : Magnitude(i * n) = n
      <4>1. SUFFICES ASSUME NEW i \in {-1, 1}, NEW n \in Nat PROVE Magnitude(i * n) = n
        OBVIOUS
      <4> DEFINE c == i * n
      <4>2. c = n \/ c = -n
        OBVIOUS
      <4> HIDE DEF c
      <4>3. Magnitude(c) = n
        BY <4>2 DEF Magnitude
      <4>4. QED
        BY <4>3 DEF c
    <3>2. QED
      BY <1>4, <2>3, <3>1
  <2>5. a % b = a - h * b
    <3> HIDE DEF a, b, h
    <3>1. QED
      BY <1>3, <1>4, <1>6, ModFacts
  <2>6. e * a - e * (h * b) = e * (a - h * b)
    <3> DEFINE c == h * b
    <3>1. c \in Int /\ a \in Int
      BY <1>4, <1>6
    <3> HIDE DEF c, a, e
    <3>2. e * a - e * c = e * (a - c)
      BY <2>3, <3>1
    <3>3. QED
      BY <3>2 DEF c
  <2>7. Units(z, p) = e * (a - h * b)
    BY <1>4, <2>1, <2>2, <2>6
  <2>8. QED
    BY <2>4, <2>5, <2>7
<1>9. RemaindersExact'
  <2> HIDE DEF z
  <2>1. Decimals2' = Decimals2
    BY <1>1 DEF Decimals2
  <2>2. QED
    BY <1>1, <1>8, <2>1 DEF RemaindersExact
<1>10. ScaledInv' /\ DigitsInv'
  BY <1>1 DEF ScaledInv, DigitsInv
<1>11. QuotientsClose'
  BY <1>1, <1>2 DEF QuotientsClose, Done
<1>12. Numeric(result') /\ phase' # "remainder"
  BY <1>1, <1>7
<1>13. QED
  BY <1>9, <1>10, <1>11, <1>12 DEF LongInv, QuotientInv
(* Every step. *)
LEMMA NextLong == ASSUME ProperDivisors, Inv, LongInv, [Next]_vars PROVE LongInv'
<1>1. \A a \in Operands : Usable(a)
  BY OperandsUsable DEF Inv, NumbersInv
<1>2. CASE \E a \in Operands : Plus(a)
  <2>1. PICK a \in Operands : Plus(a)
    BY <1>2
  <2> DEFINE x == IF a.kind = "finite" THEN FromText(Text(a)) ELSE a
  <2>2. Computed("+x", a, Zero, x) /\ Usable(x)
    BY <1>1, <2>1, PlusUsable DEF Plus
  <2> HIDE DEF x
  <2>3. QED
    BY <2>2, ComputedLong
<1>3. CASE \E a \in Operands : Minus(a)
  <2>1. PICK a \in Operands : Minus(a)
    BY <1>3
  <2>2. Computed("-x", a, Zero, Neg(a)) /\ Usable(Neg(a))
    BY <1>1, <2>1, MinusUsable DEF Minus
  <2>3. QED
    BY <2>2, ComputedLong
<1>4. CASE \E a, b \in Operands :
             \/ Sum(a, b)
             \/ Difference(a, b)
             \/ Product(a, b)
             \/ \E o \in {"/", "%"} : StartDivision(o, a, b) \/ ShortDivision(o, a, b)
  <2>1. PICK a \in Operands, b \in Operands :
             \/ Sum(a, b)
             \/ Difference(a, b)
             \/ Product(a, b)
             \/ \E o \in {"/", "%"} : StartDivision(o, a, b) \/ ShortDivision(o, a, b)
    BY <1>4
  <2>2. Usable(a) /\ Usable(b) /\ Numeric(a) /\ Numeric(b) /\ Shape(b) /\ Loose(a)
    <3>1. Usable(a) /\ Usable(b)
      BY <1>1
    <3>2. Numeric(a) /\ Numeric(b) /\ Shape(a) /\ Shape(b)
      BY <3>1 DEF Usable, Numeric
    <3>3. QED
      BY <3>1, <3>2, ShapeParts DEF Loose
  <2>3. CASE Sum(a, b)
    <3>1. Computed("+", a, b, Add(a, b)) /\ Usable(Add(a, b))
      BY <2>2, <2>3, AddFacts DEF Sum, Usable
    <3>2. QED
      BY <3>1, ComputedLong
  <2>4. CASE Difference(a, b)
    <3>1. Computed("-", a, b, Sub(a, b)) /\ Usable(Sub(a, b))
      BY <2>2, <2>4, SubFacts DEF Difference, Usable
    <3>2. QED
      BY <3>1, ComputedLong
  <2>5. CASE Product(a, b)
    <3>1. Computed("*", a, b, Mul(a, b)) /\ Usable(Mul(a, b))
      BY <2>2, <2>5, MulFacts DEF Product, Usable
    <3>2. QED
      BY <3>1, ComputedLong
  <2>6. CASE \E o \in {"/", "%"} : StartDivision(o, a, b)
    BY <2>2, <2>6, StartLong
  <2>7. CASE \E o \in {"/", "%"} : ShortDivision(o, a, b)
    <3>1. PICK o \in {"/", "%"} : ShortDivision(o, a, b)
      BY <2>7
    <3> DEFINE x == IF o = "/" THEN ShortQuotient(a, b) ELSE NaN
    <3>2. Computed(o, a, b, x) /\ ~IsLong(a, b)
      BY <3>1 DEF ShortDivision
    <3>3. Usable(x)
      BY <2>2, ShortUsable
    <3> HIDE DEF x
    <3>4. QED
      BY <3>2, <3>3, ComputedLong
  <2>8. QED
    BY <2>1, <2>3, <2>4, <2>5, <2>6, <2>7
<1>5. CASE Looping
  BY <1>5, ScaleLong, StartDigitsLong, SubtractLong, NextDigitLong DEF Looping
<1>6. CASE EndDivision
  BY <1>6, EndLong
<1>7. CASE Remainder
  BY <1>7, RemainderLong
<1>8. CASE UNCHANGED vars
  <2>1. /\ op' = op /\ left' = left /\ right' = right /\ result' = result /\ phase' = phase
        /\ num' = num /\ den' = den /\ zeros' = zeros /\ rem' = rem /\ quotient' = quotient
    BY <1>8 DEF vars
  <2>2. Decimals2' = Decimals2 /\ Dividend' = Dividend /\ Divisor' = Divisor
    BY <2>1 DEF Decimals2, Dividend, Divisor
  <2>3. ScaledInv' /\ DigitsInv'
    BY <2>1, <2>2 DEF LongInv, ScaledInv, DigitsInv
  <2>4. QuotientsClose' /\ RemaindersExact'
    BY <2>1, <2>2 DEF LongInv, QuotientInv, QuotientsClose, RemaindersExact, Done, Finite
  <2>5. QED
    BY <2>1, <2>2, <2>3, <2>4 DEF LongInv, QuotientInv
<1>9. QED
  BY <1>2, <1>3, <1>4, <1>5, <1>6, <1>7, <1>8 DEF Next

(* Both invariants hold in every state that is reached. *)
LEMMA SpecLong == ASSUME ProperDivisors PROVE Spec => [](Inv /\ LongInv)
<1>1. Init => Inv /\ LongInv
  BY InitInv, InitLong
<1>2. Inv /\ LongInv /\ [Next]_vars => (Inv /\ LongInv)'
  BY NextInv, NextLong
<1>3. QED
  BY <1>1, <1>2, PTL DEF Spec

(* bigfloat_div is off by less than one unit of the last decimal, when no    *)
(* divisor begins with a zero. *)
THEOREM QuotientsAreClose == ASSUME ProperDivisors PROVE Spec => []QuotientsClose
<1>1. LongInv => QuotientsClose
  BY DEF LongInv, QuotientInv
<1>2. QED
  BY <1>1, SpecLong, PTL

(* bigfloat_mod is exact, smaller than the divisor, and has the sign of the  *)
(* dividend, when no divisor begins with a zero or has more decimals than a  *)
(* product may have. *)
THEOREM RemaindersAreExact == ASSUME ProperDivisors PROVE Spec => []RemaindersExact
<1>1. LongInv => RemaindersExact
  BY DEF LongInv, QuotientInv
<1>2. QED
  BY <1>1, SpecLong, PTL

(* Every number there is has digits for digits and no zeros it does not      *)
(* need, and a division leaves nothing behind, when no divisor begins with a *)
(* zero: otherwise a digit is counted up past nine. *)
THEOREM NumbersAreNormal == ASSUME ProperDivisors PROVE Spec => []TypeOK
<1>1. Inv /\ LongInv => TypeOK
  <2> SUFFICES ASSUME Inv, LongInv PROVE TypeOK
    OBVIOUS
  <2>1. ASSUME NEW x, Usable(x) PROVE Normal(x)
    <3> DEFINE s == x.digits
               S == 0 .. 9
    <3>1. s \in Seq(S) /\ Len(s) >= 1 /\ Len(s) \in Nat /\ x.point \in Nat
      BY <2>1, ShapeParts DEF Usable, Numeric
    <3>2. /\ x.point > 0 => s[Len(s)] # 0
          /\ s[1] = 0 /\ Len(s) > 1 => Len(s) <= x.point
      BY <2>1 DEF Usable, Trimmed
    <3> HIDE DEF S, s
    <3>3. s # <<>> /\ Head(s) = s[1] /\ Last(s) = s[Len(s)] /\ \A i \in DOMAIN s : s[i] \in S
      BY <3>1 DEF Last
    <3>4. QED
      BY <3>1, <3>2, <3>3 DEF Normal, Proper, S, s
  <2>2. Usable(left) /\ Usable(right) /\ Usable(result)
    BY DEF Inv, NumbersInv, LongInv, QuotientInv, Usable
  <2>3. \A x \in {left, right, result} : Normal(x)
    BY <2>1, <2>2
  <2>4. /\ phase \in {"idle", "scale", "digits", "remainder"}
        /\ op \in {"+x", "-x", "+", "-", "*", "/", "%"}
        /\ count \in 0 .. MaxOps
        /\ phase = "idle" => NoDivision
    BY DEF Inv, NumbersInv, StringsInv, Phases, Operations
  <2>5. IsZero(result.digits) /\ result.neg /\ result.kind = "finite" => op \in {"-x", "+x", "/", "%"}
    BY DEF Inv, StringsInv, ResultInv
  <2>6. QED
    BY <2>3, <2>4, <2>5 DEF TypeOK
<1>2. QED
  BY <1>1, SpecLong, PTL
=============================================================================
