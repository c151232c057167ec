------------------------------- MODULE Decimals -------------------------------
(***************************************************************************)
(* The decimal numbers of vm/float_bigint.c: a sign, a string of digits,   *)
(* and how many of these are behind the point.  The digits are computed    *)
(* with one by one, as on paper.                                           *)
(*                                                                         *)
(* A digit is a number here, 0 for the character '0'.  Nothing is computed *)
(* with strings that have gone wrong, so what a character beyond '9' does  *)
(* is left out.  bigfloat_sqrt has no callers.                             *)
(***************************************************************************)
EXTENDS Integers, SequencesExt

CONSTANTS
    Precision,  \* BF_PRECISION: the decimals of products and quotients
    Tolerance   \* the decimals of the epsilon of bigfloat_cmp

ASSUME PrecisionAssumption == Precision \in Nat \ {0} /\ Tolerance \in Nat \ {0}

Number(neg, digits, point) ==
    [kind |-> "finite", neg |-> neg, digits |-> digits, point |-> point]
Zero == Number(FALSE, <<0>>, 0)
NaN == [Zero EXCEPT !.kind = "nan"]
Inf(neg) == [Zero EXCEPT !.kind = "inf", !.neg = neg]

Smaller(m, n) == IF m < n THEN m ELSE n
Larger(m, n) == IF m < n THEN n ELSE m
Zeros(n) == [i \in 1 .. Larger(n, 0) |-> 0]
IsZero(s) == \A i \in DOMAIN s : s[i] = 0

(* Mutant of Trim: zeros at the start stay.                                 *)
TrimEnd(x) ==
    LET n == Len(x.digits)
        last == Max({0} \cup {k \in 1 .. Smaller(x.point, n - 1) : IsZero(SubSeq(x.digits, n - k + 1, n))})
        digits == SubSeq(x.digits, 1, n - last)
    IN  IF digits = <<0>> THEN Zero ELSE Number(x.neg, digits, x.point - last)

(* No zeros at the end of the fraction, none at the start of the rest.      *)
Trim(x) ==
    LET n == Len(x.digits)
        last == Max({0} \cup {k \in 1 .. Smaller(x.point, n - 1) : IsZero(SubSeq(x.digits, n - k + 1, n))})
        first == Max({0} \cup {k \in 1 .. Smaller(n - last - 1, n - x.point) : IsZero(SubSeq(x.digits, 1, k))})
        digits == SubSeq(x.digits, first + 1, n - last)
    IN  IF digits = <<0>> THEN Zero ELSE Number(x.neg, digits, x.point - last)

(* One more in the last place.                                              *)
Increment(s) ==
    LET low == {i \in DOMAIN s : s[i] < 9}
    IN  IF low = {} THEN <<1>> \o Zeros(Len(s))
        ELSE [i \in DOMAIN s |-> CASE i < Max(low) -> s[i]
                                   [] i = Max(low) -> s[i] + 1
                                   [] i > Max(low) -> 0]

(* Mutant of Limit: decimals are cut off.                                   *)
LimitCut(x) ==
    IF x.point <= Precision THEN x
    ELSE Trim([x EXCEPT !.digits = SubSeq(@, 1, Len(@) - (x.point - Precision)), !.point = Precision])

(* At most Precision decimals, rounded.                                     *)
Limit(x) ==
    LET length == Len(x.digits) - (x.point - Precision)
        kept == SubSeq(x.digits, 1, length)
    IN  CASE x.point <= Precision -> x
          [] x.point > Precision /\ length <= 0 -> Zero
          [] OTHER -> Trim(Number(x.neg, IF x.digits[length + 1] >= 5 THEN Increment(kept) ELSE kept,
                                  Precision))

(* Mutant of Text: no zeros between the point and the digits.               *)
TextBare(x) ==
    LET whole == Larger(Len(x.digits) - x.point, 0)
    IN  [neg |-> x.neg,
         whole |-> IF whole = 0 THEN <<0>> ELSE SubSeq(x.digits, 1, whole),
         fraction |-> SubSeq(x.digits, whole + 1, Len(x.digits))]

(* bigfloat_to_string and bigfloat_create: what is printed before and       *)
(* behind the point, and the number that is read from it.                   *)
Text(x) ==
    LET whole == Larger(Len(x.digits) - x.point, 0)
    IN  [neg |-> x.neg,
         whole |-> IF whole = 0 THEN <<0>> ELSE SubSeq(x.digits, 1, whole),
         fraction |-> Zeros(x.point - Len(x.digits)) \o SubSeq(x.digits, whole + 1, Len(x.digits))]

FromText(t) == Trim(Number(t.neg, t.whole \o t.fraction, Len(t.fraction)))

-----------------------------------------------------------------------------
(* Strings of digits.  The digit k places from the right.                   *)
Digit(s, k) == IF k \in 0 .. Len(s) - 1 THEN s[Len(s) - k] ELSE 0
FromRight(n, D(_)) == [i \in 1 .. n |-> D(n - i)]

(* Without leading zeros, but one digit at least.                           *)
Bare(s) == SubSeq(s, Min({i \in DOMAIN s : s[i] # 0} \cup {Len(s) + 1}), Len(s))
Strip(s) == SubSeq(s, Min({i \in DOMAIN s : s[i] # 0} \cup {Len(s)}), Len(s))

(* istrcmp: -1, 0 or 1.                                                     *)
CompareDigits(s, t) ==
    LET a == Strip(s)
        b == Strip(t)
        differ == {i \in DOMAIN a : a[i] # b[i]}
    IN  CASE Len(a) # Len(b) -> IF Len(a) > Len(b) THEN 1 ELSE -1
          [] a = b -> 0
          [] OTHER -> IF a[Min(differ)] > b[Min(differ)] THEN 1 ELSE -1

AddDigits(s, t) ==
    LET n == Larger(Len(s), Len(t)) + 1
        carry[k \in 0 .. n] ==
            IF k = 0 THEN 0 ELSE (Digit(s, k - 1) + Digit(t, k - 1) + carry[k - 1]) \div 10
    IN  Strip(FromRight(n, LAMBDA k : (Digit(s, k) + Digit(t, k) + carry[k]) % 10))

(* Mutant of SubDigits: what is borrowed is forgotten in the next place.    *)
SubDigitsOnce(s, t) ==
    Strip(FromRight(Len(s), LAMBDA k : (Digit(s, k) - Digit(t, k)) % 10))

(* For s >= t.                                                              *)
SubDigits(s, t) ==
    LET borrow[k \in 0 .. Len(s)] ==
            IF k > 0 /\ Digit(s, k - 1) - borrow[k - 1] < Digit(t, k - 1) THEN 1 ELSE 0
    IN  Strip(FromRight(Len(s), LAMBDA k : (Digit(s, k) - borrow[k] - Digit(t, k)) % 10))

(* The multiples of t are added up, one for each digit of s, before anything *)
(* is carried.                                                              *)
MulDigits(s, t) ==
    LET n == Len(s) + Len(t)
        columns[i \in 0 .. Len(s)] ==
            [k \in 0 .. n - 1 |->
                IF i = 0 THEN 0 ELSE columns[i - 1][k] + Digit(s, i - 1) * Digit(t, k - (i - 1))]
        column == columns[Len(s)]
        carry[k \in 0 .. n] == IF k = 0 THEN 0 ELSE (column[k - 1] + carry[k - 1]) \div 10
    IN  Strip(FromRight(n, LAMBDA k : (column[k] + carry[k]) % 10))

-----------------------------------------------------------------------------
(* Both operands with the same number of decimals.                          *)
Align(x, point) ==
    IF x.point < point THEN [x EXCEPT !.digits = @ \o Zeros(point - x.point), !.point = point] ELSE x

AddFinite(a, b) ==
    LET point == Larger(a.point, b.point)
        s == Align(a, point).digits
        t == Align(b, point).digits
    IN  Trim(CASE a.neg = b.neg -> Number(a.neg, AddDigits(s, t), point)
               [] a.neg # b.neg /\ CompareDigits(s, t) >= 0 -> Number(a.neg, SubDigits(s, t), point)
               [] OTHER -> Number(b.neg, SubDigits(t, s), point))

Kinds(a, b) == {a.kind, b.kind}

Add(a, b) ==
    CASE "nan" \in Kinds(a, b) -> NaN
      [] Kinds(a, b) = {"finite"} -> AddFinite(a, b)
      [] Kinds(a, b) = {"inf"} -> IF a.neg = b.neg THEN Inf(a.neg) ELSE NaN
      [] OTHER -> Inf(IF a.kind = "inf" THEN a.neg ELSE b.neg)

Neg(a) == IF a.kind = "finite" THEN [a EXCEPT !.neg = ~@] ELSE a
Sub(a, b) == Add(a, [b EXCEPT !.neg = ~@])

(* The digits of a product are as many as its decimals at least.            *)
MulFinite(a, b) ==
    LET digits == MulDigits(a.digits, b.digits)
        point == a.point + b.point
    IN  Limit(Trim(Number(a.neg # b.neg, Zeros(point - Len(digits)) \o digits, point)))

(* The digits of an infinity are a zero.                                    *)
Mul(a, b) ==
    CASE Kinds(a, b) = {"finite"} -> MulFinite(a, b)
      [] "nan" \in Kinds(a, b) -> NaN
      [] "nan" \notin Kinds(a, b) /\ a.kind = "inf" /\ IsZero(b.digits) -> NaN
      [] "nan" \notin Kinds(a, b) /\ b.kind = "inf" /\ IsZero(a.digits) -> NaN
      [] OTHER -> Inf(a.neg # b.neg)

(* Whether a is below (-1), above (1) or within the tolerance of b (0);     *)
(* with two negative numbers the other way round.                           *)
Epsilon == Number(FALSE, Zeros(Tolerance - 1) \o <<1>>, Tolerance)

(* Mutant of CompareAbs: the digits as they are.                            *)
CompareAbsDigits(a, b) == CompareDigits(a.digits, b.digits)

CompareAbs(a, b) ==
    LET point == Larger(a.point, b.point)
    IN  CompareDigits(Align(a, point).digits, Align(b, point).digits)
Side(neg) == IF neg THEN -1 ELSE 1

CompareFinite(a, b) ==
    LET d == Sub(a, b)
        side == IF CompareAbs(d, Epsilon) <= 0 THEN 0 ELSE Side(d.neg)
    IN  IF a.neg # b.neg THEN Side(a.neg) ELSE IF a.neg THEN -side ELSE side

Cmp(a, b) ==
    CASE "nan" \in Kinds(a, b) -> 0
      [] Kinds(a, b) = {"finite"} -> CompareFinite(a, b)
      [] Kinds(a, b) = {"inf"} -> IF a.neg = b.neg THEN 0 ELSE Side(a.neg)
      [] OTHER -> IF a.kind = "inf" THEN Side(a.neg) ELSE -Side(b.neg)

-----------------------------------------------------------------------------
(* What digits and numbers stand for.                                       *)
Tens[n \in Nat] == IF n = 0 THEN 1 ELSE 10 * Tens[n - 1]

(* The last n digits of d, a function from places to digits.                *)
Weight(d) ==
    LET low[n \in Nat] == IF n = 0 THEN 0 ELSE low[n - 1] + d[n - 1] * Tens[n - 1]
    IN  low

Value(s) == Weight([k \in Nat |-> Digit(s, k)])[Len(s)]

(* How many units of the p-th decimal.                                      *)
Units(x, p) == Side(x.neg) * Value(x.digits) * Tens[p - x.point]
=============================================================================
