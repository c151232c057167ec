----------------------------- MODULE MCCalculator -----------------------------
(***************************************************************************)
(* Numbers for TLC, with three decimals instead of 25 and a tolerance of   *)
(* 0.01: zero, integers of either sign, fractions with and without zeros   *)
(* behind the point, and numbers that carry or borrow through every place. *)
(***************************************************************************)
EXTENDS Calculator

Written(neg, whole, fraction) == [neg |-> neg, whole |-> whole, fraction |-> fraction]

SomeLiterals ==
    {Written(FALSE, <<0>>, <<0>>),
     Written(FALSE, <<3>>, <<>>),
     Written(TRUE, <<7>>, <<>>),
     Written(FALSE, <<1, 0>>, <<0>>),
     Written(FALSE, <<9, 9>>, <<5>>),
     Written(FALSE, <<0>>, <<5>>),
     Written(FALSE, <<0>>, <<0, 4>>),
     Written(FALSE, <<0>>, <<9, 9, 5>>),
     Written(FALSE, <<0>>, <<0, 0, 0, 3>>)}

(* The dividend is not zero ... *)
NotZero(a, b) == ~IsZero(a.digits)

(* ... and the divisor does not begin with a zero.                          *)
NoLeadingZero(a, b) == NotZero(a, b) /\ Head(b.digits) # 0
=============================================================================
