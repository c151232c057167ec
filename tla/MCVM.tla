-------------------------------- MODULE MCVM --------------------------------
(***************************************************************************)
(* Instances of VM for TLC.  A cached integer is immortal, any other is    *)
(* not.                                                                    *)
(*   Calls   an array, a code object, a function and an integer: calls,    *)
(*           returns and what they do to shared objects                    *)
(*   Values  an array, a cached integer, two floats and a built-in:        *)
(*           operators, arrays and built-ins in one activation             *)
(*   Args    an array, a code object and a function: what a collection     *)
(*           does to the arguments of a call                               *)
(***************************************************************************)
EXTENDS VM

CONSTANTS a1, c1, d1, d2, f1, i1, none, print, zero

TypeOf == [o \in {a1, c1, d1, d2, f1, i1, none, print, zero} |->
              CASE o = a1 -> "array"
                [] o = c1 -> "code"
                [] o \in {d1, d2} -> "float"
                [] o = f1 -> "function"
                [] o \in {i1, zero} -> "int"
                [] o = none -> "none"
                [] o = print -> "native"]

CallsObject == {a1, c1, f1, i1, none}
CallsImmortal == {none}
CallsKind == [o \in CallsObject |-> TypeOf[o]]
CallsPool == [array |-> <<a1>>, code |-> <<c1>>, function |-> <<f1>>, int |-> <<i1>>,
              float |-> <<>>]

ValuesObject == {a1, d1, d2, none, print, zero}
ValuesImmortal == {none, print, zero}
ValuesKind == [o \in ValuesObject |-> TypeOf[o]]
ValuesPool == [array |-> <<a1>>, float |-> <<d1, d2>>, int |-> <<>>, function |-> <<>>,
               code |-> <<>>]

ArgsObject == {a1, c1, f1, none}
ArgsImmortal == {none}
ArgsKind == [o \in ArgsObject |-> TypeOf[o]]
ArgsPool == [array |-> <<a1>>, code |-> <<c1>>, function |-> <<f1>>, int |-> <<>>,
             float |-> <<>>]
=============================================================================
