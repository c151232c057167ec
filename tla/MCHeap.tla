------------------------------- MODULE MCHeap -------------------------------
(***************************************************************************)
(* An instance of Heap for TLC: two array slots, so that arrays can form   *)
(* cycles, a float slot, an integer slot and the singleton none.           *)
(***************************************************************************)
EXTENDS Heap, Recursion

CONSTANTS a1, a2, f1, i1, none

MCObject == {a1, a2, f1, i1, none}
MCImmortal == {none}
MCKind == [o \in MCObject |-> CASE o \in {a1, a2} -> "array"
                                [] o = f1 -> "float"
                                [] o = i1 -> "int"
                                [] o = none -> "none"]
MCPool == [array |-> <<a1, a2>>, float |-> <<f1>>, int |-> <<i1>>,
           code |-> <<>>, function |-> <<>>]

(* Whatever array object_decref is called for, and whatever object next, and *)
(* in whatever order its recursion comes to their elements, it releases the *)
(* least set of objects that must be released, and takes as much from the   *)
(* counts of the others.                                                    *)
ReleasesLeast ==
    \A a \in {o \in InUse(mem) : Kind[o] = "array"}, o \in InUse(mem) \cup {none} :
        DecrefAll(mem, <<a, o>>) = ObjectDecrefAll(mem, <<a, o>>)
=============================================================================
