------------------------------ MODULE Recursion ------------------------------
(***************************************************************************)
(* object_decref of vm/object.c as it is written: it calls itself for the  *)
(* elements of an array whose count it has taken to 0, before the buffer   *)
(* of the array is freed.  Module Memory says without recursion what that  *)
(* comes to.                                                               *)
(***************************************************************************)
EXTENDS Memory

RECURSIVE ObjectDecref(_, _), ObjectDecrefAll(_, _)
ObjectDecref(m, o) ==
    IF o \in Immortal \/ m.rc[o] = 0
    THEN m
    ELSE LET less == [m EXCEPT !.rc[o] = @ - 1]
             rest == IF Kind[o] = "array" THEN ObjectDecrefAll(less, m.items[o]) ELSE less
         IN  IF less.rc[o] = 0 /\ m.buffer[o] # "null"
             THEN [rest EXCEPT !.buffer[o] = "freed"]
             ELSE less

ObjectDecrefAll(m, s) ==
    IF s = <<>> THEN m ELSE ObjectDecrefAll(ObjectDecref(m, Head(s)), Tail(s))
=============================================================================
