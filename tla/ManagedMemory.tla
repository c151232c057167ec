--------------------------- MODULE ManagedMemory ---------------------------
(***************************************************************************)
(* What a program may rely on in a memory that collects garbage: nothing   *)
(* happens to the objects it can reach, and a collection is one step that  *)
(* gives back all others.  How they are found, in how many steps and in    *)
(* which order, is not visible here.                                       *)
(*                                                                         *)
(* The promise is given only as long as "exact" holds.                     *)
(***************************************************************************)
EXTENDS Reachability

CONSTANTS
    Immortal,   \* objects that are never given back
    Array       \* the objects that can refer to others

VARIABLES
    items,      \* items[o]: the objects o refers to
    inUse,      \* the objects that are not free
    roots,      \* the objects the program holds directly
    exact       \* whether the promise is still given

Known == ReachableFrom(roots, items) \cup Immortal

Init ==
    /\ items = [o \in Object |-> {}]
    /\ inUse = Immortal
    /\ roots = {}
    /\ exact = TRUE

(* A free object is handed out; an array may be filled at once.             *)
Allocate(o) ==
    /\ o \notin inUse
    /\ inUse' = inUse \cup {o}
    /\ roots' = roots \cup {o}
    /\ \E S \in SUBSET (IF o \in Array THEN Known ELSE {}) : items' = [items EXCEPT ![o] = S]

(* Only what the program knows can get into an array it can reach. *)
Write(a) ==
    /\ UNCHANGED <<inUse, roots>>
    /\ a \in Array \cap ReachableFrom(roots, items)
    /\ \E S \in SUBSET (items[a] \cup Known) : items' = [items EXCEPT ![a] = S]

Drop(o) ==
    /\ roots' = roots \ {o}
    /\ UNCHANGED <<items, inUse>>

(* Everything unknown is given back, everything known stays as it is.       *)
Collect ==
    /\ UNCHANGED roots
    /\ LET known == Known
       IN  /\ inUse' = inUse \cap known
           /\ items' = [o \in Object |-> IF o \in known THEN items[o] ELSE {}]

Step ==
    \/ \E o \in Object : Drop(o)
    \/ \E o \in Object : Allocate(o)
    \/ \E a \in Object : Write(a)
    \/ Collect

(* A step after which the promise is not given may do anything, and it is   *)
(* not given again.                                                         *)
Next == (exact /\ exact' /\ Step) \/ ~exact'

vars == <<items, inUse, roots, exact>>

Spec == Init /\ [][Next]_vars
=============================================================================
