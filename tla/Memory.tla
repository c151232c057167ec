------------------------------- MODULE Memory -------------------------------
(***************************************************************************)
(* The memory of the runtime: the reference counts of vm/object.c, the     *)
(* object pools of vm/heap.c and the freeing half of the collector in      *)
(* gc/gc.c, as operators on a record                                       *)
(*                                                                         *)
(*    rc       the ref_count of each object (0: the slot is free)          *)
(*    items    the elements of each array                                  *)
(*    buffer   what as.array.items, as.float_value or                      *)
(*             as.native_function.name of each object points to            *)
(*    used     the slots that block_alloc_bump has given out               *)
(*    undefined  TRUE once the program has done something C leaves         *)
(*             undefined: freed a buffer twice, or used a freed one        *)
(*                                                                         *)
(* Modules Heap and VM run these operators as C code and as the            *)
(* interpreter call them.  malloc is taken to succeed.                     *)
(***************************************************************************)
EXTENDS Naturals, FiniteSets, SequencesExt, Reachability

CONSTANTS
    Immortal,   \* objects whose ref_count is 0x7FFFFFFF
    NoneObject, \* none_singleton, an immortal object
    Kind,       \* Kind[o]: the type of the objects that live in slot o
    Pool,       \* Pool[k]: the slots of the pool for type k, in address order
    MaxRC       \* bound of the model: the highest sum of all ref_counts

Kinds == {"int", "float", "array", "function", "code", "native", "none"}

(* The immortal objects are none, the booleans, the cached integers and the  *)
(* built-in functions.                                                      *)
ASSUME MemoryAssumption ==
    /\ IsFiniteSet(Object)
    /\ Immortal \subseteq Object
    /\ NoneObject \in Immortal
    /\ Kind \in [Object -> Kinds]
    /\ \A o \in Immortal : Kind[o] # "array"
    /\ {"array", "code", "float", "function", "int"} \subseteq DOMAIN Pool
    /\ \A k \in DOMAIN Pool : /\ Pool[k] \in Seq(Object \ Immortal)
                             /\ \A i \in DOMAIN Pool[k] : Kind[Pool[k][i]] = k

Mortal == Object \ Immortal

(* NULL; a freed buffer whose address the object still holds; a live buffer. *)
Buffer == {"null", "freed", "live"}

(* heap_create, and the objects that are made before any other. *)
EmptyMemory ==
    [rc |-> [o \in Mortal |-> 0],
     items |-> [o \in Object |-> <<>>],
     buffer |-> [o \in Object |-> "null"],
     used |-> {},
     undefined |-> FALSE]

(* object_incref. *)
Incref(m, o) == IF o \in Immortal THEN m ELSE [m EXCEPT !.rc[o] = @ + 1]

(* object_incref of each object of a sequence. *)
Occurrences(s, o) == Cardinality({i \in DOMAIN s : s[i] = o})

IncrefAll(m, s) == [m EXCEPT !.rc = [o \in Mortal |-> @[o] + Occurrences(s, o)]]

(* How often o occurs in the sequences of a function F. *)
Places(F, o) == UNION {{k} \X {i \in DOMAIN F[k] : F[k][i] = o} : k \in DOMAIN F}
Count(F, o) == Cardinality(Places(F, o))

(* The slots that hold an object. *)
InUse(m) == {o \in Mortal : m.rc[o] > 0}

(* How many references to o disappear when each object of s is released     *)
(* once, and with it those that the arrays in S hold.                       *)
Lost(m, s, S, o) ==
    LET arrays == {a \in S : Kind[a] = "array" /\ m.buffer[a] # "null"}
    IN  Occurrences(s, o) + Count([a \in arrays |-> m.items[a]], o)

(* Mutant of Released: an array keeps its elements. *)
ReleasedShallow(m, s) == {o \in InUse(m) : m.rc[o] <= Occurrences(s, o)}

(* The objects whose count that takes to 0, the elements of arrays that are *)
(* released on the way included: the least set that contains every object   *)
(* with no more references than the set takes away.                         *)
Released(m, s) ==
    LET threatened == {o \in InUse(m) : m.rc[o] <= Lost(m, s, InUse(m), o)}
        Enough(S) == \A o \in threatened : m.rc[o] <= Lost(m, s, S, o) => o \in S
        enough == {S \in SUBSET threatened : Enough(S)}
    IN  {o \in threatened : \A S \in enough : o \in S}

(* A loop of object_decref over the objects of a sequence.  A count never    *)
(* goes below 0.  At 0 an array gives up its elements and its buffer, a     *)
(* float its number and a native function its name; none of the three       *)
(* pointers is reset.  The order in which the recursion of object_decref    *)
(* visits the objects makes no difference: module Recursion has it as it is *)
(* in the code, and shows that it comes to the same.                        *)
DecrefAll(m, s) ==
    LET released == Released(m, s)
        left(o) == IF o \in InUse(m) \ released THEN m.rc[o] - Lost(m, s, released, o) ELSE 0
    IN  [m EXCEPT !.rc = [o \in Mortal |-> left(o)],
                  !.buffer = [o \in Object |-> IF o \in released /\ @[o] # "null"
                                               THEN "freed" ELSE @[o]]]

Decref(m, o) == DecrefAll(m, <<o>>)

(* recycle_object: the slot is cleared, after freeing what it points to.  A  *)
(* slot that object_decref has released points to a buffer already freed.   *)
Recycle(m, o) ==
    LET released == IF Kind[o] = "array" /\ m.buffer[o] = "live"
                    THEN DecrefAll(m, m.items[o])
                    ELSE m
    IN  [released EXCEPT !.undefined = @ \/ m.buffer[o] = "freed",
                         !.buffer[o] = "null",
                         !.items[o] = <<>>]

(* A pool hands out its first free slot in use before, else the next slot   *)
(* of its current block.  In an instance the pools have finitely many.       *)
HasFree(m, kind) == \E i \in DOMAIN Pool[kind] : m.rc[Pool[kind][i]] = 0

FreeSlot(m, kind) == SelectInSeq(Pool[kind], LAMBDA o : m.rc[o] = 0)

(* The object the next heap_alloc_* for this type returns. *)
NextObject(m, kind) == Pool[kind][FreeSlot(m, kind)]

(* Mutant of Alloc: the slot does not count as given out. *)
AllocUnused(m, kind) ==
    LET o == NextObject(m, kind)
    IN  [m EXCEPT !.rc[o] = 1, !.buffer[o] = IF kind = "float" THEN "live" ELSE "null"]

(* heap_alloc_int (outside the cache), _float, _array, _function, _code and  *)
(* _native_function.  An int takes over its slot without recycle_object.    *)
Alloc(m, kind) ==
    LET o == NextObject(m, kind)
        clean == IF o \in m.used /\ kind # "int" THEN Recycle(m, o) ELSE m
    IN  [clean EXCEPT !.rc[o] = 1,
                      !.used = @ \cup {o},
                      !.buffer[o] = IF kind \in {"float", "native"} THEN "live" ELSE "null"]

(* heap_alloc_array_with_size. *)
AllocArray(m, size) ==
    LET o == NextObject(m, "array")
    IN  [Alloc(m, "array") EXCEPT !.items[o] = [i \in 1 .. size |-> NoneObject],
                                  !.buffer[o] = "live"]

(* heap_alloc_float_from_bf never reuses a slot. *)
HasFresh(m) == \E i \in DOMAIN Pool["float"] : Pool["float"][i] \notin m.used

FreshFloat(m) == Pool["float"][SelectInSeq(Pool["float"], LAMBDA o : o \notin m.used)]

AllocFloatFromBf(m) ==
    LET o == FreshFloat(m)
    IN  [m EXCEPT !.rc[o] = 1, !.used = @ \cup {o}, !.buffer[o] = "live"]

(* The graph the marker follows: the elements of arrays. *)
Edges(m) == [o \in Object |-> Range(m.items[o])]

(* A collection from the objects in roots: gc_mark_phase marks what is       *)
(* reachable (module GC), and gc_sweep_phase clears every other slot that   *)
(* was ever used, those that reference counting has released included.  The  *)
(* marker reads the elements of the arrays it marks, the sweep frees the    *)
(* buffers of the others.                                                   *)
Sweep(m, roots) ==
    LET marked == ReachableFrom(roots, Edges(m))
        unmarked == m.used \ marked
    IN  [m EXCEPT !.rc = [o \in Mortal |-> IF o \in unmarked THEN 0 ELSE @[o]],
                  !.items = [o \in Object |-> IF o \in unmarked THEN <<>> ELSE @[o]],
                  !.undefined = @ \/ \E o \in m.used :
                                       /\ m.buffer[o] = "freed"
                                       /\ o \in unmarked \/ Kind[o] = "array",
                  !.buffer = [o \in Object |-> IF o \in unmarked THEN "null" ELSE @[o]]]

(* How often o occurs in the arrays that are in use. *)
ItemRefs(m, o) == Count([a \in InUse(m) |-> m.items[a]], o)

Bounded(m) == FoldFunction(+, 0, m.rc) <= MaxRC

Memories ==
    [rc : [Mortal -> Nat], items : [Object -> Seq(Object)], buffer : [Object -> Buffer],
     used : SUBSET Mortal, undefined : BOOLEAN]

(* Only slots that were given out are in use or referred to, only arrays    *)
(* have elements, those in the buffer that the array points to, and the     *)
(* buffer of a free slot has been freed.                                    *)
MemoryOK(m) ==
    /\ m \in Memories
    /\ InUse(m) \subseteq m.used
    /\ \A o \in Object : Range(m.items[o]) \subseteq m.used \cup Immortal
    /\ \A o \in Object :
          Kind[o] # "array" \/ m.buffer[o] = "null" \/ o \notin m.used => m.items[o] = <<>>
    /\ \A o \in Mortal : m.rc[o] = 0 => m.buffer[o] # "live"
=============================================================================
