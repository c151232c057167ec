-------------------------------- MODULE Heap --------------------------------
(***************************************************************************)
(* The memory of module Memory as C code uses it (the runtime itself, and  *)
(* tests/runtime/test_gc.c): a client that owns references, one count for  *)
(* each, and calls the operations of vm/object.h and vm/heap.h.            *)
(***************************************************************************)
EXTENDS Memory

CONSTANT MaxItems   \* bound of the model: the elements of one array

ASSUME HeapAssumption == MaxItems \in Nat

VARIABLES
    mem,    \* the record of module Memory
    held,   \* held[o]: how many references to o the client owns
    leaked  \* history: the elements in use of arrays that a collection freed

vars == <<mem, held, leaked>>

Init ==
    /\ mem = EmptyMemory
    /\ held = [o \in Mortal |-> 0]
    /\ leaked = {}

(* After undefined behaviour nothing more is said. *)
Call(m, h) ==
    /\ ~ mem.undefined
    /\ mem' = m
    /\ Bounded(mem')
    /\ held' = h
    /\ UNCHANGED leaked

Gain(h, o) == IF o \in Mortal THEN [h EXCEPT ![o] = @ + 1] ELSE h
Lose(h, o) == IF o \in Mortal THEN [h EXCEPT ![o] = @ - 1] ELSE h

(* The objects the client may pass to a call. *)
Owned == {o \in Mortal : held[o] > 0} \cup Immortal

(* heap_alloc_int outside the cache, heap_alloc_float, heap_alloc_function,  *)
(* heap_alloc_code: the client owns the one reference of the new object.    *)
New(kind) ==
    /\ HasFree(mem, kind)
    /\ Call(Alloc(mem, kind), Gain(held, NextObject(mem, kind)))

NewArray(size) ==
    /\ HasFree(mem, "array")
    /\ Call(AllocArray(mem, size), Gain(held, NextObject(mem, "array")))

NewFloatFromBf ==
    /\ HasFresh(mem)
    /\ Call(AllocFloatFromBf(mem), Gain(held, FreshFloat(mem)))

Retain(o) ==
    /\ o \in Owned \ Immortal
    /\ Call(Incref(mem, o), Gain(held, o))

Release(o) ==
    /\ o \in Owned \ Immortal
    /\ Call(Decref(mem, o), Lose(held, o))

(* Mutant of ArrayAppend: the array counts the reference, and so does the    *)
(* client that gave it away.                                                *)
ArrayAppendCounts(a, o) ==
    /\ {a, o} \subseteq Owned
    /\ Kind[a] = "array"
    /\ Len(mem.items[a]) < MaxItems
    /\ Call([Incref(mem, o) EXCEPT !.items[a] = Append(@, o), !.buffer[a] = "live"],
            Lose(held, o))

(* object_array_append does not count: the client's reference becomes the   *)
(* array's.                                                                 *)
ArrayAppend(a, o) ==
    /\ {a, o} \subseteq Owned
    /\ Kind[a] = "array"
    /\ Len(mem.items[a]) < MaxItems
    /\ Call([mem EXCEPT !.items[a] = Append(@, o), !.buffer[a] = "live"], Lose(held, o))

(* Mutant of ArraySet: the new element is not retained. *)
ArraySetBorrows(a, i, o) ==
    /\ {a, o} \subseteq Owned
    /\ Kind[a] = "array"
    /\ i \in DOMAIN mem.items[a]
    /\ Call([Decref(mem, mem.items[a][i]) EXCEPT !.items[a][i] = o], held)

(* object_array_set releases the old element before it retains the new one; *)
(* an index out of range changes nothing.                                   *)
ArraySet(a, i, o) ==
    /\ {a, o} \subseteq Owned
    /\ Kind[a] = "array"
    /\ i \in DOMAIN mem.items[a]
    /\ LET released == Decref(mem, mem.items[a][i])
       IN  Call([Incref(released, o) EXCEPT !.items[a][i] = o], held)

(* object_array_get hands out a borrowed reference, which the client        *)
(* retains at once.                                                         *)
ArrayGet(a, i) ==
    /\ a \in Owned
    /\ Kind[a] = "array"
    /\ i \in DOMAIN mem.items[a]
    /\ LET o == mem.items[a][i]
       IN  Call(Incref(mem, o), Gain(held, o))

(* object_array_free empties the array, which stays in use. *)
ArrayFree(a) ==
    /\ a \in Owned
    /\ Kind[a] = "array"
    /\ Call([DecrefAll(mem, mem.items[a]) EXCEPT !.items[a] = <<>>,
                                                 !.buffer[a] = "null"], held)

(* A collection whose roots are what the client owns. *)
Collect ==
    LET m == Sweep(mem, Owned)
        elements == UNION {Range(mem.items[a]) : a \in InUse(mem) \ InUse(m)}
    IN  /\ ~ mem.undefined
        /\ mem' = m
        /\ leaked' = (leaked \cup elements) \cap InUse(m)
        /\ UNCHANGED held

Next ==
    \/ \E kind \in DOMAIN Pool \ {"array"} : New(kind)
    \/ \E size \in 0 .. MaxItems : NewArray(size)
    \/ NewFloatFromBf
    \/ \E o \in Object : Retain(o) \/ Release(o) \/ ArrayFree(o)
    \/ \E a, o \in Object : ArrayAppend(a, o) \/ \E i \in 1 .. MaxItems : ArraySet(a, i, o)
    \/ \E a \in Object, i \in 1 .. MaxItems : ArrayGet(a, i)
    \/ Collect

Spec == Init /\ [][Next]_vars

-----------------------------------------------------------------------------
TypeOK ==
    /\ MemoryOK(mem)
    /\ \A a \in Object : Len(mem.items[a]) <= MaxItems
    /\ held \in [Mortal -> Nat]
    /\ leaked \in SUBSET Mortal

(* Nothing that the client or an array in use refers to is ever free: the   *)
(* ref_count of an object is at least the number of those references.       *)
CountsCover ==
    ~ mem.undefined => \A o \in Mortal : mem.rc[o] >= held[o] + ItemRefs(mem, o)

(* The counts are exact, what nobody refers to is free, but for the objects  *)
(* that were elements of an array when a collection freed it and are still  *)
(* in use: gc_sweep_phase frees an array without a decref of its elements,  *)
(* and from then on their counts are too high, until a collection frees     *)
(* them as well.                                                            *)
CountsExact ==
    ~ mem.undefined =>
        \A o \in Mortal : mem.rc[o] = held[o] + ItemRefs(mem, o) <=> o \notin leaked

(* Counting leaves only cycles and those objects behind: an object in use   *)
(* that the client cannot reach any more lies on a cycle of arrays, or      *)
(* behind one, or is or lies behind an object that a collection has leaked. *)
OnCycle(o) == o \in ReachableFrom(Range(mem.items[o]), Edges(mem))

GarbageIsCyclic ==
    ~ mem.undefined =>
        \A o \in InUse(mem) \ ReachableFrom(Owned, Edges(mem)) :
            \E a \in InUse(mem) : /\ OnCycle(a) \/ a \in leaked
                                 /\ o \in ReachableFrom({a}, Edges(mem))
=============================================================================
