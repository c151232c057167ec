--------------------------------- MODULE GC ---------------------------------
(***************************************************************************)
(* The mark & sweep collector of src/runtime/gc/gc.c: the recursive        *)
(* marker, its open-addressing table of marked objects (with the growth    *)
(* step), and the sweep of everything the table does not contain.          *)
(*                                                                         *)
(* The collector stops the world.  Its own steps are modelled one by one   *)
(* because its correctness is a property of the recursion and of the       *)
(* table, not of any single step.  Between two collections the interpreter *)
(* (module VM) changes the object graph; here it is three actions.         *)
(***************************************************************************)
EXTENDS Naturals, FiniteSets, Sequences, Reachability

CONSTANTS
    Immortal,    \* objects whose ref_count is 0x7FFFFFFF
    Array,       \* the objects of type OBJ_ARRAY: the only ones with items
    NoObject,    \* the NULL pointer
    Addr,        \* Addr[o]: the address of o
    TableSize,   \* GC_MARK_TABLE_SIZE (1024 in the code)
    MaxItems     \* bound of the model: distinct items of one array

ASSUME ObjectAssumption ==
    /\ IsFiniteSet(Object)
    /\ Immortal \subseteq Object
    /\ Array \subseteq Object \ Immortal
    /\ NoObject \notin Object

ASSUME TableAssumption ==
    /\ Addr \in [Object -> Nat]
    /\ TableSize \in Nat \ {0}

VARIABLES
    items,      \* items[o]: the objects array o refers to
    inUse,      \* the objects whose ref_count is not 0
    roots,      \* the objects the virtual machine refers to directly
    phase,      \* where gc_collect is
    toMark,     \* the roots gc_mark_phase has still to visit
    calls,      \* the pending activations of gc_mark_object, innermost last
    table,      \* gc->mark_table
    unmarked    \* ctx.unmarked: what the sweep is going to free

mutatorVars == <<items, inUse, roots>>
collectorVars == <<phase, toMark, calls, table, unmarked>>
vars == <<items, inUse, roots, phase, toMark, calls, table, unmarked>>

-----------------------------------------------------------------------------
(* The mark table.                                                         *)

(* GC_MARK_TABLE_LOAD_FACTOR is 0.75. *)
Threshold(capacity) == (3 * capacity) \div 4

(* hash_pointer: always modulo the initial size, whatever the capacity. *)
HashPointer(o) == Addr[o] % TableSize

(* The slot that linear probing from "home" looks at after k collisions. *)
Probe(capacity, home, k) == (home + k) % capacity

EmptySlots(capacity) == [i \in 0 .. capacity - 1 |-> NoObject]

(* mark_table_init: malloc and calloc are taken to succeed. *)
TableInit == [slots |-> EmptySlots(TableSize), capacity |-> TableSize, size |-> 0]

(* Mutants of TableClear: the calloc of the initial capacity; no clearing.  *)
TableClearInitial(t) == [t EXCEPT !.slots = EmptySlots(TableSize), !.size = 0]
TableClearNothing(t) == t

(* mark_table_clear: a table that has grown keeps its capacity. *)
TableClear(t) == [t EXCEPT !.slots = EmptySlots(t.capacity), !.size = 0]

(* The k-th slot of o's probe sequence is the first that is empty or o's. *)
IsFirstFit(slots, capacity, home, o, k) ==
    /\ slots[Probe(capacity, home, k)] \in {NoObject, o}
    /\ \A j \in 0 .. k - 1 : slots[Probe(capacity, home, j)] \notin {NoObject, o}

(* The slot where probing from "home" ends. *)
SlotFor(slots, capacity, home, o) ==
    Probe(capacity, home, CHOOSE k \in 0 .. capacity - 1 :
                              IsFirstFit(slots, capacity, home, o, k))

(* The growth step of mark_table_add: every stored object, in the order of   *)
(* the slots, moves to the first free slot from its address modulo the NEW   *)
(* capacity.  moved[n] holds the one table there is after the first n slots. *)
Rehashed(t) ==
    LET wide == 2 * t.capacity
        Move(slots, o) ==
            IF o = NoObject
            THEN slots
            ELSE [slots EXCEPT ![SlotFor(slots, wide, Addr[o] % wide, NoObject)] = o]
        moved[n \in 0 .. t.capacity] ==
            IF n = 0
            THEN {EmptySlots(wide)}
            ELSE {Move(slots, t.slots[n - 1]) : slots \in moved[n - 1]}
    IN  CHOOSE slots \in moved[t.capacity] : TRUE

TableGrow(t) ==
    [slots |-> Rehashed(t), capacity |-> 2 * t.capacity, size |-> t.size]

(* mark_table_add. *)
TableAdd(t, o) ==
    LET u == IF t.size >= Threshold(t.capacity) THEN TableGrow(t) ELSE t
        i == SlotFor(u.slots, u.capacity, HashPointer(o) % u.capacity, o)
    IN  [u EXCEPT !.slots[i] = o,
                  !.size = IF u.slots[i] = NoObject THEN @ + 1 ELSE @]

(* mark_table_contains: probe from hash_pointer(o) up to o or an empty slot. *)
TableContains(t, o) ==
    \E k \in 0 .. t.capacity - 1 :
        /\ t.slots[Probe(t.capacity, HashPointer(o) % t.capacity, k)] = o
        /\ \A j \in 0 .. k - 1 :
              t.slots[Probe(t.capacity, HashPointer(o) % t.capacity, j)] # NoObject

(* What the table holds, wherever it holds it. *)
Stored(t) == {o \in Object : \E i \in 0 .. t.capacity - 1 : t.slots[i] = o}

(* What the interpreter can reach. *)
Reachable == ReachableFrom(roots, items)

-----------------------------------------------------------------------------
Init ==
    /\ items = [o \in Object |-> {}]
    /\ inUse = Immortal
    /\ roots = {}
    /\ phase = "mutator"
    /\ toMark = {}
    /\ calls = <<>>
    /\ table = TableInit
    /\ unmarked = {}

(* The interpreter allocates a free slot and pushes the object on a stack;  *)
(* BUILD_ARRAY fills an array with objects it pops.                         *)
Allocate(o) ==
    /\ phase = "mutator"
    /\ o \notin inUse
    /\ inUse' = inUse \cup {o}
    /\ roots' = roots \cup {o}
    /\ \E S \in SUBSET (IF o \in Array THEN Reachable \cup Immortal ELSE {}) :
          /\ Cardinality(S) <= MaxItems
          /\ items' = [items EXCEPT ![o] = S]
    /\ UNCHANGED collectorVars

(* STORE_SUBSCR: an object the interpreter can reach replaces an item of an *)
(* array it can reach (which may still hold the old one at another index).  *)
StoreItem ==
    /\ phase = "mutator"
    /\ LET known == Reachable
       IN  \E a \in Array \cap known :
           \E old \in items[a], new \in known \cup Immortal :
           \E S \in {items[a] \cup {new}, (items[a] \ {old}) \cup {new}} :
              /\ Cardinality(S) <= MaxItems
              /\ items' = [items EXCEPT ![a] = S]
    /\ UNCHANGED <<inUse, roots, collectorVars>>

(* A value leaves the last stack, local or global slot that held it. *)
DropRoot(o) ==
    /\ phase = "mutator"
    /\ roots' = roots \ {o}
    /\ UNCHANGED <<items, inUse, collectorVars>>

(* gc_collect enters gc_mark_phase with the roots the caller collected. *)
StartCollect ==
    /\ phase = "mutator"
    /\ phase' = "mark"
    /\ table' = TableClear(table)
    /\ toMark' = roots
    /\ UNCHANGED <<mutatorVars, calls, unmarked>>

(* Mutant of MarkObject: it does not follow the items. *)
MarkObjectShallow(o, below) ==
    /\ calls' = below
    /\ table' = IF TableContains(table, o) \/ o \in Immortal THEN table ELSE TableAdd(table, o)

(* A call of gc_mark_object(o) from an activation stack "below": it returns *)
(* at once for a marked or an immortal object, and otherwise marks o and    *)
(* starts the loop over o's items.                                          *)
MarkObject(o, below) ==
    IF TableContains(table, o) \/ o \in Immortal
    THEN calls' = below /\ UNCHANGED table
    ELSE /\ table' = TableAdd(table, o)
         /\ calls' = IF o \in Array
                     THEN Append(below, [object |-> o, rest |-> items[o]])
                     ELSE below

(* The loop of gc_mark_phase.  The order of the roots is the caller's. *)
MarkRoot(o) ==
    /\ phase = "mark"
    /\ calls = <<>>
    /\ o \in toMark
    /\ toMark' = toMark \ {o}
    /\ MarkObject(o, calls)
    /\ UNCHANGED <<mutatorVars, phase, unmarked>>

(* Mutant of MarkItem: the loop does not advance past a marked item. *)
MarkItemAgain(o) ==
    /\ phase = "mark"
    /\ calls # <<>>
    /\ o \in calls[Len(calls)].rest
    /\ MarkObject(o, IF TableContains(table, o)
                     THEN calls
                     ELSE [calls EXCEPT ![Len(calls)].rest = @ \ {o}])
    /\ UNCHANGED <<mutatorVars, phase, toMark, unmarked>>

(* The loop over the items of the array being marked. *)
MarkItem(o) ==
    /\ phase = "mark"
    /\ calls # <<>>
    /\ LET top == calls[Len(calls)]
       IN  /\ o \in top.rest
           /\ MarkObject(o, [calls EXCEPT ![Len(calls)].rest = @ \ {o}])
    /\ UNCHANGED <<mutatorVars, phase, toMark, unmarked>>

(* gc_mark_object returns to the activation that called it. *)
MarkReturn ==
    /\ phase = "mark"
    /\ calls # <<>>
    /\ calls[Len(calls)].rest = {}
    /\ calls' = SubSeq(calls, 1, Len(calls) - 1)
    /\ UNCHANGED <<mutatorVars, phase, toMark, table, unmarked>>

(* gc_mark_phase is done: the sweep iterates over every slot of the heap    *)
(* pools, free ones included, and collects those the table does not contain *)
(* (sweep_collect_callback).                                                *)
StartSweep ==
    /\ phase = "mark"
    /\ calls = <<>>
    /\ toMark = {}
    /\ phase' = "sweep"
    /\ unmarked' = {o \in Object \ Immortal : ~ TableContains(table, o)}
    /\ UNCHANGED <<mutatorVars, toMark, calls, table>>

(* The loop of gc_sweep_phase: an unmarked object loses its contents and its *)
(* ref_count becomes 0.                                                      *)
SweepFree(o) ==
    /\ phase = "sweep"
    /\ o \in unmarked
    /\ unmarked' = unmarked \ {o}
    /\ items' = [items EXCEPT ![o] = {}]
    /\ inUse' = inUse \ {o}
    /\ UNCHANGED <<roots, phase, toMark, calls, table>>

(* Mutant of EndCollect: the loop of gc_sweep_phase stops early.            *)
EndCollectEarly ==
    /\ phase = "sweep"
    /\ phase' = "mutator"
    /\ UNCHANGED <<mutatorVars, toMark, calls, table, unmarked>>

EndCollect ==
    /\ phase = "sweep"
    /\ unmarked = {}
    /\ phase' = "mutator"
    /\ UNCHANGED <<mutatorVars, toMark, calls, table, unmarked>>

Mutator ==
    \/ \E o \in Object : Allocate(o) \/ DropRoot(o)
    \/ StoreItem
    \/ StartCollect

Collector ==
    \/ \E o \in Object : MarkRoot(o) \/ MarkItem(o) \/ SweepFree(o)
    \/ MarkReturn
    \/ StartSweep
    \/ EndCollect

Next == Mutator \/ Collector

Spec == Init /\ [][Next]_vars

(* The collector runs to its end on the interpreter's thread: nothing can   *)
(* interrupt it, so a step of it that can be taken is taken.                *)
FairSpec == Spec /\ WF_vars(Collector)

-----------------------------------------------------------------------------
(* An activation of gc_mark_object: the array and the items its loop has left. *)
Frame == [object : Object, rest : SUBSET Object]

Phase == {"mutator", "mark", "sweep"}

TableOK(t) ==
    /\ t.capacity \in Nat \ {0}
    /\ t.size \in Nat
    /\ t.slots \in [0 .. t.capacity - 1 -> Object \cup {NoObject}]

TypeOK ==
    /\ items \in [Object -> SUBSET Object]
    /\ inUse \in SUBSET Object
    /\ roots \in SUBSET Object
    /\ phase \in Phase
    /\ toMark \in SUBSET Object
    /\ calls \in Seq(Frame)
    /\ TableOK(table)
    /\ unmarked \in SUBSET Object

(* No object the interpreter can reach has been freed, in any state of any  *)
(* collection.                                                              *)
ReachableInUse == Reachable \subseteq inUse

(* The mark table has had its initial capacity so far: no collection marked *)
(* more objects than Threshold(TableSize) admits.                            *)
NeverGrown == table.capacity = TableSize

(* Until the table grows, no object the interpreter can reach is freed. *)
SafeUntilGrowth == NeverGrown => ReachableInUse

(* Until the table grows, a collection reclaims all garbage, cycles         *)
(* included: when it ends, every mortal object in use is reachable.         *)
CollectsAllGarbage ==
    [][phase = "sweep" /\ phase' = "mutator" /\ NeverGrown
       => inUse' \ Immortal \subseteq Reachable']_vars

(* Marking and sweeping end on every object graph, cyclic ones included. *)
CollectionEnds == phase # "mutator" ~> phase = "mutator"

-----------------------------------------------------------------------------
(* What the interpreter sees of a collection: nothing while it marks, and   *)
(* everything that is going to be freed gone as soon as it starts to sweep. *)
SeenItems ==
    IF phase = "sweep" THEN [o \in Object |-> IF o \in unmarked THEN {} ELSE items[o]] ELSE items
SeenInUse == IF phase = "sweep" THEN inUse \ unmarked ELSE inUse

Promise == INSTANCE ManagedMemory
             WITH items <- SeenItems, inUse <- SeenInUse, exact <- NeverGrown

(* Until the table grows, recursive marking, probing and sweeping amount to *)
(* one step that gives back what the interpreter cannot reach and leaves    *)
(* the rest as it is (gc_collect as a whole).                               *)
CollectsAtOnce == Promise!Spec

-----------------------------------------------------------------------------
(* The strengthening under which the properties above are inductive.  It    *)
(* says nothing of the table's slots once the table has grown.              *)

Marked == Stored(table) \cup Immortal

(* Every stored object is found by probing, and size counts full slots, so  *)
(* that a table below its threshold has an empty slot to stop at.           *)
TableInv(t) ==
    /\ TableOK(t)
    /\ t.size = Cardinality({i \in 0 .. t.capacity - 1 : t.slots[i] # NoObject})
    /\ \A o \in Stored(t) : TableContains(t, o)

(* What holds whether or not the table has grown. *)
ShapeInv ==
    /\ items \in [Object -> SUBSET Object]
    /\ inUse \in SUBSET Object
    /\ roots \in SUBSET Object
    /\ phase \in Phase
    /\ toMark \in SUBSET Object
    /\ calls \in Seq(Frame)
    /\ unmarked \in SUBSET Object
    /\ table = [slots |-> table.slots, capacity |-> table.capacity, size |-> table.size]
    /\ table.capacity \in Nat
    /\ table.capacity >= TableSize
    /\ phase # "mark" => calls = <<>>
    /\ \A o \in Object : o \notin Array => items[o] = {}
    /\ Immortal \subseteq inUse
    /\ unmarked \cap Immortal = {}

(* Marking: an object that is marked is on the call stack or has only       *)
(* marked items, and a call has marked all items but those it has left.     *)
MarkInv ==
    phase = "mark" =>
      /\ toMark \subseteq roots
      /\ roots \ toMark \subseteq Marked
      /\ Stored(table) \subseteq Reachable
      /\ \A k \in 1 .. Len(calls) :
            /\ calls[k].object \in Stored(table)
            /\ calls[k].rest \subseteq items[calls[k].object]
            /\ items[calls[k].object] \ calls[k].rest \subseteq Marked
      /\ \A o \in Stored(table) :
            \/ \E k \in 1 .. Len(calls) : calls[k].object = o
            \/ items[o] \subseteq Marked

(* Sweeping: the marked objects are exactly the reachable ones, up to       *)
(* immortals, and what is in use and not marked is still to be freed.       *)
SweepInv ==
    phase = "sweep" =>
      /\ Closed(roots, items, Marked)
      /\ unmarked \cap Marked = {}
      /\ Stored(table) \subseteq Reachable
      /\ inUse \subseteq Marked \cup unmarked

IInv ==
    /\ ShapeInv
    /\ NeverGrown => TableInv(table) /\ ReachableInUse /\ MarkInv /\ SweepInv
=============================================================================
