------------------------------ MODULE GC_proofs ------------------------------
(***************************************************************************)
(* Proofs about the collector of module GC, for every heap, every graph    *)
(* and every table size: as long as the mark table has its initial size,   *)
(* no reachable object is freed and every unreachable one is, and the      *)
(* collector implements ManagedMemory.                                     *)
(***************************************************************************)
EXTENDS GC, FiniteSetTheorems, SequenceTheorems, WellFoundedInduction, TLAPS

-----------------------------------------------------------------------------
(* Reachability.                                                           *)

(* What is reachable includes the roots and is closed under the edges. *)
LEMMA ReachableClosed ==
    ASSUME NEW R \in SUBSET Object, NEW E \in [Object -> SUBSET Object]
    PROVE  /\ ReachableFrom(R, E) \subseteq Object
           /\ Closed(R, E, ReachableFrom(R, E))
  BY DEF ReachableFrom, Closed

(* It is the least such set. *)
LEMMA ReachableLeast ==
    ASSUME NEW R, NEW E, NEW S \in SUBSET Object, Closed(R, E, S)
    PROVE  ReachableFrom(R, E) \subseteq S
  BY DEF ReachableFrom

-----------------------------------------------------------------------------
(* Linear probing.                                                         *)

(* Probing stays inside the table. *)
LEMMA ProbeInTable ==
    ASSUME NEW c \in Nat \ {0}, NEW home \in Nat, NEW k \in Nat
    PROVE  Probe(c, home, k) \in 0 .. c - 1
  BY DEF Probe

(* A probe sequence visits every slot of the table. *)
LEMMA ProbeCovers ==
    ASSUME NEW c \in Nat \ {0}, NEW home \in 0 .. c - 1, NEW i \in 0 .. c - 1
    PROVE  \E k \in 0 .. c - 1 : Probe(c, home, k) = i
<1>1. CASE home <= i
  <2>1. i - home \in 0 .. c - 1 /\ home + (i - home) = i
    BY <1>1
  <2>2. i % c = i
    OBVIOUS
  <2>3. QED
    BY <2>1, <2>2 DEF Probe
<1>2. CASE i < home
  <2>1. i - home + c \in 0 .. c - 1 /\ home + (i - home + c) = i + c
    BY <1>2
  <2>2. (i + c) % c = i
    OBVIOUS
  <2>3. QED
    BY <2>1, <2>2 DEF Probe
<1>3. QED
  BY <1>1, <1>2

(* Probing for an object that meets an empty slot or the object somewhere    *)
(* has a first slot where it does.                                          *)
LEMMA FirstFitExists ==
    ASSUME NEW slots, NEW c \in Nat \ {0}, NEW home \in 0 .. c - 1, NEW o,
           NEW i \in 0 .. c - 1, slots[i] \in {NoObject, o}
    PROVE  \E k \in 0 .. c - 1 : IsFirstFit(slots, c, home, o, k)
<1> DEFINE Fits == {k \in 0 .. c - 1 : slots[Probe(c, home, k)] \in {NoObject, o}}
           Less == OpToRel(<, Nat)
<1>1. Fits \subseteq Nat
  OBVIOUS
<1>2. Fits # {}
  BY ProbeCovers, ZenonT(30)
<1>3. PICK k \in Fits : \A j \in Fits : <<j, k>> \notin Less
  <2> HIDE DEF Fits, Less
  <2>1. IsWellFoundedOn(Less, Nat)
    BY NatLessThanWellFounded DEF Less
  <2>2. QED
    BY <1>1, <1>2, <2>1, WFMin
<1>4. \A j \in 0 .. k - 1 : j \in Nat /\ <<j, k>> \in Less
  BY <1>1 DEF OpToRel
<1>5. \A j \in 0 .. k - 1 : j \in 0 .. c - 1 /\ j \notin Fits
  <2> HIDE DEF Less
  <2>1. k \in 0 .. c - 1
    OBVIOUS
  <2>2. \A j \in 0 .. k - 1 : j \in 0 .. c - 1
    BY <2>1
  <2>3. QED
    BY <1>3, <1>4, <2>2
<1>6. QED
  BY <1>5 DEF IsFirstFit

-----------------------------------------------------------------------------
(* The mark table while it has its initial capacity.                       *)

(* A lookup finds exactly what is stored. *)
LEMMA ContainsStored ==
    ASSUME NEW t, TableInv(t), NEW o \in Object
    PROVE  TableContains(t, o) <=> o \in Stored(t)
<1>1. ASSUME TableContains(t, o) PROVE o \in Stored(t)
  <2>1. /\ t.capacity \in Nat \ {0}
        /\ HashPointer(o) % t.capacity \in Nat
    BY TableAssumption DEF TableInv, TableOK, HashPointer
  <2>2. PICK k \in 0 .. t.capacity - 1 :
            t.slots[Probe(t.capacity, HashPointer(o) % t.capacity, k)] = o
    BY <1>1 DEF TableContains
  <2>3. Probe(t.capacity, HashPointer(o) % t.capacity, k) \in 0 .. t.capacity - 1
    BY <2>1, ProbeInTable
  <2>4. QED
    BY <2>2, <2>3 DEF Stored
<1>2. QED
  BY <1>1 DEF TableInv

(* An empty table stores nothing. *)
LEMMA EmptyTable ==
    ASSUME NEW t, t.capacity \in Nat \ {0}, t.size = 0,
           t.slots = EmptySlots(t.capacity)
    PROVE  TableInv(t) /\ Stored(t) = {}
<1>1. \A i \in 0 .. t.capacity - 1 : t.slots[i] = NoObject
  BY DEF EmptySlots
<1>2. Stored(t) = {}
  BY <1>1, ObjectAssumption DEF Stored
<1>3. {i \in 0 .. t.capacity - 1 : t.slots[i] # NoObject} = {}
  BY <1>1
<1>4. TableOK(t)
  BY DEF TableOK, EmptySlots
<1>5. QED
  BY <1>2, <1>3, <1>4, FS_EmptySet DEF TableInv

(* The slots of a table are as many as its capacity. *)
LEMMA SlotCount ==
    ASSUME NEW c \in Nat \ {0}
    PROVE  IsFiniteSet(0 .. c - 1) /\ Cardinality(0 .. c - 1) = c
<1>1. 0 \in Int /\ c - 1 \in Int /\ ~ (0 > c - 1) /\ (c - 1) - 0 + 1 = c
  OBVIOUS
<1>2. QED
  BY <1>1, FS_Interval, Zenon

(* A table below its threshold has an empty slot. *)
LEMMA EmptySlotExists ==
    ASSUME NEW t, TableInv(t), t.size < Threshold(t.capacity)
    PROVE  \E i \in 0 .. t.capacity - 1 : t.slots[i] = NoObject
<1> DEFINE Full == {i \in 0 .. t.capacity - 1 : t.slots[i] # NoObject}
<1>1. t.capacity \in Nat \ {0} /\ t.size = Cardinality(Full) /\ t.size \in Nat
  BY DEF TableInv, TableOK
<1>2. Threshold(t.capacity) \in Nat /\ Threshold(t.capacity) <= t.capacity
  BY <1>1 DEF Threshold
<1>3. t.size # t.capacity
  BY <1>1, <1>2
<1>4. Cardinality(0 .. t.capacity - 1) = t.capacity
  BY <1>1, SlotCount
<1>5. Full # 0 .. t.capacity - 1
  <2> HIDE DEF Full
  <2>1. QED
    BY <1>1, <1>3, <1>4, Zenon
<1>6. QED
  BY <1>5

(* Adding an object below the threshold keeps every stored object where it  *)
(* is found and stores the new one where it is found.                       *)
LEMMA AddStores ==
    ASSUME NEW t, TableInv(t), NEW o \in Object, o \notin Stored(t),
           t = [slots |-> t.slots, capacity |-> t.capacity, size |-> t.size],
           t.size < Threshold(t.capacity)
    PROVE  /\ TableAdd(t, o).capacity = t.capacity
           /\ TableAdd(t, o).size = t.size + 1
           /\ TableInv(TableAdd(t, o))
           /\ Stored(TableAdd(t, o)) = Stored(t) \cup {o}
<1> DEFINE c == t.capacity
           home == HashPointer(o) % c
           k == CHOOSE n \in 0 .. c - 1 : IsFirstFit(t.slots, c, home, o, n)
           at == Probe(c, home, k)
           u == TableAdd(t, o)
           Full(s) == {i \in 0 .. c - 1 : s[i] # NoObject}
<1>1. /\ c \in Nat \ {0}
      /\ t.size \in Nat
      /\ t.slots \in [0 .. c - 1 -> Object \cup {NoObject}]
      /\ t.size = Cardinality(Full(t.slots))
  BY DEF TableInv, TableOK
<1>2. \A p \in Object : HashPointer(p) % c \in 0 .. c - 1
  BY <1>1, TableAssumption DEF HashPointer
<1>3. k \in 0 .. c - 1 /\ IsFirstFit(t.slots, c, home, o, k)
  <2>1. PICK i \in 0 .. c - 1 : t.slots[i] = NoObject
    BY EmptySlotExists
  <2>2. home \in 0 .. c - 1
    BY <1>2
  <2> HIDE DEF home, c
  <2>3. \E n \in 0 .. c - 1 : IsFirstFit(t.slots, c, home, o, n)
    BY <1>1, <2>1, <2>2, FirstFitExists
  <2>4. QED
    BY <2>3
<1>4. \A p \in Object, n \in 0 .. c - 1 : Probe(c, HashPointer(p) % c, n) \in 0 .. c - 1
  BY <1>1, <1>2, ProbeInTable
<1>5. at \in 0 .. c - 1 /\ t.slots[at] = NoObject
  <2>1. at \in 0 .. c - 1
    BY <1>3, <1>4
  <2>2. t.slots[at] \in {NoObject, o}
    BY <1>3 DEF IsFirstFit
  <2>3. t.slots[at] # o
    BY <2>1 DEF Stored
  <2>4. QED
    BY <2>1, <2>2, <2>3
<1>6. /\ u.capacity = c
      /\ u.slots = [t.slots EXCEPT ![at] = o]
      /\ u.size = t.size + 1
  <2>1. ~ (t.size >= Threshold(c))
    BY <1>1 DEF Threshold
  <2>2. SlotFor(t.slots, c, home, o) = at
    BY DEF SlotFor
  <2>3. u = [t EXCEPT !.slots[at] = o, !.size = t.size + 1]
    BY <1>5, <2>1, <2>2 DEF TableAdd
  <2>4. QED
    BY <2>3
<1> HIDE DEF u, k
<1>7. \A i \in 0 .. c - 1 : u.slots[i] = IF i = at THEN o ELSE t.slots[i]
  BY <1>1, <1>5, <1>6
<1>8. Stored(u) = Stored(t) \cup {o}
  BY <1>5, <1>6, <1>7, ObjectAssumption DEF Stored
<1>9. TableOK(u)
  BY <1>1, <1>5, <1>6 DEF TableOK
<1>10. u.size = Cardinality(Full(u.slots))
  <2>1. Full(u.slots) = Full(t.slots) \cup {at} /\ at \notin Full(t.slots)
    BY <1>5, <1>7, ObjectAssumption
  <2>2. IsFiniteSet(Full(t.slots))
    <3>1. IsFiniteSet(0 .. c - 1) /\ Full(t.slots) \in SUBSET (0 .. c - 1)
      BY <1>1, SlotCount
    <3>2. QED
      BY <3>1, FS_Subset
  <2> HIDE DEF Full
  <2>3. Cardinality(Full(u.slots)) = Cardinality(Full(t.slots)) + 1
    BY <2>1, <2>2, FS_AddElement
  <2>4. QED
    BY <1>1, <1>6, <2>3
<1>11. ASSUME NEW p \in Stored(u) PROVE TableContains(u, p)
  <2>1. PICK n \in 0 .. c - 1 :
          /\ u.slots[Probe(c, HashPointer(p) % c, n)] = p
          /\ \A j \in 0 .. n - 1 : u.slots[Probe(c, HashPointer(p) % c, j)] # NoObject
    <3>1. CASE p = o
      <4>1. u.slots[Probe(c, home, k)] = o
        BY <1>5, <1>7
      <4>2. \A j \in 0 .. k - 1 : u.slots[Probe(c, home, j)] # NoObject
        <5>1. ASSUME NEW j \in 0 .. k - 1 PROVE u.slots[Probe(c, home, j)] # NoObject
          <6>1. j \in 0 .. c - 1
            BY <1>1, <1>3
          <6>2. Probe(c, home, j) \in 0 .. c - 1
            BY <6>1, <1>4
          <6>3. t.slots[Probe(c, home, j)] # NoObject
            BY <1>3 DEF IsFirstFit
          <6>4. QED
            BY <6>2, <6>3, <1>7, ObjectAssumption
        <5>2. QED
          BY <5>1
      <4>3. QED
        BY <3>1, <4>1, <4>2, <1>3
    <3>2. CASE p \in Stored(t)
      <4>1. p \in Object /\ TableContains(t, p)
        BY <3>2 DEF TableInv, Stored
      <4>2. PICK n \in 0 .. c - 1 :
              /\ t.slots[Probe(c, HashPointer(p) % c, n)] = p
              /\ \A j \in 0 .. n - 1 :
                    t.slots[Probe(c, HashPointer(p) % c, j)] # NoObject
        BY <4>1 DEF TableContains
      <4>3. u.slots[Probe(c, HashPointer(p) % c, n)] = p
        BY <4>1, <4>2, <1>4, <1>5, <1>7, ObjectAssumption
      <4>4. ASSUME NEW j \in 0 .. n - 1
            PROVE  u.slots[Probe(c, HashPointer(p) % c, j)] # NoObject
        <5>1. j \in 0 .. c - 1
          BY <1>1, <4>2
        <5>2. Probe(c, HashPointer(p) % c, j) \in 0 .. c - 1
          BY <4>1, <5>1, <1>4
        <5>3. QED
          BY <4>2, <5>2, <1>7, ObjectAssumption
      <4>5. QED
        BY <4>2, <4>3, <4>4
    <3>3. QED
      BY <1>8, <3>1, <3>2
  <2>2. QED
    BY <2>1, <1>6 DEF TableContains
<1>12. QED
  BY <1>6, <1>8, <1>9, <1>10, <1>11 DEF TableInv, u

(* Adding at the threshold doubles the capacity. *)
LEMMA AddGrows ==
    ASSUME NEW t, NEW o,
           t = [slots |-> t.slots, capacity |-> t.capacity, size |-> t.size],
           t.size >= Threshold(t.capacity)
    PROVE  TableAdd(t, o).capacity = 2 * t.capacity
<1>1. TableGrow(t).capacity = 2 * t.capacity
  BY DEF TableGrow
<1>2. QED
  BY <1>1 DEF TableAdd, TableGrow

(* Adding never shrinks the table and leaves a table. *)
LEMMA AddShape ==
    ASSUME NEW t, NEW o,
           t = [slots |-> t.slots, capacity |-> t.capacity, size |-> t.size],
           t.capacity \in Nat, t.capacity >= TableSize
    PROVE  LET u == TableAdd(t, o)
           IN  /\ u = [slots |-> u.slots, capacity |-> u.capacity, size |-> u.size]
               /\ u.capacity \in {t.capacity, 2 * t.capacity}
               /\ u.capacity \in Nat
               /\ u.capacity >= TableSize
<1> DEFINE g == TableGrow(t)
           v == IF t.size >= Threshold(t.capacity) THEN g ELSE t
           u == TableAdd(t, o)
<1>1. g = [slots |-> g.slots, capacity |-> g.capacity, size |-> g.size]
      /\ g.capacity = 2 * t.capacity
  BY DEF TableGrow
<1> HIDE DEF g
<1>2. v = [slots |-> v.slots, capacity |-> v.capacity, size |-> v.size]
      /\ v.capacity \in {t.capacity, 2 * t.capacity}
  BY <1>1
<1>3. u = [slots |-> u.slots, capacity |-> u.capacity, size |-> u.size]
      /\ u.capacity = v.capacity
  <2> HIDE DEF v
  <2> DEFINE i == SlotFor(v.slots, v.capacity, HashPointer(o) % v.capacity, o)
  <2>1. u = [v EXCEPT !.slots[i] = o,
                      !.size = IF v.slots[i] = NoObject THEN @ + 1 ELSE @]
    BY DEF TableAdd, v, g
  <2> HIDE DEF u, i
  <2>2. QED
    BY <1>2, <2>1
<1>4. u.capacity \in {t.capacity, 2 * t.capacity}
  BY <1>2, <1>3
<1> HIDE DEF u, v
<1>5. u.capacity \in Nat /\ u.capacity >= TableSize
  BY <1>4, TableAssumption
<1>6. QED
  BY <1>3, <1>4, <1>5 DEF u

-----------------------------------------------------------------------------
(* The invariant.                                                          *)

(* A call of the marker stores its argument, unless it is immortal, and     *)
(* starts a loop only over a newly marked array.                            *)
LEMMA MarkObjectStores ==
    ASSUME ShapeInv, NeverGrown, NeverGrown', TableInv(table),
           NEW o \in Object, NEW below, MarkObject(o, below)
    PROVE  /\ TableInv(table')
           /\ Stored(table) \subseteq Stored(table')
           /\ Stored(table') \subseteq Stored(table) \cup {o}
           /\ o \in Stored(table') \cup Immortal
           /\ \/ calls' = below /\ o \in Stored(table) \cup Immortal \cup (Object \ Array)
              \/ calls' = Append(below, [object |-> o, rest |-> items[o]])
                 /\ o \in Stored(table')
<1>1. TableContains(table, o) <=> o \in Stored(table)
  BY ContainsStored
<1>2. CASE o \in Stored(table) \cup Immortal
  BY <1>1, <1>2 DEF MarkObject
<1>3. CASE o \notin Stored(table) \cup Immortal
  <2>1. /\ table' = TableAdd(table, o)
        /\ calls' = IF o \in Array
                    THEN Append(below, [object |-> o, rest |-> items[o]])
                    ELSE below
    BY <1>1, <1>3 DEF MarkObject
  <2>2. ~ (table.size >= Threshold(table.capacity))
    <3>1. ASSUME table.size >= Threshold(table.capacity) PROVE FALSE
      <4>1. table'.capacity = 2 * table.capacity
        BY <2>1, <3>1, AddGrows DEF ShapeInv
      <4>2. QED
        BY <4>1, TableAssumption DEF NeverGrown
    <3>2. QED
      BY <3>1
  <2>3. table.size < Threshold(table.capacity)
    <3>1. table.size \in Nat /\ Threshold(table.capacity) \in Nat
      BY DEF TableInv, TableOK, Threshold
    <3>2. QED
      BY <2>2, <3>1
  <2>4. TableInv(table') /\ Stored(table') = Stored(table) \cup {o}
    BY <1>3, <2>1, <2>3, AddStores DEF ShapeInv
  <2>5. QED
    BY <2>1, <2>4
<1>4. QED
  BY <1>2, <1>3

(* The marker changes the call stack and the table within their types. *)
LEMMA MarkObjectShape ==
    ASSUME ShapeInv, NEW o \in Object,
           NEW below \in Seq(Frame),
           MarkObject(o, below)
    PROVE  /\ calls' \in Seq(Frame)
           /\ table' = [slots |-> table'.slots, capacity |-> table'.capacity,
                        size |-> table'.size]
           /\ table'.capacity \in {table.capacity, 2 * table.capacity}
           /\ table'.capacity \in Nat
           /\ table'.capacity >= TableSize
<1>1. CASE TableContains(table, o) \/ o \in Immortal
  BY <1>1 DEF MarkObject, ShapeInv
<1>2. CASE ~ (TableContains(table, o) \/ o \in Immortal)
  <2>1. [object |-> o, rest |-> items[o]] \in Frame
    BY DEF ShapeInv, Frame
  <2>2. /\ table' = TableAdd(table, o)
        /\ calls' = IF o \in Array
                    THEN Append(below, [object |-> o, rest |-> items[o]])
                    ELSE below
    BY <1>2 DEF MarkObject
  <2>3. calls' \in Seq(Frame)
    <3> DEFINE frame == [object |-> o, rest |-> items[o]]
    <3>1. frame \in Frame
      BY <2>1
    <3> HIDE DEF frame
    <3>2. Append(below, frame) \in Seq(Frame)
      BY <3>1
    <3>3. calls' = below \/ calls' = Append(below, frame)
      BY <2>2 DEF frame
    <3>4. calls' \in Seq(Frame)
      BY <3>2, <3>3
    <3>5. QED
      BY <3>4
  <2>4. QED
    BY <2>2, <2>3, AddShape DEF ShapeInv
<1>3. QED
  BY <1>1, <1>2

(* Types, and the few facts that hold whatever the table does. *)
LEMMA ShapeInductive == ShapeInv /\ [Next]_vars => ShapeInv'
<1> SUFFICES ASSUME ShapeInv, [Next]_vars PROVE ShapeInv'
  OBVIOUS
<1> USE DEF ShapeInv, Phase
<1>1. ASSUME NEW o \in Object, Allocate(o) PROVE ShapeInv'
  <2>1. Reachable \subseteq Object
    BY ReachableClosed DEF Reachable
  <2>2. QED
    BY <1>1, <2>1, ObjectAssumption DEF Allocate, collectorVars
<1>2. ASSUME NEW o \in Object, DropRoot(o) PROVE ShapeInv'
  BY <1>2 DEF DropRoot, collectorVars
<1>3. CASE StoreItem
  <2>1. Reachable \subseteq Object
    BY ReachableClosed DEF Reachable
  <2>2. QED
    BY <1>3, <2>1, ObjectAssumption DEF StoreItem, collectorVars
<1>4. CASE StartCollect
  BY <1>4 DEF StartCollect, mutatorVars, TableClear
<1>5. ASSUME NEW o \in Object, MarkRoot(o) PROVE ShapeInv'
  <2>1. MarkObject(o, calls) /\ phase' = "mark" /\ UNCHANGED <<items, inUse, roots, unmarked>>
        /\ toMark' \in SUBSET Object
    BY <1>5 DEF MarkRoot, mutatorVars
  <2>2. /\ calls' \in Seq(Frame)
        /\ table' = [slots |-> table'.slots, capacity |-> table'.capacity,
                     size |-> table'.size]
        /\ table'.capacity \in Nat
        /\ table'.capacity >= TableSize
    BY <2>1, MarkObjectShape
  <2>3. QED
    BY <2>1, <2>2
<1>6. ASSUME NEW o \in Object, MarkItem(o) PROVE ShapeInv'
  <2> DEFINE below == [calls EXCEPT ![Len(calls)].rest = @ \ {o}]
  <2>1. MarkObject(o, below) /\ phase' = "mark"
        /\ UNCHANGED <<items, inUse, roots, unmarked, toMark>>
    BY <1>6 DEF MarkItem, mutatorVars
  <2>2. below \in Seq(Frame)
    <3>1. Len(calls) \in 1 .. Len(calls)
      BY <1>6 DEF MarkItem
    <3>2. calls[Len(calls)] \in Frame
      BY <3>1
    <3>3. [calls[Len(calls)] EXCEPT !.rest = @ \ {o}] \in Frame
      BY <3>2 DEF Frame
    <3>4. below = [calls EXCEPT ![Len(calls)] = [calls[Len(calls)] EXCEPT !.rest = @ \ {o}]]
      OBVIOUS
    <3>5. QED
      BY <3>1, <3>3, <3>4
  <2> HIDE DEF below
  <2>3. /\ calls' \in Seq(Frame)
        /\ table' = [slots |-> table'.slots, capacity |-> table'.capacity,
                     size |-> table'.size]
        /\ table'.capacity \in Nat
        /\ table'.capacity >= TableSize
    BY <2>1, <2>2, MarkObjectShape
  <2>4. QED
    BY <2>1, <2>3
<1>7. CASE MarkReturn
  <2>1. Len(calls) - 1 \in Nat /\ Len(calls) - 1 <= Len(calls)
    BY <1>7 DEF MarkReturn
  <2>2. SubSeq(calls, 1, Len(calls) - 1) \in Seq(Frame)
    BY <2>1
  <2>3. QED
    BY <1>7, <2>2 DEF MarkReturn, mutatorVars
<1>8. CASE StartSweep
  BY <1>8 DEF StartSweep, mutatorVars
<1>9. ASSUME NEW o \in Object, SweepFree(o) PROVE ShapeInv'
  <2>1. o \notin Immortal
    BY <1>9 DEF SweepFree
  <2>2. QED
    BY <1>9, <2>1, ObjectAssumption DEF SweepFree
<1>10. CASE EndCollect
  BY <1>10 DEF EndCollect, mutatorVars
<1>11. CASE UNCHANGED vars
  BY <1>11 DEF vars
<1>12. QED
  BY <1>1, <1>2, <1>3, <1>4, <1>5, <1>6, <1>7, <1>8, <1>9, <1>10, <1>11
     DEF Next, Mutator, Collector

(* A table never shrinks: one that has its initial capacity never had more. *)
LEMMA GrowthIsForEver == ShapeInv /\ [Next]_vars /\ NeverGrown' => NeverGrown
<1> SUFFICES ASSUME ShapeInv, [Next]_vars, NeverGrown' PROVE NeverGrown
  OBVIOUS
<1>1. table'.capacity \in {table.capacity, 2 * table.capacity}
  <2>1. CASE table' = table
    BY <2>1
  <2>2. CASE StartCollect
    BY <2>2 DEF StartCollect, TableClear, ShapeInv
  <2>3. ASSUME NEW o \in Object, MarkRoot(o)
        PROVE  table'.capacity \in {table.capacity, 2 * table.capacity}
    BY <2>3, MarkObjectShape DEF MarkRoot, ShapeInv
  <2>4. ASSUME NEW o \in Object, MarkItem(o)
        PROVE  table'.capacity \in {table.capacity, 2 * table.capacity}
    <3> DEFINE below == [calls EXCEPT ![Len(calls)].rest = @ \ {o}]
    <3>1. \/ table' = table
          \/ table' = TableAdd(table, o)
      BY <2>4 DEF MarkItem, MarkObject
    <3>2. QED
      BY <3>1, AddShape DEF ShapeInv
  <2>5. QED
    BY <2>1, <2>2, <2>3, <2>4
       DEF Next, Mutator, Collector, vars, Allocate, DropRoot, StoreItem, MarkReturn,
           StartSweep, SweepFree, EndCollect, collectorVars
<1>2. table.capacity \in Nat /\ table.capacity >= TableSize
      /\ table'.capacity = TableSize /\ TableSize \in Nat \ {0}
  BY TableAssumption DEF ShapeInv, NeverGrown
<1>3. table.capacity = TableSize
  BY <1>1, <1>2
<1>4. QED
  BY <1>3 DEF NeverGrown

(* The part of the invariant that holds until the table grows. *)
CoreInv == TableInv(table) /\ ReachableInUse /\ MarkInv /\ SweepInv

(* The interpreter keeps what it can reach in use. *)
LEMMA MutatorKeepsCore ==
    ASSUME ShapeInv, CoreInv, phase = "mutator", phase' = "mutator",
           \/ \E o \in Object : Allocate(o) \/ DropRoot(o)
           \/ StoreItem
    PROVE  CoreInv'
<1> USE DEF ShapeInv
<1>1. table' = table
  BY DEF Allocate, DropRoot, StoreItem, collectorVars
<1>2. /\ Reachable \subseteq inUse
      /\ Reachable \subseteq Object
      /\ Closed(roots, items, Reachable)
  BY ReachableClosed DEF CoreInv, ReachableInUse, Reachable
<1>3. ReachableInUse'
  <2>1. ASSUME NEW o \in Object, Allocate(o) PROVE ReachableInUse'
    <3> DEFINE S == Reachable \cup Immortal \cup {o}
    <3>1. /\ roots' = roots \cup {o}
          /\ inUse' = inUse \cup {o}
          /\ o \notin inUse
      BY <2>1 DEF Allocate
    <3>2. PICK T \in SUBSET (Reachable \cup Immortal) : items' = [items EXCEPT ![o] = T]
      BY <2>1 DEF Allocate
    <3>3. Closed(roots', items', S)
      BY <1>2, <3>1, <3>2, ObjectAssumption DEF Closed
    <3>4. S \in SUBSET Object
      BY <1>2, ObjectAssumption
    <3>5. S \subseteq inUse'
      BY <1>2, <3>1
    <3>6. Reachable' \subseteq S
      BY <3>3, <3>4, ReachableLeast DEF Reachable
    <3>7. QED
      BY <3>5, <3>6 DEF ReachableInUse
  <2>2. ASSUME NEW o \in Object, DropRoot(o) PROVE ReachableInUse'
    <3>1. Closed(roots', items', Reachable)
      BY <1>2, <2>2 DEF DropRoot, Closed
    <3>2. Reachable' \subseteq Reachable
      BY <1>2, <3>1, ReachableLeast DEF Reachable
    <3>3. QED
      BY <1>2, <2>2, <3>2 DEF DropRoot, ReachableInUse
  <2>3. CASE StoreItem
    <3> DEFINE S == Reachable \cup Immortal
    <3>1. PICK a \in Array \cap Reachable, T \in SUBSET Object :
            T \subseteq S /\ items' = [items EXCEPT ![a] = T]
      <4>1. PICK a \in Array \cap Reachable :
              \E old \in items[a], new \in S :
              \E T \in {items[a] \cup {new}, (items[a] \ {old}) \cup {new}} :
                 items' = [items EXCEPT ![a] = T]
        BY <2>3 DEF StoreItem
      <4> PICK old \in items[a], new \in S :
              \E T \in {items[a] \cup {new}, (items[a] \ {old}) \cup {new}} :
                 items' = [items EXCEPT ![a] = T]
        BY <4>1
      <4> PICK T \in {items[a] \cup {new}, (items[a] \ {old}) \cup {new}} :
                 items' = [items EXCEPT ![a] = T]
        OBVIOUS
      <4>2. items[a] \subseteq Reachable
        BY <1>2 DEF Closed
      <4>3. T \subseteq S /\ T \in SUBSET Object
        BY <1>2, <4>2, ObjectAssumption
      <4>4. QED
        BY <4>3
    <3>2. roots' = roots /\ inUse' = inUse
      BY <2>3 DEF StoreItem
    <3>3. Closed(roots', items', S)
      BY <1>2, <3>1, <3>2, ObjectAssumption DEF Closed
    <3>4. Reachable' \subseteq S
      BY <1>2, <3>3, ReachableLeast, ObjectAssumption DEF Reachable
    <3>5. QED
      BY <1>2, <3>2, <3>4 DEF ReachableInUse
  <2>4. QED
    BY <2>1, <2>2, <2>3
<1>4. QED
  BY <1>1, <1>3 DEF CoreInv, MarkInv, SweepInv

(* Starting a collection empties the table. *)
LEMMA StartKeepsCore ==
    ASSUME ShapeInv, CoreInv, StartCollect
    PROVE  CoreInv'
<1>1. /\ table' = TableClear(table)
      /\ toMark' = roots
      /\ calls' = <<>>
      /\ phase' = "mark"
      /\ UNCHANGED <<items, inUse, roots>>
  BY DEF StartCollect, ShapeInv, mutatorVars
<1>2. /\ table'.capacity \in Nat \ {0}
      /\ table'.size = 0
      /\ table'.slots = EmptySlots(table'.capacity)
  BY <1>1 DEF CoreInv, TableInv, TableOK, ShapeInv, TableClear
<1>3. TableInv(table') /\ Stored(table') = {}
  BY <1>2, EmptyTable
<1>4. ReachableInUse'
  BY <1>1 DEF CoreInv, ReachableInUse, Reachable
<1>5. QED
  BY <1>1, <1>3, <1>4 DEF CoreInv, MarkInv, SweepInv

(* A call of the marker keeps the marking invariant, whether it comes from  *)
(* the loop over the roots or from the loop over an array's items: "below"  *)
(* is the call stack without what the call itself adds.                     *)
LEMMA MarkObjectKeepsCore ==
    ASSUME ShapeInv, CoreInv, NeverGrown, NeverGrown', phase = "mark",
           NEW o \in Object, o \in Reachable,
           NEW below \in Seq(Frame), MarkObject(o, below),
           UNCHANGED <<items, inUse, roots, phase>>,
           toMark' \subseteq toMark, toMark \ toMark' \subseteq {o},
           Len(below) = Len(calls),
           \A k \in 1 .. Len(calls) :
              /\ below[k].object = calls[k].object
              /\ below[k].rest \subseteq calls[k].rest
              /\ calls[k].rest \ below[k].rest \subseteq {o}
    PROVE  CoreInv'
<1>1. /\ TableInv(table')
      /\ Stored(table) \subseteq Stored(table')
      /\ Stored(table') \subseteq Stored(table) \cup {o}
      /\ o \in Stored(table') \cup Immortal
  BY MarkObjectStores DEF CoreInv
<1>2. \/ calls' = below /\ o \in Stored(table) \cup Immortal \cup (Object \ Array)
      \/ calls' = Append(below, [object |-> o, rest |-> items[o]]) /\ o \in Stored(table')
  BY MarkObjectStores DEF CoreInv
<1>3. Marked \cup {o} \subseteq Marked'
  BY <1>1 DEF Marked
<1>4. Reachable' = Reachable /\ ReachableInUse'
  BY DEF Reachable, CoreInv, ReachableInUse
<1>5. Len(calls) \in Nat /\ Len(below) = Len(calls)
      /\ \A k \in 1 .. Len(calls) : k \in 1 .. Len(below)
  BY DEF ShapeInv
<1>6. \A k \in 1 .. Len(calls) :
        /\ below[k].object \in Stored(table)
        /\ below[k].rest \subseteq items[below[k].object]
        /\ items[below[k].object] \ below[k].rest \subseteq Marked'
  BY <1>3 DEF CoreInv, MarkInv
<1>7. ASSUME NEW p \in Stored(table)
      PROVE  \/ \E k \in 1 .. Len(calls) : below[k].object = p
             \/ items[p] \subseteq Marked'
  BY <1>3 DEF CoreInv, MarkInv
<1>8. Stored(table') \subseteq Reachable'
  BY <1>1, <1>4 DEF CoreInv, MarkInv
<1>9. toMark' \subseteq roots /\ roots \ toMark' \subseteq Marked'
  BY <1>3 DEF CoreInv, MarkInv
<1>10. CASE calls' = below /\ o \in Stored(table) \cup Immortal \cup (Object \ Array)
  <2>1. items[o] \subseteq Marked' \/ o \in Stored(table)
    BY <1>10, ObjectAssumption DEF ShapeInv
  <2>2. \A p \in Stored(table') :
          \/ \E k \in 1 .. Len(calls) : below[k].object = p
          \/ items[p] \subseteq Marked'
    BY <1>1, <1>7, <2>1
  <2>3. MarkInv'
    BY <1>5, <1>6, <1>8, <1>9, <1>10, <1>1, <2>2 DEF MarkInv
  <2>4. QED
    BY <1>1, <1>4, <2>3 DEF CoreInv, SweepInv
<1>11. CASE calls' = Append(below, [object |-> o, rest |-> items[o]])
            /\ o \in Stored(table')
  <2> DEFINE n == Len(calls)
  <2>1. /\ Len(calls') = n + 1
        /\ calls'[n + 1] = [object |-> o, rest |-> items[o]]
        /\ \A k \in 1 .. n : calls'[k] = below[k]
    BY <1>5, <1>11
  <2>2. /\ calls'[n + 1].object = o
        /\ calls'[n + 1].rest = items[o]
        /\ n \in Nat
    BY <2>1, <1>5
  <2>3. \A k \in 1 .. n + 1 : k \in 1 .. n \/ k = n + 1
    BY <2>2
  <2>4. \A k \in 1 .. Len(calls') :
          /\ calls'[k].object \in Stored(table')
          /\ calls'[k].rest \subseteq items[calls'[k].object]
          /\ items[calls'[k].object] \ calls'[k].rest \subseteq Marked'
    BY <1>1, <1>6, <1>11, <2>1, <2>2, <2>3
  <2>5. ASSUME NEW p \in Stored(table')
        PROVE  \/ \E k \in 1 .. Len(calls') : calls'[k].object = p
               \/ items[p] \subseteq Marked'
    <3>1. CASE p = o
      <4>1. n + 1 \in 1 .. Len(calls')
        BY <2>1, <2>2
      <4>2. QED
        BY <3>1, <4>1, <2>2
    <3>2. CASE p \in Stored(table)
      <4>1. CASE \E k \in 1 .. n : below[k].object = p
        <5>1. PICK k \in 1 .. n : below[k].object = p
          BY <4>1
        <5>2. k \in 1 .. Len(calls') /\ calls'[k].object = p
          BY <5>1, <2>1, <2>2
        <5>3. QED
          BY <5>2
      <4>2. QED
        BY <3>2, <4>1, <1>7
    <3>3. QED
      BY <1>1, <3>1, <3>2
  <2>6. MarkInv'
    BY <1>8, <1>9, <2>4, <2>5 DEF MarkInv
  <2>7. QED
    BY <1>1, <1>4, <2>6 DEF CoreInv, SweepInv
<1>12. QED
  BY <1>2, <1>10, <1>11

(* The two loops that call the marker. *)
LEMMA MarkStepKeepsCore ==
    ASSUME ShapeInv, CoreInv, NeverGrown, NeverGrown', NEW o \in Object,
           MarkRoot(o) \/ MarkItem(o)
    PROVE  CoreInv'
<1>1. roots \subseteq Reachable /\ \A p \in Reachable : items[p] \subseteq Reachable
  BY ReachableClosed DEF Reachable, Closed, ShapeInv
<1>2. CASE MarkRoot(o)
  <2>1. /\ phase = "mark" /\ calls = <<>> /\ o \in toMark
        /\ toMark' = toMark \ {o}
        /\ MarkObject(o, calls)
        /\ UNCHANGED <<items, inUse, roots, phase>>
    BY <1>2 DEF MarkRoot, mutatorVars
  <2>2. o \in Reachable
    BY <1>1, <2>1 DEF CoreInv, MarkInv
  <2>3. calls \in Seq(Frame)
    BY DEF ShapeInv
  <2>4. /\ toMark' \subseteq toMark
        /\ toMark \ toMark' \subseteq {o}
        /\ Len(calls) = Len(calls)
        /\ \A k \in 1 .. Len(calls) :
              /\ calls[k].object = calls[k].object
              /\ calls[k].rest \subseteq calls[k].rest
              /\ calls[k].rest \ calls[k].rest \subseteq {o}
    BY <2>1
  <2>5. QED
    BY <2>1, <2>2, <2>3, <2>4, MarkObjectKeepsCore
<1>3. CASE MarkItem(o)
  <2> DEFINE n == Len(calls)
             top == calls[n]
             below == [calls EXCEPT ![n].rest = @ \ {o}]
  <2>1. /\ phase = "mark" /\ calls # <<>> /\ o \in top.rest
        /\ MarkObject(o, below)
        /\ UNCHANGED <<items, inUse, roots, phase, toMark>>
    BY <1>3 DEF MarkItem, mutatorVars
  <2>2. n \in 1 .. n /\ n \in Nat /\ calls \in Seq(Frame)
    BY <2>1 DEF ShapeInv
  <2>3. \A k \in 1 .. n : calls[k] \in Frame
    BY <2>2
  <2>4. /\ below = [calls EXCEPT ![n] = [top EXCEPT !.rest = @ \ {o}]]
        /\ [top EXCEPT !.rest = @ \ {o}] \in Frame
    BY <2>2, <2>3 DEF Frame
  <2>5. below \in Seq(Frame) /\ Len(below) = n
    BY <2>2, <2>4
  <2>6. \A k \in 1 .. n :
          /\ below[k].object = calls[k].object
          /\ below[k].rest \subseteq calls[k].rest
          /\ calls[k].rest \ below[k].rest \subseteq {o}
    BY <2>2, <2>3 DEF Frame
  <2>7. o \in Reachable
    <3>1. /\ top.object \in Stored(table) /\ Stored(table) \subseteq Reachable
          /\ top.rest \subseteq items[top.object]
      BY <2>1, <2>2 DEF CoreInv, MarkInv
    <3>2. QED
      BY <1>1, <2>1, <3>1
  <2>8. toMark' \subseteq toMark /\ toMark \ toMark' \subseteq {o}
    BY <2>1
  <2> HIDE DEF below
  <2>9. QED
    BY <2>1, <2>5, <2>6, <2>7, <2>8, MarkObjectKeepsCore
<1>4. QED
  BY <1>2, <1>3

(* Returning from a finished loop: all items of its array are marked. *)
LEMMA ReturnKeepsCore ==
    ASSUME ShapeInv, CoreInv, MarkReturn
    PROVE  CoreInv'
<1> DEFINE n == Len(calls)
<1>1. /\ phase = "mark" /\ calls # <<>> /\ calls[n].rest = {}
      /\ calls' = SubSeq(calls, 1, n - 1)
      /\ UNCHANGED <<items, inUse, roots, phase, toMark, table>>
  BY DEF MarkReturn, mutatorVars
<1>2. n \in Nat /\ n \in 1 .. n
  BY <1>1 DEF ShapeInv
<1>3. Len(calls') = n - 1 /\ \A k \in 1 .. n - 1 : calls'[k] = calls[k] /\ k \in 1 .. n
  <2> DEFINE m == n - 1
  <2>1. 1 \in Int /\ m \in Int /\ \A k \in 1 .. m : calls[k] \in Frame
    BY <1>2 DEF ShapeInv
  <2> HIDE DEF m
  <2>2. /\ Len(SubSeq(calls, 1, m)) = IF 1 <= m THEN m - 1 + 1 ELSE 0
        /\ \A k \in 1 .. m - 1 + 1 : SubSeq(calls, 1, m)[k] = calls[1 + k - 1]
    BY <2>1, SubSeqProperties
  <2>3. /\ m \in Nat /\ m - 1 + 1 = m /\ (~ (1 <= m) => m = 0)
        /\ \A k \in 1 .. m : 1 + k - 1 = k /\ k \in 1 .. n
    <3>1. n \in Nat \ {0} /\ m = n - 1
      BY <1>2 DEF m
    <3> HIDE DEF n
    <3>2. m \in Nat /\ m - 1 + 1 = m /\ (~ (1 <= m) => m = 0)
      BY <3>1
    <3>3. ASSUME NEW k \in 1 .. m PROVE 1 + k - 1 = k /\ k \in 1 .. n
      BY <3>1, <3>2
    <3>4. QED
      BY <3>2, <3>3
  <2>4. Len(SubSeq(calls, 1, m)) = m
    BY <2>2, <2>3
  <2>5. \A k \in 1 .. m : SubSeq(calls, 1, m)[k] = calls[k]
    BY <2>2, <2>3
  <2>6. calls' = SubSeq(calls, 1, m)
    BY <1>1 DEF m
  <2>7. Len(calls') = m /\ \A k \in 1 .. m : calls'[k] = calls[k] /\ k \in 1 .. n
    BY <2>3, <2>4, <2>5, <2>6
  <2>8. QED
    BY <2>7 DEF m
<1>4. Marked' = Marked /\ Reachable' = Reachable /\ Stored(table') = Stored(table)
  BY <1>1 DEF Marked, Reachable
<1>5. ASSUME NEW p \in Stored(table)
      PROVE  \/ \E k \in 1 .. n - 1 : calls'[k].object = p
             \/ items[p] \subseteq Marked
  <2>1. CASE \E k \in 1 .. n : calls[k].object = p
    <3>1. PICK k \in 1 .. n : calls[k].object = p
      BY <2>1
    <3>2. CASE k = n
      BY <1>1, <1>2, <3>1, <3>2 DEF CoreInv, MarkInv
    <3>3. CASE k # n
      <4>1. k \in 1 .. n - 1
        BY <1>2, <3>1, <3>3
      <4>2. QED
        BY <1>3, <3>1, <4>1
    <3>4. QED
      BY <3>2, <3>3
  <2>2. QED
    BY <1>1, <2>1 DEF CoreInv, MarkInv
<1>6. MarkInv'
  BY <1>1, <1>3, <1>4, <1>5 DEF CoreInv, MarkInv
<1>7. QED
  BY <1>1, <1>4, <1>6 DEF CoreInv, SweepInv, ReachableInUse

(* When marking is over, the marked objects are closed under the items. *)
LEMMA StartSweepKeepsCore ==
    ASSUME ShapeInv, CoreInv, StartSweep
    PROVE  CoreInv'
<1>1. /\ phase = "mark" /\ calls = <<>> /\ toMark = {} /\ phase' = "sweep"
      /\ unmarked' = {o \in Object \ Immortal : ~ TableContains(table, o)}
      /\ UNCHANGED <<items, inUse, roots, table>>
  BY DEF StartSweep, mutatorVars
<1>2. Len(calls) = 0
  BY <1>1
<1>3. \A p \in Stored(table) : items[p] \subseteq Marked
  BY <1>1, <1>2 DEF CoreInv, MarkInv
<1>4. \A p \in Immortal : items[p] = {}
  BY ObjectAssumption DEF ShapeInv
<1>5. Closed(roots, items, Marked)
  BY <1>1, <1>3, <1>4 DEF CoreInv, MarkInv, Closed, Marked
<1>6. \A o \in Object : TableContains(table, o) <=> o \in Stored(table)
  BY ContainsStored DEF CoreInv
<1>7. unmarked' \cap Marked = {} /\ inUse \subseteq Marked \cup unmarked'
  BY <1>1, <1>6 DEF Marked, ShapeInv
<1>8. Marked' = Marked /\ Reachable' = Reachable /\ Stored(table) \subseteq Reachable
  BY <1>1 DEF Marked, Reachable, CoreInv, MarkInv
<1>9. SweepInv'
  BY <1>1, <1>5, <1>7, <1>8 DEF SweepInv
<1>10. QED
  BY <1>1, <1>8, <1>9 DEF CoreInv, MarkInv, ReachableInUse

(* Freeing an unmarked object leaves the reachable ones as they are. *)
LEMMA FreeKeepsCore ==
    ASSUME ShapeInv, CoreInv, NEW o \in Object, SweepFree(o)
    PROVE  CoreInv'
<1>1. /\ phase = "sweep" /\ o \in unmarked /\ unmarked' = unmarked \ {o}
      /\ items' = [items EXCEPT ![o] = {}]
      /\ inUse' = inUse \ {o}
      /\ UNCHANGED <<roots, phase, table>>
  BY DEF SweepFree
<1>2. /\ Closed(roots, items, Marked) /\ unmarked \cap Marked = {}
      /\ Stored(table) \subseteq Reachable /\ inUse \subseteq Marked \cup unmarked
  BY <1>1 DEF CoreInv, SweepInv
<1>3. Marked' = Marked /\ Marked \in SUBSET Object /\ o \notin Marked
  BY <1>1, <1>2, ObjectAssumption DEF Marked, Stored
<1>4. \A p \in Object : items'[p] = IF p = o THEN {} ELSE items[p]
  BY <1>1 DEF ShapeInv
<1>5. Closed(roots', items', Marked)
  BY <1>1, <1>2, <1>3, <1>4 DEF Closed
<1>6. Reachable' \subseteq Reachable
  <2>1. Closed(roots, items, Reachable) /\ Reachable \in SUBSET Object
    BY ReachableClosed DEF Reachable, ShapeInv
  <2>2. Closed(roots', items', Reachable)
    BY <1>1, <1>4, <2>1 DEF Closed
  <2>3. QED
    BY <2>1, <2>2, ReachableLeast DEF Reachable
<1>7. Reachable \subseteq Reachable'
  <2>1. ASSUME NEW S \in SUBSET Object, Closed(roots', items', S)
        PROVE  Reachable \subseteq S
    <3>1. Closed(roots, items, S \cap Marked)
      BY <1>1, <1>2, <1>3, <1>4, <2>1 DEF Closed
    <3>2. Reachable \subseteq S \cap Marked
      BY <3>1, ReachableLeast DEF Reachable
    <3>3. QED
      BY <3>2
  <2>2. Reachable \subseteq Object
    BY ReachableClosed DEF Reachable, ShapeInv
  <2>3. QED
    BY <2>1, <2>2 DEF Reachable, ReachableFrom
<1>8. ReachableInUse'
  <2>1. Reachable \subseteq Marked
    BY <1>2, <1>3, ReachableLeast DEF Reachable
  <2>2. QED
    BY <1>1, <1>3, <1>6, <2>1 DEF CoreInv, ReachableInUse
<1>9. SweepInv'
  BY <1>1, <1>2, <1>3, <1>5, <1>7 DEF SweepInv
<1>10. QED
  BY <1>1, <1>8, <1>9 DEF CoreInv, MarkInv

-----------------------------------------------------------------------------
(* The theorems.                                                           *)

(* The invariant holds initially. *)
LEMMA InitIInv == Init => IInv
<1> SUFFICES ASSUME Init PROVE IInv
  OBVIOUS
<1> USE DEF Init
<1>1. table = TableInit /\ TableSize \in Nat \ {0}
  BY TableAssumption
<1>2. ShapeInv
  BY <1>1, ObjectAssumption DEF ShapeInv, Phase, TableInit
<1>3. TableInv(table)
  BY <1>1, EmptyTable DEF TableInit
<1>4. ReachableInUse
  <2>1. Closed(roots, items, {})
    BY DEF Closed
  <2>2. Reachable \subseteq {}
    BY <2>1, ReachableLeast DEF Reachable
  <2>3. QED
    BY <2>2 DEF ReachableInUse
<1>5. QED
  BY <1>2, <1>3, <1>4 DEF IInv, MarkInv, SweepInv

(* Every step keeps it. *)
LEMMA NextIInv == IInv /\ [Next]_vars => IInv'
<1> SUFFICES ASSUME IInv, [Next]_vars PROVE IInv'
  OBVIOUS
<1>1. ShapeInv /\ ShapeInv'
  BY ShapeInductive DEF IInv
<1>2. ASSUME NeverGrown' PROVE CoreInv'
  <2>1. NeverGrown /\ CoreInv
    BY <1>1, <1>2, GrowthIsForEver DEF IInv, CoreInv
  <2>2. ASSUME NEW o \in Object, Allocate(o) \/ DropRoot(o) PROVE CoreInv'
    <3>1. phase = "mutator" /\ phase' = "mutator"
      BY <2>2 DEF Allocate, DropRoot, collectorVars
    <3>2. QED
      BY <1>1, <2>1, <2>2, <3>1, MutatorKeepsCore
  <2>3. CASE StoreItem
    <3>1. phase = "mutator" /\ phase' = "mutator"
      BY <2>3 DEF StoreItem, collectorVars
    <3>2. QED
      BY <1>1, <2>1, <2>3, <3>1, MutatorKeepsCore
  <2>4. CASE StartCollect
    BY <1>1, <2>1, <2>4, StartKeepsCore
  <2>5. ASSUME NEW o \in Object, MarkRoot(o) \/ MarkItem(o) PROVE CoreInv'
    BY <1>1, <1>2, <2>1, <2>5, MarkStepKeepsCore
  <2>6. ASSUME NEW o \in Object, SweepFree(o) PROVE CoreInv'
    BY <1>1, <2>1, <2>6, FreeKeepsCore
  <2>7. CASE MarkReturn
    BY <1>1, <2>1, <2>7, ReturnKeepsCore
  <2>8. CASE StartSweep
    BY <1>1, <2>1, <2>8, StartSweepKeepsCore
  <2>9. CASE EndCollect
    <3>1. phase' = "mutator" /\ UNCHANGED <<items, inUse, roots, table>>
      BY <2>9 DEF EndCollect, mutatorVars
    <3>2. QED
      BY <2>1, <3>1
         DEF CoreInv, MarkInv, SweepInv, ReachableInUse, Reachable
  <2>10. CASE UNCHANGED vars
    BY <2>1, <2>10
       DEF vars, CoreInv, MarkInv, SweepInv, ReachableInUse, Reachable, Marked
  <2>11. QED
    BY <2>2, <2>3, <2>4, <2>5, <2>6, <2>7, <2>8, <2>9, <2>10
       DEF Next, Mutator, Collector
<1>3. QED
  BY <1>1, <1>2 DEF IInv, CoreInv

(* The invariant holds in every state of every behaviour. *)
THEOREM Invariance == Spec => []IInv
<1>1. QED
  BY InitIInv, NextIInv, PTL DEF Spec

(* Type correctness, up to the first growth of the table (after it, the     *)
(* proofs say nothing of where the growth step of mark_table_add puts the   *)
(* objects).                                                                *)
THEOREM TypeCorrect == Spec => [](NeverGrown => TypeOK)
<1>1. IInv => (NeverGrown => TypeOK)
  BY DEF IInv, ShapeInv, TypeOK, TableInv
<1>2. QED
  BY <1>1, Invariance, PTL

(* gc_collect never frees an object the interpreter can reach, in any heap  *)
(* and for any graph, as long as no collection made the mark table grow.    *)
THEOREM Safety == Spec => []SafeUntilGrowth
<1>1. IInv => SafeUntilGrowth
  BY DEF IInv, SafeUntilGrowth
<1>2. QED
  BY <1>1, Invariance, PTL

(* gc_collect frees every mortal object the interpreter cannot reach,       *)
(* cycles included, as long as no collection made the mark table grow.      *)
THEOREM Completeness == Spec => CollectsAllGarbage
<1>1. ASSUME IInv, [Next]_vars
      PROVE  phase = "sweep" /\ phase' = "mutator" /\ NeverGrown
             => inUse' \ Immortal \subseteq Reachable'
  <2> SUFFICES ASSUME phase = "sweep", phase' = "mutator", NeverGrown
               PROVE  inUse' \ Immortal \subseteq Reachable'
    OBVIOUS
  <2>1. EndCollect
    BY <1>1 DEF Next, Mutator, Collector, Allocate, DropRoot, StoreItem, StartCollect,
                MarkRoot, MarkItem, MarkReturn, StartSweep, SweepFree, vars
  <2>2. unmarked = {} /\ UNCHANGED <<items, inUse, roots>>
    BY <2>1 DEF EndCollect, mutatorVars
  <2>3. inUse \subseteq Marked \cup unmarked /\ Stored(table) \subseteq Reachable
    BY <1>1 DEF IInv, SweepInv
  <2>4. inUse \ Immortal \subseteq Reachable
    BY <2>2, <2>3 DEF Marked
  <2>5. QED
    BY <2>2, <2>4 DEF Reachable
<1>2. QED
  BY <1>1, Invariance, PTL DEF Spec, CollectsAllGarbage

-----------------------------------------------------------------------------
(* Small heaps.  The proviso of the theorems above is met by every program  *)
(* whose heap has no more mortal slots than the load factor admits.         *)

(* The table counts what it stores, and never stores an immortal object. *)
CountInv ==
    /\ table.size = Cardinality(Stored(table))
    /\ Stored(table) \cap Immortal = {}

(* In a small heap a call of the marker neither grows the table nor loses   *)
(* count.                                                                   *)
LEMMA MarkObjectCounts ==
    ASSUME Cardinality(Object \ Immortal) <= Threshold(TableSize),
           IInv, NeverGrown, CountInv,
           NEW o \in Object, NEW below, MarkObject(o, below)
    PROVE  (NeverGrown /\ CountInv)'
<1>1. TableInv(table) /\ ShapeInv
  BY DEF IInv
<1>2. TableContains(table, o) <=> o \in Stored(table)
  BY <1>1, ContainsStored
<1>3. CASE o \in Stored(table) \cup Immortal
  BY <1>2, <1>3 DEF MarkObject, NeverGrown, CountInv
<1>4. CASE o \notin Stored(table) \cup Immortal
  <2> DEFINE Mortal == Object \ Immortal
             S == Stored(table)
  <2>1. table' = TableAdd(table, o)
    BY <1>2, <1>4 DEF MarkObject
  <2>2. IsFiniteSet(Mortal) /\ S \cup {o} \in SUBSET Mortal /\ o \notin S
    <3>1. Mortal \in SUBSET Object
      OBVIOUS
    <3>2. IsFiniteSet(Mortal)
      BY <3>1, ObjectAssumption, FS_Subset
    <3>3. S \subseteq Object
      BY DEF Stored
    <3>4. QED
      BY <1>4, <3>2, <3>3 DEF CountInv
  <2>3. IsFiniteSet(S) /\ Cardinality(S \cup {o}) = Cardinality(S) + 1
        /\ Cardinality(S \cup {o}) <= Cardinality(Mortal)
    <3> HIDE DEF S, Mortal
    <3>1. S \in SUBSET Mortal
      BY <2>2
    <3>2. IsFiniteSet(S)
      BY <2>2, <3>1, FS_Subset
    <3>3. Cardinality(S \cup {o}) = Cardinality(S) + 1
      BY <2>2, <3>2, FS_AddElement
    <3>4. Cardinality(S \cup {o}) <= Cardinality(Mortal)
      BY <2>2, FS_Subset
    <3>5. QED
      BY <3>2, <3>3, <3>4
  <2>4. table.size < Threshold(table.capacity)
    <3>1. Cardinality(Mortal) \in Nat
      BY <2>2, FS_CardinalityType
    <3>2. table.size \in Nat /\ Threshold(TableSize) \in Nat
      BY <1>1, TableAssumption DEF TableInv, TableOK, Threshold
    <3>3. /\ table.size = Cardinality(S)
          /\ table.capacity = TableSize
          /\ Cardinality(Mortal) <= Threshold(TableSize)
      BY DEF CountInv, NeverGrown
    <3> HIDE DEF S, Mortal
    <3>4. table.size + 1 <= Cardinality(Mortal)
      BY <2>3, <3>3
    <3>5. QED
      BY <3>1, <3>2, <3>3, <3>4
  <2>5. /\ table'.capacity = table.capacity
        /\ table'.size = table.size + 1
        /\ Stored(table') = S \cup {o}
    BY <1>1, <1>4, <2>1, <2>4, AddStores DEF ShapeInv
  <2>6. QED
    BY <1>4, <2>3, <2>5 DEF NeverGrown, CountInv
<1>5. QED
  BY <1>3, <1>4

(* In a small heap the table never grows. *)
LEMMA SmallHeapNeverGrows ==
    ASSUME Cardinality(Object \ Immortal) <= Threshold(TableSize)
    PROVE  Spec => []NeverGrown
<1>1. Init => NeverGrown /\ CountInv
  <2> SUFFICES ASSUME Init PROVE NeverGrown /\ CountInv
    OBVIOUS
  <2>1. table = TableInit
    BY DEF Init
  <2>2. Stored(table) = {}
    BY <2>1, TableAssumption, EmptyTable DEF TableInit
  <2>3. QED
    BY <2>1, <2>2, FS_EmptySet DEF TableInit, NeverGrown, CountInv
<1>2. ASSUME IInv, NeverGrown, CountInv, [Next]_vars
      PROVE  (NeverGrown /\ CountInv)'
  <2>1. CASE table' = table
    BY <1>2, <2>1 DEF NeverGrown, CountInv
  <2>2. CASE StartCollect
    <3>1. /\ table'.capacity = TableSize
          /\ table'.size = 0
          /\ table'.slots = EmptySlots(table'.capacity)
      BY <1>2, <2>2 DEF StartCollect, TableClear, IInv, ShapeInv, NeverGrown
    <3>2. Stored(table') = {}
      BY <3>1, TableAssumption, EmptyTable
    <3>3. QED
      BY <3>1, <3>2, FS_EmptySet DEF NeverGrown, CountInv
  <2>3. ASSUME NEW o \in Object, MarkRoot(o) \/ MarkItem(o)
        PROVE  (NeverGrown /\ CountInv)'
    <3>1. PICK below : MarkObject(o, below)
      BY <2>3 DEF MarkRoot, MarkItem
    <3>2. QED
      BY <1>2, <3>1, MarkObjectCounts
  <2>4. QED
    BY <1>2, <2>1, <2>2, <2>3
       DEF Next, Mutator, Collector, vars, Allocate, DropRoot, StoreItem, MarkReturn,
           StartSweep, SweepFree, EndCollect, collectorVars
<1>3. QED
  BY <1>1, <1>2, Invariance, PTL DEF Spec

(* In a heap with no more mortal slots than the load factor of the initial  *)
(* table admits, no collection frees a reachable object: without it, the    *)
(* growth step breaks this.                                                 *)
THEOREM SmallHeapSafety ==
    ASSUME Cardinality(Object \ Immortal) <= Threshold(TableSize)
    PROVE  Spec => []ReachableInUse
<1>1. SafeUntilGrowth /\ NeverGrown => ReachableInUse
  BY DEF SafeUntilGrowth
<1>2. Spec => []NeverGrown
  BY SmallHeapNeverGrows
<1>3. QED
  BY <1>1, <1>2, Safety, PTL

-----------------------------------------------------------------------------
(* The refinement: each step of the collector is a step of the abstract    *)
(* memory of ManagedMemory, or none.                                       *)

(* Outside the sweep the interpreter sees the memory as it is. *)
LEMMA SeenOutsideSweep ==
    ASSUME phase # "sweep"
    PROVE  SeenItems = items /\ SeenInUse = inUse
  BY DEF SeenItems, SeenInUse

(* What is known there is what the interpreter can reach, and the immortals. *)
LEMMA KnownOutsideSweep ==
    ASSUME phase # "sweep"
    PROVE  /\ Promise!ReachableFrom(roots, SeenItems) = Reachable
           /\ Promise!Known = Reachable \cup Immortal
<1>1. Promise!ReachableFrom(roots, SeenItems) = ReachableFrom(roots, items)
  BY SeenOutsideSweep
     DEF Promise!ReachableFrom, ReachableFrom, Promise!Closed, Closed
<1>2. QED
  BY <1>1 DEF Promise!Known, Reachable

(* The initial states are those of the abstract memory. *)
LEMMA InitRefines == Init => Promise!Init
<1> SUFFICES ASSUME Init PROVE Promise!Init
  OBVIOUS
<1>1. SeenItems = items /\ SeenInUse = inUse
  BY SeenOutsideSweep DEF Init
<1>2. NeverGrown = TRUE
  BY DEF Init, NeverGrown, TableInit
<1>3. QED
  BY <1>1, <1>2 DEF Init, Promise!Init

(* Steps of the interpreter are steps of the abstract program. *)
LEMMA MutatorRefines ==
    ASSUME phase = "mutator", phase' = "mutator",
           \/ \E o \in Object : Allocate(o) \/ DropRoot(o)
           \/ StoreItem
    PROVE  Promise!Step
<1>1. /\ SeenItems = items /\ SeenInUse = inUse
      /\ SeenItems' = items' /\ SeenInUse' = inUse'
  BY DEF SeenItems, SeenInUse
<1>2. /\ Promise!ReachableFrom(roots, SeenItems) = Reachable
      /\ Promise!Known = Reachable \cup Immortal
  BY KnownOutsideSweep
<1>3. ASSUME NEW o \in Object, Allocate(o) PROVE Promise!Step
  <2>1. PICK S \in SUBSET (IF o \in Array THEN Reachable \cup Immortal ELSE {}) :
             items' = [items EXCEPT ![o] = S]
    BY <1>3 DEF Allocate
  <2>2. o \notin inUse /\ inUse' = inUse \cup {o} /\ roots' = roots \cup {o}
    BY <1>3 DEF Allocate
  <2>3. Promise!Allocate(o)
    BY <1>1, <1>2, <2>1, <2>2 DEF Promise!Allocate
  <2>4. QED
    BY <2>3 DEF Promise!Step
<1>4. ASSUME NEW o \in Object, DropRoot(o) PROVE Promise!Step
  <2>1. Promise!Drop(o)
    BY <1>1, <1>4 DEF DropRoot, Promise!Drop
  <2>2. QED
    BY <2>1 DEF Promise!Step
<1>5. CASE StoreItem
  <2>1. PICK a \in Array \cap Reachable :
          \E old \in items[a], new \in Reachable \cup Immortal :
          \E S \in {items[a] \cup {new}, (items[a] \ {old}) \cup {new}} :
             items' = [items EXCEPT ![a] = S]
    BY <1>5 DEF StoreItem
  <2>2. PICK S \in SUBSET (items[a] \cup Reachable \cup Immortal) :
             items' = [items EXCEPT ![a] = S]
    BY <2>1
  <2>3. UNCHANGED <<inUse, roots>>
    BY <1>5 DEF StoreItem
  <2>4. Promise!Write(a)
    BY <1>1, <1>2, <2>1, <2>2, <2>3 DEF Promise!Write
  <2>5. a \in Object
    BY <2>1, ObjectAssumption
  <2>6. QED
    BY <2>4, <2>5 DEF Promise!Step
<1>6. QED
  BY <1>3, <1>4, <1>5

(* The step from marking to sweeping is the collection: at that moment the  *)
(* marked objects are the reachable and the immortal ones.                  *)
LEMMA StartSweepRefines ==
    ASSUME ShapeInv, CoreInv, StartSweep
    PROVE  Promise!Collect
<1>1. /\ phase = "mark" /\ phase' = "sweep"
      /\ unmarked' = {o \in Object \ Immortal : ~ TableContains(table, o)}
      /\ UNCHANGED <<items, inUse, roots, table>>
  BY DEF StartSweep, mutatorVars
<1>2. /\ Promise!Known = Reachable \cup Immortal
      /\ SeenItems = items /\ SeenInUse = inUse
  BY <1>1, KnownOutsideSweep, SeenOutsideSweep
<1>3. CoreInv'
  BY StartSweepKeepsCore
<1>4. Reachable \cup Immortal = Marked
  <2>1. Marked' = Marked /\ Reachable' = Reachable /\ Stored(table') = Stored(table)
    BY <1>1 DEF Marked, Reachable
  <2>2. Closed(roots, items, Marked) /\ Stored(table) \subseteq Reachable
    BY <1>1, <1>3, <2>1 DEF CoreInv, SweepInv
  <2>3. Marked \in SUBSET Object
    BY ObjectAssumption DEF Marked, Stored
  <2>4. Reachable \subseteq Marked
    BY <2>2, <2>3, ReachableLeast DEF Reachable
  <2>5. QED
    BY <2>2, <2>4 DEF Marked
<1>5. unmarked' = Object \ Marked
  <2>1. \A o \in Object : TableContains(table, o) <=> o \in Stored(table)
    BY ContainsStored DEF CoreInv
  <2>2. QED
    BY <1>1, <2>1 DEF Marked
<1>6. SeenInUse' = SeenInUse \cap Promise!Known
  <2>1. SeenInUse' = inUse \ unmarked'
    BY <1>1 DEF SeenInUse
  <2>2. QED
    BY <1>2, <1>4, <1>5, <2>1 DEF ShapeInv
<1>7. SeenItems' = [o \in Object |-> IF o \in Promise!Known THEN SeenItems[o] ELSE {}]
  <2>1. SeenItems' = [o \in Object |-> IF o \in unmarked' THEN {} ELSE items[o]]
    BY <1>1 DEF SeenItems
  <2>2. QED
    BY <1>2, <1>4, <1>5, <2>1
<1>8. QED
  BY <1>1, <1>6, <1>7 DEF Promise!Collect

(* Freeing one of the objects that have disappeared already is not seen. *)
LEMMA FreeIsSilent ==
    ASSUME ShapeInv, NEW o \in Object, SweepFree(o)
    PROVE  UNCHANGED <<SeenItems, SeenInUse, roots>>
<1>1. /\ phase = "sweep" /\ phase' = "sweep" /\ o \in unmarked
      /\ unmarked' = unmarked \ {o}
      /\ items' = [items EXCEPT ![o] = {}]
      /\ inUse' = inUse \ {o}
      /\ roots' = roots
  BY DEF SweepFree
<1>2. SeenInUse' = SeenInUse
  BY <1>1 DEF SeenInUse
<1>3. SeenItems' = SeenItems
  <2>1. \A p \in Object : (IF p \in unmarked' THEN {} ELSE items'[p])
                            = (IF p \in unmarked THEN {} ELSE items[p])
    BY <1>1 DEF ShapeInv
  <2>2. /\ SeenItems = [p \in Object |-> IF p \in unmarked THEN {} ELSE items[p]]
        /\ SeenItems' = [p \in Object |-> IF p \in unmarked' THEN {} ELSE items'[p]]
    BY <1>1 DEF SeenItems
  <2>3. QED
    BY <2>1, <2>2
<1>4. QED
  BY <1>1, <1>2, <1>3

(* Nor are marking and the two ends of a collection. *)
LEMMA OthersAreSilent ==
    ASSUME ShapeInv,
           \/ \E o \in Object : MarkRoot(o) \/ MarkItem(o)
           \/ StartCollect \/ MarkReturn \/ EndCollect \/ UNCHANGED vars
    PROVE  UNCHANGED <<SeenItems, SeenInUse, roots>>
<1>1. UNCHANGED <<items, inUse, roots>>
  BY DEF MarkRoot, MarkItem, StartCollect, MarkReturn, EndCollect, vars, mutatorVars
<1>2. CASE EndCollect
  <2>1. phase = "sweep" /\ unmarked = {} /\ phase' = "mutator"
    BY <1>2 DEF EndCollect
  <2>2. SeenItems = [o \in Object |-> items[o]] /\ SeenInUse = inUse
    BY <2>1 DEF SeenItems, SeenInUse
  <2>3. SeenItems' = items' /\ SeenInUse' = inUse'
    BY <2>1 DEF SeenItems, SeenInUse
  <2>4. items = [o \in Object |-> items[o]]
    BY DEF ShapeInv
  <2>5. QED
    BY <1>1, <2>2, <2>3, <2>4
<1>3. CASE UNCHANGED vars
  BY <1>3 DEF vars, SeenItems, SeenInUse
<1>4. CASE \/ \E o \in Object : MarkRoot(o) \/ MarkItem(o)
           \/ StartCollect \/ MarkReturn
  <2>1. phase # "sweep" /\ phase' # "sweep"
    BY <1>4 DEF MarkRoot, MarkItem, StartCollect, MarkReturn
  <2>2. QED
    BY <1>1, <2>1 DEF SeenItems, SeenInUse
<1>5. QED
  BY <1>2, <1>3, <1>4

(* Every step is a step of the abstract memory, or none. *)
LEMMA NextRefines == IInv /\ [Next]_vars => [Promise!Next]_(Promise!vars)
<1> SUFFICES ASSUME IInv, [Next]_vars PROVE [Promise!Next]_(Promise!vars)
  OBVIOUS
<1>1. ShapeInv
  BY DEF IInv
<1>2. CASE ~NeverGrown'
  BY <1>2 DEF Promise!Next
<1>3. CASE NeverGrown'
  <2>1. NeverGrown /\ CoreInv
    BY <1>1, <1>3, GrowthIsForEver DEF IInv, CoreInv
  <2>2. NeverGrown' = NeverGrown
    BY <1>3, <2>1 DEF NeverGrown
  <2>3. Promise!Step => Promise!Next
    BY <1>3, <2>1 DEF Promise!Next
  <2>4. UNCHANGED <<SeenItems, SeenInUse, roots>> => UNCHANGED Promise!vars
    BY <2>2 DEF Promise!vars
  <2>5. CASE \/ \E o \in Object : Allocate(o) \/ DropRoot(o)
             \/ StoreItem
    <3>1. phase = "mutator" /\ phase' = "mutator"
      BY <2>5 DEF Allocate, DropRoot, StoreItem, collectorVars
    <3>2. QED
      BY <2>3, <2>5, <3>1, MutatorRefines
  <2>6. CASE StartSweep
    BY <1>1, <2>1, <2>3, <2>6, StartSweepRefines DEF Promise!Step
  <2>7. CASE \E o \in Object : SweepFree(o)
    BY <1>1, <2>4, <2>7, FreeIsSilent
  <2>8. CASE \/ \E o \in Object : MarkRoot(o) \/ MarkItem(o)
             \/ StartCollect \/ MarkReturn \/ EndCollect \/ UNCHANGED vars
    BY <1>1, <2>4, <2>8, OthersAreSilent
  <2>9. QED
    BY <2>5, <2>6, <2>7, <2>8 DEF Next, Mutator, Collector
<1>4. QED
  BY <1>2, <1>3

(* gc_collect, with its recursion, its table and its sweep, implements a    *)
(* collection in one step, in every heap and for every graph, as long as    *)
(* the mark table has its first capacity.                                   *)
THEOREM Refinement == Spec => CollectsAtOnce
<1>1. QED
  BY InitRefines, NextRefines, Invariance, PTL DEF Spec, CollectsAtOnce, Promise!Spec
=============================================================================
