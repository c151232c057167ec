----------------------------- MODULE Heap_proofs -----------------------------
(***************************************************************************)
(* Proofs about the memory of module Heap, for every pool and every number *)
(* of objects: whatever a client that keeps count of its references calls, *)
(* nothing that is referred to is ever free, and the counts are exact but  *)
(* for the elements of arrays that a collection freed.                     *)
(***************************************************************************)
EXTENDS Heap, Memory_proofs

-----------------------------------------------------------------------------
(* The invariant: what the count of an object leaves after the references   *)
(* in arrays is what the client holds, or more for an element of an array    *)
(* that a collection freed.                                                 *)
Balanced ==
    ~ mem.undefined =>
        \A o \in Mortal : IF o \in leaked THEN Balance(mem, o) > held[o]
                                          ELSE Balance(mem, o) = held[o]

Inv == TypeOK /\ Balanced

(* In any case no balance is less than what the client holds. *)
LEMMA BalanceHeld ==
    ASSUME Inv, ~ mem.undefined, NEW o \in Mortal
    PROVE  Balance(mem, o) >= held[o] /\ held[o] \in Nat /\ Balance(mem, o) \in Int
<1>1. held[o] \in Nat /\ Balance(mem, o) \in Int
  BY BalanceType DEF Inv, TypeOK
<1>2. IF o \in leaked THEN Balance(mem, o) > held[o] ELSE Balance(mem, o) = held[o]
  BY DEF Inv, Balanced
<1>3. QED
  BY <1>1, <1>2

(* A call that changes the balances as it changes what the client holds. *)
LEMMA CallKeepsInv ==
    ASSUME Inv, NEW m, MemoryOK(m), \A a \in Object : Len(m.items[a]) <= MaxItems,
           NEW h \in [Mortal -> Nat],
           \A o \in Mortal : Balance(m, o) - Balance(mem, o) = h[o] - held[o],
           Call(m, h)
    PROVE  Inv'
<1>1. mem' = m /\ held' = h /\ leaked' = leaked /\ ~ mem.undefined
  BY DEF Call
<1>2. TypeOK'
  BY <1>1 DEF Inv, TypeOK
<1>3. ASSUME NEW o \in Mortal
      PROVE  IF o \in leaked THEN Balance(m, o) > h[o] ELSE Balance(m, o) = h[o]
  <2>1. IF o \in leaked THEN Balance(mem, o) > held[o] ELSE Balance(mem, o) = held[o]
    BY <1>1 DEF Inv, Balanced
  <2>2. /\ Balance(mem, o) \in Int /\ Balance(m, o) \in Int
        /\ held[o] \in Nat /\ h[o] \in Nat
    BY BalanceType DEF Inv, TypeOK
  <2>3. Balance(m, o) - Balance(mem, o) = h[o] - held[o]
    OBVIOUS
  <2>4. QED
    BY <2>1, <2>2, <2>3
<1>4. Balanced'
  BY <1>1, <1>3 DEF Balanced
<1>5. QED
  BY <1>2, <1>4 DEF Inv

(* What the client gains or loses. *)
LEMMA GainType ==
    ASSUME NEW h \in [Mortal -> Nat], NEW o
    PROVE  /\ Gain(h, o) \in [Mortal -> Nat]
           /\ \A p \in Mortal : Gain(h, o)[p] = h[p] + One(o = p)
           /\ (o \in Mortal /\ h[o] > 0) \/ o \notin Mortal =>
                 /\ Lose(h, o) \in [Mortal -> Nat]
                 /\ \A p \in Mortal : Lose(h, o)[p] = h[p] - One(o = p)
  BY DEF Gain, Lose, One

(* What the client owns is in use, and so are the elements of its arrays. *)
LEMMA OwnedInUse ==
    ASSUME Inv, ~ mem.undefined, NEW o \in Owned
    PROVE  /\ o \in Object
           /\ o \in InUse(mem) \cup Immortal
           /\ o \in mem.used \cup Immortal
           /\ o \in Mortal => held[o] >= 1 /\ Balance(mem, o) >= 1
           /\ \A i \in DOMAIN mem.items[o] : mem.items[o][i] \in InUse(mem) \cup Immortal
<1>1. \A p \in Mortal : Balance(mem, p) >= held[p] /\ held[p] \in Nat /\ Balance(mem, p) \in Int
  BY BalanceHeld
<1>2. MemoryOK(mem)
  BY DEF Inv, TypeOK
<1>3. o \in Object
  BY MemoryAssumption DEF Owned, Mortal
<1>4. CASE o \in Immortal
  <2>1. Kind[o] # "array"
    BY <1>4, MemoryAssumption
  <2>2. mem.items[o] = <<>>
    BY <1>2, <1>3, <2>1 DEF MemoryOK
  <2>3. DOMAIN mem.items[o] = {}
    BY <2>2
  <2>4. QED
    BY <1>3, <1>4, <2>3 DEF Mortal
<1>5. CASE o \notin Immortal
  <2>1. o \in Mortal /\ held[o] > 0
    BY <1>5 DEF Owned
  <2>2. held[o] >= 1 /\ Balance(mem, o) >= 1
    BY <1>1, <2>1
  <2>3. o \in InUse(mem) /\ o \in mem.used
    BY <1>2, <2>1, <2>2, BalanceInUse
  <2>4. ASSUME NEW i \in DOMAIN mem.items[o]
        PROVE  mem.items[o][i] \in InUse(mem) \cup Immortal
    <3>1. mem.items[o][i] \in Mortal => Balance(mem, mem.items[o][i]) >= 0
      BY <1>1
    <3>2. QED
      BY <1>2, <2>3, <3>1, ItemsInUse
  <2>5. QED
    BY <1>3, <2>1, <2>2, <2>3, <2>4
<1>6. QED
  BY <1>4, <1>5

-----------------------------------------------------------------------------
(* Each operation keeps the invariant.                                     *)

(* heap_create leaves nothing in use, and the client holds nothing. *)
LEMMA InitInv == Init => Inv
<1> SUFFICES ASSUME Init PROVE Inv
  OBVIOUS
<1>1. mem = EmptyMemory /\ held = [o \in Mortal |-> 0] /\ leaked = {}
  BY DEF Init
<1>2. TypeOK
  <2>1. \A a \in Object : Len(mem.items[a]) <= MaxItems
    <3>1. \A a \in Object : mem.items[a] = <<>>
      BY <1>1, EmptyMemoryOK
    <3>2. QED
      BY <3>1, HeapAssumption
  <2>2. QED
    BY <1>1, <2>1, EmptyMemoryOK DEF TypeOK
<1>3. Balanced
  <2>1. \A o \in Mortal : Balance(mem, o) = 0 /\ held[o] = 0
    BY <1>1, EmptyMemoryOK
  <2>2. QED
    BY <1>1, <2>1 DEF Balanced
<1>4. QED
  BY <1>2, <1>3 DEF Inv

(* The operations that return a new object. *)
LEMMA NewKeepsInv ==
    ASSUME Inv, NEW m, NEW o, IsNew(mem, m, o),
           \A a \in Object : Len(m.items[a]) <= MaxItems,
           Call(m, Gain(held, o))
    PROVE  Inv'
<1>1. MemoryOK(m) /\ \A p \in Mortal : Balance(m, p) = Balance(mem, p) + One(p = o)
  BY DEF IsNew
<1>2. held \in [Mortal -> Nat] /\ MemoryOK(mem)
  BY DEF Inv, TypeOK
<1>3. Gain(held, o) \in [Mortal -> Nat]
      /\ \A p \in Mortal : Gain(held, o)[p] = held[p] + One(o = p)
  BY <1>2, GainType
<1>4. ASSUME NEW p \in Mortal
      PROVE  Balance(m, p) - Balance(mem, p) = Gain(held, o)[p] - held[p]
  <2>1. One(p = o) = One(o = p) /\ One(o = p) \in Nat
    BY DEF One
  <2>2. Balance(mem, p) \in Int /\ held[p] \in Nat
    BY <1>2, BalanceType
  <2>3. Balance(m, p) = Balance(mem, p) + One(p = o)
        /\ Gain(held, o)[p] = held[p] + One(o = p)
    BY <1>1, <1>3
  <2>4. QED
    BY <2>1, <2>2, <2>3
<1>5. QED
  BY <1>1, <1>3, <1>4, CallKeepsInv

(* A new object has one reference, the client's; the elements a recycled
   slot still had are given up. *)
LEMMA AllocKeepsInv ==
    ASSUME Inv, \/ \E kind \in DOMAIN Pool \ {"array"} : New(kind)
                \/ \E size \in 0 .. MaxItems : NewArray(size)
                \/ NewFloatFromBf
    PROVE  Inv'
<1>1. MemoryOK(mem) /\ mem.items \in [Object -> Seq(Object)]
      /\ \A a \in Object : Len(mem.items[a]) <= MaxItems
  BY DEF Inv, TypeOK, MemoryOK, Memories
<1>2. Len(<<>>) <= MaxItems
  BY HeapAssumption
<1>3. ASSUME NEW kind \in DOMAIN Pool \ {"array"}, New(kind) PROVE Inv'
  <2> DEFINE o == NextObject(mem, kind)
             m == Alloc(mem, kind)
  <2>1. HasFree(mem, kind) /\ Call(m, Gain(held, o))
    BY <1>3 DEF New
  <2>2. IsNew(mem, m, o) /\ m.items = [mem.items EXCEPT ![o] = <<>>]
    BY <1>1, <2>1, AllocBalance
  <2> HIDE DEF o, m
  <2>3. \A a \in Object : m.items[a] = mem.items[a] \/ m.items[a] = <<>>
    BY <1>1, <2>2
  <2>4. \A a \in Object : Len(m.items[a]) <= MaxItems
    BY <1>1, <1>2, <2>3
  <2>5. QED
    BY <2>1, <2>2, <2>4, NewKeepsInv
<1>4. ASSUME NEW size \in 0 .. MaxItems, NewArray(size) PROVE Inv'
  <2> DEFINE o == NextObject(mem, "array")
             m == AllocArray(mem, size)
             s == [i \in 1 .. size |-> NoneObject]
  <2>1. HasFree(mem, "array") /\ Call(m, Gain(held, o))
    BY <1>4 DEF NewArray
  <2>2. IsNew(mem, m, o) /\ m.items = [mem.items EXCEPT ![o] = s]
    <3>1. size \in Nat
      BY HeapAssumption
    <3>2. QED
      BY <1>1, <2>1, <3>1, AllocArrayBalance
  <2>3. Len(s) <= MaxItems
    BY HeapAssumption
  <2> HIDE DEF o, m, s
  <2>4. \A a \in Object : m.items[a] = mem.items[a] \/ m.items[a] = s
    BY <1>1, <2>2
  <2>5. \A a \in Object : Len(m.items[a]) <= MaxItems
    BY <1>1, <2>3, <2>4
  <2>6. QED
    BY <2>1, <2>2, <2>5, NewKeepsInv
<1>5. CASE NewFloatFromBf
  <2> DEFINE o == FreshFloat(mem)
             m == AllocFloatFromBf(mem)
  <2>1. HasFresh(mem) /\ Call(m, Gain(held, o))
    BY <1>5 DEF NewFloatFromBf
  <2>2. IsNew(mem, m, o) /\ m.items = mem.items
    BY <1>1, <2>1, AllocFloatBalance
  <2> HIDE DEF o, m
  <2>3. QED
    BY <1>1, <2>1, <2>2, NewKeepsInv
<1>6. QED
  BY <1>3, <1>4, <1>5

(* object_incref: a count and the client's holdings grow together. *)
LEMMA RetainKeepsInv ==
    ASSUME Inv, NEW o \in Object, Retain(o)
    PROVE  Inv'
<1> DEFINE m == Incref(mem, o)
           h == Gain(held, o)
<1>1. o \in Owned /\ Call(m, h) /\ ~ mem.undefined
  BY DEF Retain, Call
<1>2. MemoryOK(mem) /\ held \in [Mortal -> Nat]
      /\ \A a \in Object : Len(mem.items[a]) <= MaxItems
  BY DEF Inv, TypeOK
<1>3. o \in InUse(mem) \cup Immortal
  BY <1>1, OwnedInUse
<1>4. /\ MemoryOK(m) /\ m.items = mem.items
      /\ \A p \in Mortal : Balance(m, p) = Balance(mem, p) + One(o = p)
  BY <1>2, <1>3, IncrefBalance
<1>5. h \in [Mortal -> Nat] /\ \A p \in Mortal : h[p] = held[p] + One(o = p)
  BY <1>2, GainType
<1> HIDE DEF m, h
<1>6. ASSUME NEW p \in Mortal PROVE Balance(m, p) - Balance(mem, p) = h[p] - held[p]
  <2>1. Balance(mem, p) \in Int /\ held[p] \in Nat /\ One(o = p) \in Nat
    BY <1>2, BalanceType DEF One
  <2>2. Balance(m, p) = Balance(mem, p) + One(o = p) /\ h[p] = held[p] + One(o = p)
    BY <1>4, <1>5
  <2>3. QED
    BY <2>1, <2>2
<1>7. QED
  BY <1>1, <1>2, <1>4, <1>5, <1>6, CallKeepsInv

(* object_decref: what the client gives up leaves the count, and so does
   what the arrays it releases hold. *)
LEMMA ReleaseKeepsInv ==
    ASSUME Inv, NEW o \in Object, Release(o)
    PROVE  Inv'
<1> DEFINE m == Decref(mem, o)
           h == Lose(held, o)
<1>1. o \in Owned /\ o \in Mortal /\ Call(m, h) /\ ~ mem.undefined
  BY DEF Release, Call, Mortal
<1>2. MemoryOK(mem) /\ held \in [Mortal -> Nat]
      /\ \A a \in Object : Len(mem.items[a]) <= MaxItems
  BY DEF Inv, TypeOK
<1>3. held[o] >= 1 /\ Balance(mem, o) >= 1
  BY <1>1, OwnedInUse
<1>4. ASSUME NEW p \in Mortal PROVE Balance(mem, p) >= One(o = p)
  <2>1. Balance(mem, p) >= held[p] /\ held[p] \in Nat /\ Balance(mem, p) \in Int
    BY <1>1, BalanceHeld
  <2>2. QED
    BY <1>3, <2>1 DEF One
<1>5. /\ MemoryOK(m) /\ m.items = mem.items
      /\ \A p \in Mortal : Balance(m, p) = Balance(mem, p) - One(o = p)
  BY <1>2, <1>4, DecrefBalance
<1>6. h \in [Mortal -> Nat] /\ \A p \in Mortal : h[p] = held[p] - One(o = p)
  <2>1. held[o] > 0
    BY <1>1, <1>2, <1>3
  <2>2. QED
    BY <1>1, <1>2, <2>1, GainType
<1> HIDE DEF m, h
<1>7. ASSUME NEW p \in Mortal PROVE Balance(m, p) - Balance(mem, p) = h[p] - held[p]
  <2>1. Balance(mem, p) \in Int /\ held[p] \in Nat /\ One(o = p) \in Nat
    BY <1>2, BalanceType DEF One
  <2>2. Balance(m, p) = Balance(mem, p) - One(o = p) /\ h[p] = held[p] - One(o = p)
    BY <1>5, <1>6
  <2>3. QED
    BY <2>1, <2>2
<1>8. QED
  BY <1>1, <1>2, <1>5, <1>6, <1>7, CallKeepsInv

(* The array's balance pays for its new element. *)
LEMMA ArrayAppendKeepsInv ==
    ASSUME Inv, NEW a \in Object, NEW o \in Object, ArrayAppend(a, o)
    PROVE  Inv'
<1> DEFINE m == [mem EXCEPT !.items[a] = Append(@, o), !.buffer[a] = "live"]
           h == Lose(held, o)
<1>1. /\ a \in Owned /\ o \in Owned /\ Call(m, h) /\ ~ mem.undefined
      /\ Kind[a] = "array" /\ Len(mem.items[a]) < MaxItems
  BY DEF ArrayAppend, Call
<1>2. MemoryOK(mem) /\ held \in [Mortal -> Nat] /\ mem.items \in [Object -> Seq(Object)]
      /\ \A b \in Object : Len(mem.items[b]) <= MaxItems
  BY DEF Inv, TypeOK, MemoryOK, Memories
<1>3. a \notin Immortal
  BY <1>1, MemoryAssumption
<1>4. a \in InUse(mem) /\ o \in mem.used \cup Immortal
  BY <1>1, <1>3, OwnedInUse
<1>5. /\ MemoryOK(m)
      /\ m.items = [mem.items EXCEPT ![a] = Append(mem.items[a], o)]
      /\ \A p \in Mortal : Balance(m, p) = Balance(mem, p) - One(o = p)
  <2>1. m = Appended(mem, a, o)
    BY DEF Appended
  <2>2. MemoryOK(mem) /\ Kind[a] = "array" /\ a \in InUse(mem) /\ o \in mem.used \cup Immortal
    BY <1>1, <1>2, <1>4
  <2> HIDE DEF m
  <2>3. QED
    BY <2>1, <2>2, AppendBalance
<1>6. h \in [Mortal -> Nat] /\ \A p \in Mortal : h[p] = held[p] - One(o = p)
  <2>1. (o \in Mortal /\ held[o] > 0) \/ o \notin Mortal
    BY <1>1, <1>2, OwnedInUse
  <2>2. QED
    BY <1>2, <2>1, GainType
<1> HIDE DEF m, h
<1>7. ASSUME NEW p \in Mortal PROVE Balance(m, p) - Balance(mem, p) = h[p] - held[p]
  <2>1. Balance(mem, p) \in Int /\ held[p] \in Nat /\ One(o = p) \in Nat
    BY <1>2, BalanceType DEF One
  <2>2. Balance(m, p) = Balance(mem, p) - One(o = p) /\ h[p] = held[p] - One(o = p)
    BY <1>5, <1>6
  <2>3. QED
    BY <2>1, <2>2
<1>8. ASSUME NEW b \in Object PROVE Len(m.items[b]) <= MaxItems
  <2>1. CASE b = a
    <3>1. m.items[b] = Append(mem.items[a], o)
      BY <1>2, <1>5, <2>1
    <3>2. Len(Append(mem.items[a], o)) = Len(mem.items[a]) + 1 /\ Len(mem.items[a]) \in Nat
      BY <1>2
    <3>3. QED
      BY <1>1, <3>1, <3>2, HeapAssumption
  <2>2. CASE b # a
    BY <1>2, <1>5, <2>2
  <2>3. QED
    BY <2>1, <2>2
<1>9. QED
  BY <1>1, <1>5, <1>6, <1>7, <1>8, CallKeepsInv

(* The old element is released while the array still holds it, and is       *)
(* retained again when it is the new one as well.                           *)
LEMMA ArraySetKeepsInv ==
    ASSUME Inv, NEW a \in Object, NEW i \in 1 .. MaxItems, NEW o \in Object, ArraySet(a, i, o)
    PROVE  Inv'
<1> DEFINE old == mem.items[a][i]
           d == Decref(mem, old)
           e == Incref(d, o)
           m == [e EXCEPT !.items[a][i] = o]
<1>1. /\ a \in Owned /\ o \in Owned /\ Call(m, held) /\ ~ mem.undefined
      /\ Kind[a] = "array" /\ i \in DOMAIN mem.items[a]
  BY DEF ArraySet, Call
<1>2. MemoryOK(mem) /\ held \in [Mortal -> Nat] /\ mem.items \in [Object -> Seq(Object)]
      /\ \A b \in Object : Len(mem.items[b]) <= MaxItems
  BY DEF Inv, TypeOK, MemoryOK, Memories
<1>3. a \notin Immortal
  BY <1>1, MemoryAssumption
<1>4. /\ a \in InUse(mem) /\ a \in Mortal /\ held[a] >= 1
      /\ o \in Mortal => Balance(mem, o) >= 1
  BY <1>1, <1>3, OwnedInUse DEF InUse
<1>5. \A p \in Mortal : /\ Balance(mem, p) >= held[p] /\ held[p] \in Nat
                        /\ Balance(mem, p) \in Int /\ One(old = p) \in Nat /\ One(o = p) \in Nat
  BY <1>1, BalanceHeld DEF One
<1>6. /\ MemoryOK(d) /\ d.items = mem.items /\ a \in InUse(d)
      /\ \A p \in Mortal : Balance(d, p) = Balance(mem, p) - One(old = p)
  <2> DEFINE s == <<old>>
  <2>1. IsFiniteSet(DOMAIN s)
    <3>1. s \in Seq({old})
      OBVIOUS
    <3>2. QED
      BY <3>1, SeqFinite
  <2>2. \A p \in Mortal : Occurrences(s, p) = One(old = p)
    BY OccurrencesOne
  <2>3. d = DecrefAll(mem, s)
    BY DEF Decref
  <2>4. ASSUME NEW p \in Mortal
        PROVE  Balance(mem, p) + Occurrences(mem.items[a], p) >= Occurrences(s, p) + One(p = a)
    <3>1. Balance(mem, p) >= One(p = a)
      BY <1>4, <1>5 DEF One
    <3>2. Occurrences(mem.items[a], p) \in Nat
          /\ (old = p => Occurrences(mem.items[a], p) # 0)
      <4>1. IsFiniteSet(DOMAIN mem.items[a])
        BY <1>2, SeqFinite
      <4>2. QED
        BY <1>1, <4>1, OccurrencesType, OccurrencesZero
    <3>3. Occurrences(mem.items[a], p) >= One(old = p)
      BY <3>2 DEF One
    <3>4. Occurrences(s, p) = One(old = p) /\ One(p = a) \in Nat
      BY <2>2 DEF One
    <3> HIDE DEF s, old
    <3>5. QED
      BY <1>5, <3>1, <3>2, <3>3, <3>4
  <2> HIDE DEF s, old, d
  <2>5. /\ a \in InUse(DecrefAll(mem, s))
        /\ \A p \in Mortal : Balance(DecrefAll(mem, s), p) = Balance(mem, p) - Occurrences(s, p)
    BY <1>2, <1>4, <2>1, <2>4, HeldBalance
  <2>6. MemoryOK(DecrefAll(mem, s)) /\ DecrefAll(mem, s).items = mem.items
    BY <1>2, <2>1, DecrefAllShape
  <2>7. QED
    BY <2>2, <2>3, <2>5, <2>6
<1>7. o \in InUse(d) \cup Immortal
  <2>1. CASE o \in Immortal
    BY <2>1
  <2>2. CASE o \notin Immortal /\ old # o
    <3>1. o \in Mortal /\ One(old = o) = 0 /\ Balance(mem, o) \in Int
      BY <1>5, <2>2 DEF Mortal, One
    <3>2. Balance(d, o) >= 1
      BY <1>4, <1>6, <3>1
    <3>3. QED
      BY <1>6, <3>1, <3>2, BalanceInUse
  <2>3. CASE o \notin Immortal /\ old = o
    <3>1. o \in Mortal /\ One(old = o) = 1 /\ Balance(mem, o) \in Int
      BY <1>5, <2>3 DEF Mortal, One
    <3>2. Balance(d, o) >= 0
      BY <1>4, <1>6, <3>1
    <3>3. i \in DOMAIN d.items[a] /\ d.items[a][i] = o
      BY <1>1, <1>6, <2>3
    <3> HIDE DEF d
    <3>4. QED
      BY <1>6, <3>2, <3>3, ItemsInUse
  <2>4. QED
    BY <2>1, <2>2, <2>3
<1>8. /\ MemoryOK(e) /\ e.items = d.items /\ e.used = d.used /\ InUse(d) \subseteq InUse(e)
      /\ \A p \in Mortal : Balance(e, p) = Balance(d, p) + One(o = p)
  <2> HIDE DEF d
  <2> QED
    BY <1>6, <1>7, IncrefBalance
<1>9. /\ MemoryOK(m) /\ m.items = [mem.items EXCEPT ![a] = [mem.items[a] EXCEPT ![i] = o]]
      /\ \A p \in Mortal : Balance(m, p) = Balance(e, p) + One(old = p) - One(o = p)
  <2> HIDE DEF d, e
  <2>1. a \in InUse(e) /\ i \in DOMAIN e.items[a] /\ e.items = mem.items
    BY <1>1, <1>6, <1>8
  <2>2. o \in e.used \cup Immortal
    BY <1>6, <1>7, <1>8 DEF MemoryOK
  <2>3. /\ MemoryOK(m) /\ m.items = [e.items EXCEPT ![a] = [e.items[a] EXCEPT ![i] = o]]
        /\ \A p \in Mortal :
              Balance(m, p) = Balance(e, p) + One(e.items[a][i] = p) - One(o = p)
    <3>1. m = Put(e, a, i, o)
      BY DEF Put
    <3>2. a \in InUse(e) /\ i \in DOMAIN e.items[a]
      BY <2>1
    <3> HIDE DEF m
    <3>3. QED
      BY <1>8, <2>2, <3>1, <3>2, PutBalance
  <2> HIDE DEF m
  <2>4. QED
    BY <2>1, <2>3
<1> HIDE DEF old, d, e, m
<1>10. ASSUME NEW p \in Mortal PROVE Balance(m, p) - Balance(mem, p) = held[p] - held[p]
  <2>1. /\ Balance(m, p) = Balance(e, p) + One(old = p) - One(o = p)
        /\ Balance(e, p) = Balance(d, p) + One(o = p)
        /\ Balance(d, p) = Balance(mem, p) - One(old = p)
    BY <1>6, <1>8, <1>9
  <2>2. Balance(mem, p) \in Int /\ One(old = p) \in Nat /\ One(o = p) \in Nat /\ held[p] \in Nat
    BY <1>5
  <2>3. QED
    BY <2>1, <2>2
<1>11. ASSUME NEW b \in Object PROVE Len(m.items[b]) <= MaxItems
  <2>1. CASE b = a
    <3>1. m.items[b] = [mem.items[a] EXCEPT ![i] = o]
      BY <1>2, <1>9, <2>1
    <3>2. Len([mem.items[a] EXCEPT ![i] = o]) = Len(mem.items[a])
      BY <1>2
    <3>3. QED
      BY <1>2, <3>1, <3>2
  <2>2. CASE b # a
    BY <1>2, <1>9, <2>2
  <2>3. QED
    BY <2>1, <2>2
<1>12. QED
  BY <1>1, <1>2, <1>9, <1>10, <1>11, CallKeepsInv

(* object_array_get: the client may count the element it has read. *)
LEMMA ArrayGetKeepsInv ==
    ASSUME Inv, NEW a \in Object, NEW i \in 1 .. MaxItems, ArrayGet(a, i)
    PROVE  Inv'
<1> DEFINE o == mem.items[a][i]
           m == Incref(mem, o)
           h == Gain(held, o)
<1>1. a \in Owned /\ i \in DOMAIN mem.items[a] /\ Call(m, h) /\ ~ mem.undefined
  BY DEF ArrayGet, Call
<1>2. MemoryOK(mem) /\ held \in [Mortal -> Nat] /\ Immortal \subseteq Object
      /\ \A b \in Object : Len(mem.items[b]) <= MaxItems
  BY MemoryAssumption DEF Inv, TypeOK
<1>3. o \in InUse(mem) \cup Immortal /\ o \in Object
  <2>1. o \in InUse(mem) \cup Immortal
    BY <1>1, OwnedInUse
  <2>2. QED
    BY <1>2, <2>1 DEF InUse, Mortal
<1> HIDE DEF o
<1>4. /\ MemoryOK(m) /\ m.items = mem.items
      /\ \A p \in Mortal : Balance(m, p) = Balance(mem, p) + One(o = p)
  BY <1>2, <1>3, IncrefBalance
<1>5. h \in [Mortal -> Nat] /\ \A p \in Mortal : h[p] = held[p] + One(o = p)
  BY <1>2, GainType
<1> HIDE DEF m, h
<1>6. ASSUME NEW p \in Mortal PROVE Balance(m, p) - Balance(mem, p) = h[p] - held[p]
  <2>1. Balance(mem, p) \in Int /\ held[p] \in Nat /\ One(o = p) \in Nat
    BY <1>2, BalanceType DEF One
  <2>2. Balance(m, p) = Balance(mem, p) + One(o = p) /\ h[p] = held[p] + One(o = p)
    BY <1>4, <1>5
  <2>3. QED
    BY <2>1, <2>2
<1>7. QED
  BY <1>1, <1>2, <1>4, <1>5, <1>6, CallKeepsInv

(* The elements are released while the array still holds them.  The client  *)
(* holds the array, which is therefore not released on the way.             *)
LEMMA ArrayFreeKeepsInv ==
    ASSUME Inv, NEW a \in Object, ArrayFree(a)
    PROVE  Inv'
<1> DEFINE s == mem.items[a]
           d == DecrefAll(mem, s)
           empty == <<>>
           null == "null"
           m == [d EXCEPT !.items[a] = empty, !.buffer[a] = null]
<1>1. a \in Owned /\ Call(m, held) /\ ~ mem.undefined /\ Kind[a] = "array"
  BY DEF ArrayFree, Call
<1>2. MemoryOK(mem) /\ held \in [Mortal -> Nat] /\ mem.items \in [Object -> Seq(Object)]
      /\ \A b \in Object : Len(mem.items[b]) <= MaxItems
  BY DEF Inv, TypeOK, MemoryOK, Memories
<1>3. a \notin Immortal
  BY <1>1, MemoryAssumption
<1>4. a \in InUse(mem) /\ a \in Mortal /\ held[a] >= 1
  BY <1>1, <1>3, OwnedInUse DEF InUse
<1>5. s \in Seq(Object) /\ IsFiniteSet(DOMAIN s)
  BY <1>2, SeqFinite
<1>6. \A p \in Mortal : /\ Balance(mem, p) >= held[p] /\ held[p] \in Nat
                        /\ Balance(mem, p) \in Int /\ Occurrences(s, p) \in Nat
  BY <1>1, <1>5, BalanceHeld, OccurrencesType
<1>7. /\ a \in InUse(d)
      /\ \A p \in Mortal : Balance(d, p) = Balance(mem, p) - Occurrences(s, p)
  <2>1. ASSUME NEW p \in Mortal
        PROVE  Balance(mem, p) + Occurrences(mem.items[a], p) >= Occurrences(s, p) + One(p = a)
    <3>1. Balance(mem, p) >= One(p = a) /\ One(p = a) \in Nat
      BY <1>4, <1>6 DEF One
    <3>2. Occurrences(mem.items[a], p) = Occurrences(s, p)
      OBVIOUS
    <3> HIDE DEF s
    <3>3. QED
      BY <1>6, <3>1, <3>2
  <2>2. QED
    BY <1>2, <1>4, <1>5, <2>1, HeldBalance
<1>8. MemoryOK(d) /\ d.items = mem.items
  BY <1>2, <1>5, DecrefAllShape
<1>9. Rewritten(d, m, a, empty)
  <2>1. d \in Memories /\ a \in Object
    BY <1>4, <1>8 DEF MemoryOK, Mortal
  <2>2. empty \in Seq(Object) /\ null \in Buffer
    BY DEF Buffer
  <2>3. null = "null" => empty = <<>>
    OBVIOUS
  <2> HIDE DEF d, empty, null
  <2>4. QED
    BY <2>1, <2>2, <2>3, RewriteShape
<1>10. \A p \in Mortal : Occurrences(empty, p) = 0
  BY OccurrencesNone
<1>11. empty \in Seq(Object) /\ \A i \in DOMAIN empty : empty[i] \in d.used \cup Immortal
  OBVIOUS
<1>12. Len(empty) <= MaxItems
  BY HeapAssumption
<1> HIDE DEF d, empty, null, m
<1>13. /\ MemoryOK(m)
       /\ \A p \in Mortal : Balance(m, p) = Balance(d, p) + Occurrences(d.items[a], p)
                                             - Occurrences(empty, p)
  BY <1>1, <1>7, <1>8, <1>9, <1>11, RewrittenBalance
<1>14. ASSUME NEW p \in Mortal PROVE Balance(m, p) - Balance(mem, p) = held[p] - held[p]
  <2>1. d.items[a] = s
    BY <1>8
  <2>2. Balance(m, p) = Balance(d, p) + Occurrences(s, p) - Occurrences(empty, p)
    BY <1>13, <2>1
  <2>3. Balance(d, p) = Balance(mem, p) - Occurrences(s, p) /\ Occurrences(empty, p) = 0
    BY <1>7, <1>10
  <2> HIDE DEF s
  <2>4. QED
    BY <1>6, <2>2, <2>3
<1>15. ASSUME NEW b \in Object PROVE Len(m.items[b]) <= MaxItems
  <2>1. m.items = [mem.items EXCEPT ![a] = empty]
    BY <1>8, <1>9 DEF Rewritten
  <2>2. m.items[b] = empty \/ m.items[b] = mem.items[b]
    BY <1>2, <2>1
  <2>3. QED
    BY <1>2, <1>12, <2>2
<1>16. QED
  BY <1>1, <1>2, <1>13, <1>14, <1>15, CallKeepsInv

(* A collection keeps everything that the client can reach, and as many     *)
(* references as it had: the count of an element of a freed array stays.    *)
LEMMA CollectKeepsInv ==
    ASSUME Inv, Collect
    PROVE  Inv'
<1> DEFINE m == Sweep(mem, Owned)
           marked == ReachableFrom(Owned, Edges(mem))
           freed == InUse(mem) \ InUse(m)
           elements == UNION {Range(mem.items[a]) : a \in freed}
<1>1. /\ ~ mem.undefined /\ mem' = m /\ held' = held
      /\ leaked' = (leaked \cup elements) \cap InUse(m)
  BY DEF Collect
<1>2. MemoryOK(mem) /\ held \in [Mortal -> Nat]
      /\ \A b \in Object : Len(mem.items[b]) <= MaxItems
  BY DEF Inv, TypeOK
<1>3. Owned \in SUBSET Object
  BY MemoryAssumption DEF Owned, Mortal
<1>4. /\ MemoryOK(m) /\ InUse(m) = InUse(mem) \cap marked
      /\ \A o \in Object : m.items[o] = mem.items[o] \/ m.items[o] = <<>>
      /\ \A o \in Mortal \ marked : Balance(m, o) = 0 /\ m.rc[o] = 0
      /\ \A o \in Mortal \cap marked :
            IF \E a \in freed : o \in Range(mem.items[a])
            THEN Balance(m, o) > Balance(mem, o)
            ELSE Balance(m, o) = Balance(mem, o)
  BY <1>2, <1>3, SweepBalance
<1>5. Owned \subseteq marked
  BY <1>2, <1>3, EdgesType, ReachableClosed DEF Closed
<1>6. \A o \in Mortal : /\ Balance(mem, o) \in Int /\ Balance(m, o) \in Int /\ held[o] \in Nat
                        /\ Balance(mem, o) >= held[o]
                        /\ o \in leaked <=> Balance(mem, o) > held[o]
                        /\ o \notin leaked <=> Balance(mem, o) = held[o]
  BY <1>1, <1>2, <1>4, BalanceType DEF Inv, Balanced
<1> HIDE DEF m, marked
<1>7. \A o : o \in elements <=> \E a \in freed : o \in Range(mem.items[a])
  OBVIOUS
<1>8. ASSUME NEW o \in Mortal, o \in elements
      PROVE  o \in InUse(mem)
  <2>1. PICK a \in freed : o \in Range(mem.items[a])
    BY <1>8
  <2>2. PICK i \in DOMAIN mem.items[a] : mem.items[a][i] = o
    BY <2>1 DEF Range
  <2>3. Balance(mem, o) >= 0
    BY <1>6
  <2>4. a \in InUse(mem)
    BY <2>1
  <2>5. mem.items[a][i] \in InUse(mem) \cup Immortal
    BY <1>2, <2>2, <2>3, <2>4, ItemsInUse
  <2>6. QED
    BY <2>2, <2>5 DEF Mortal
<1> HIDE DEF freed, elements
<1>9. ASSUME NEW o \in Mortal
      PROVE  IF o \in leaked' THEN Balance(m, o) > held[o] ELSE Balance(m, o) = held[o]
  <2>1. CASE o \notin marked
    <3>1. ~ held[o] > 0
      BY <1>5, <2>1 DEF Owned
    <3>2. Balance(m, o) = 0 /\ o \notin leaked'
      BY <1>1, <1>4, <2>1 DEF InUse
    <3>3. QED
      BY <1>6, <3>1, <3>2
  <2>2. CASE o \in marked /\ o \in elements
    <3>1. Balance(m, o) > Balance(mem, o)
      BY <1>4, <1>7, <2>2
    <3>2. o \in leaked'
      BY <1>1, <1>4, <1>8, <2>2
    <3>3. QED
      BY <1>6, <3>1, <3>2
  <2>3. CASE o \in marked /\ o \notin elements
    <3>1. Balance(m, o) = Balance(mem, o)
      BY <1>4, <1>7, <2>3
    <3>2. o \in leaked => o \in InUse(mem)
      <4>1. o \in leaked => Balance(mem, o) >= 1
        BY <1>6
      <4>2. QED
        BY <1>2, <4>1, BalanceInUse
    <3>3. o \in leaked' <=> o \in leaked
      BY <1>1, <1>4, <2>3, <3>2
    <3>4. QED
      BY <1>6, <3>1, <3>3
  <2>4. QED
    BY <2>1, <2>2, <2>3
<1>10. Balanced'
  BY <1>1, <1>9 DEF Balanced
<1>11. TypeOK'
  <2>1. Len(<<>>) <= MaxItems
    BY HeapAssumption
  <2>2. \A o \in Object : Len(m.items[o]) <= MaxItems
    BY <1>2, <1>4, <2>1
  <2>3. InUse(m) \subseteq Mortal
    BY DEF InUse
  <2>4. QED
    BY <1>1, <1>2, <1>4, <2>2, <2>3 DEF TypeOK
<1>12. QED
  BY <1>10, <1>11 DEF Inv

-----------------------------------------------------------------------------
(* The invariant and what follows from it.                                 *)

(* Every call of the interface, and every collection, keeps the invariant. *)
LEMMA NextInv == Inv /\ [Next]_vars => Inv'
<1> SUFFICES ASSUME Inv, [Next]_vars PROVE Inv'
  OBVIOUS
<1>1. CASE \E kind \in DOMAIN Pool \ {"array"} : New(kind)
  BY <1>1, AllocKeepsInv
<1>2. CASE \E size \in 0 .. MaxItems : NewArray(size)
  BY <1>2, AllocKeepsInv
<1>3. CASE NewFloatFromBf
  BY <1>3, AllocKeepsInv
<1>4. CASE \E o \in Object : Retain(o)
  BY <1>4, RetainKeepsInv
<1>5. CASE \E o \in Object : Release(o)
  BY <1>5, ReleaseKeepsInv
<1>6. CASE \E o \in Object : ArrayFree(o)
  BY <1>6, ArrayFreeKeepsInv
<1>7. CASE \E a, o \in Object : ArrayAppend(a, o)
  BY <1>7, ArrayAppendKeepsInv
<1>8. CASE \E a, o \in Object : \E i \in 1 .. MaxItems : ArraySet(a, i, o)
  BY <1>8, ArraySetKeepsInv
<1>9. CASE \E a \in Object, i \in 1 .. MaxItems : ArrayGet(a, i)
  BY <1>9, ArrayGetKeepsInv
<1>10. CASE Collect
  BY <1>10, CollectKeepsInv
<1>11. CASE UNCHANGED vars
  BY <1>11 DEF vars, Inv, TypeOK, Balanced
<1>12. QED
  BY <1>1, <1>2, <1>3, <1>4, <1>5, <1>6, <1>7, <1>8, <1>9, <1>10, <1>11 DEF Next

(* Whatever a client that keeps count of its references calls, in whatever
   order, each count is what the client holds and what the arrays in use
   hold, or more for what was an element of an array that a collection freed
   without releasing its elements (gc.c:275). *)
THEOREM Invariance == Spec => []Inv
<1>1. Init => Inv
  BY InitInv
<1>2. Inv /\ [Next]_vars => Inv'
  BY NextInv
<1>3. QED
  BY <1>1, <1>2, PTL DEF Spec

(* Every operation leaves a memory of the right shape: counts are not        *)
(* negative, only slots that were given out are referred to, only arrays    *)
(* have elements, and no free slot owns a buffer.                           *)
THEOREM TypeCorrect == Spec => []TypeOK
<1>1. Inv => TypeOK
  BY DEF Inv
<1>2. QED
  BY <1>1, Invariance, PTL

(* The ref_count of an object is never less than the references that the     *)
(* client and the arrays in use hold: object_decref frees nothing that is   *)
(* still referred to.                                                       *)
THEOREM NothingFreedEarly == Spec => []CountsCover
<1>1. Inv => CountsCover
  <2> SUFFICES ASSUME Inv, ~ mem.undefined, NEW o \in Mortal
               PROVE  mem.rc[o] >= held[o] + ItemRefs(mem, o)
    BY DEF CountsCover
  <2>1. Balance(mem, o) >= held[o]
    BY BalanceHeld
  <2>2. /\ mem.rc[o] \in Nat /\ ItemRefs(mem, o) \in Nat /\ held[o] \in Nat
        /\ Balance(mem, o) \in Int /\ mem.rc[o] = Balance(mem, o) + ItemRefs(mem, o)
    BY BalanceType DEF Inv, TypeOK
  <2>3. QED
    BY <2>1, <2>2
<1>2. QED
  BY <1>1, Invariance, PTL

(* The ref_count of an object in use that was an element of an array when a  *)
(* collection freed it (gc.c:275 releases none) is more than the number of  *)
(* those references, and that of any other object is exactly the number:    *)
(* what nobody refers to is free at once.                                   *)
THEOREM CountsAreExact == Spec => []CountsExact
<1>1. Inv => CountsExact
  <2> SUFFICES ASSUME Inv, ~ mem.undefined, NEW o \in Mortal
               PROVE  mem.rc[o] = held[o] + ItemRefs(mem, o) <=> o \notin leaked
    BY DEF CountsExact
  <2>1. IF o \in leaked THEN Balance(mem, o) > held[o] ELSE Balance(mem, o) = held[o]
    BY DEF Inv, Balanced
  <2>2. /\ mem.rc[o] \in Nat /\ ItemRefs(mem, o) \in Nat /\ held[o] \in Nat
        /\ Balance(mem, o) \in Int /\ mem.rc[o] = Balance(mem, o) + ItemRefs(mem, o)
    BY BalanceType DEF Inv, TypeOK
  <2>3. QED
    BY <2>1, <2>2
<1>2. QED
  BY <1>1, Invariance, PTL

-----------------------------------------------------------------------------
(* What counting cannot free.                                              *)

(* What is reachable from something reachable is reachable. *)
LEMMA ReachableStep ==
    ASSUME NEW E \in [Object -> SUBSET Object], NEW R \in SUBSET Object,
           NEW S \in SUBSET Object, S \subseteq ReachableFrom(R, E)
    PROVE  ReachableFrom(S, E) \subseteq ReachableFrom(R, E)
<1> DEFINE T == ReachableFrom(R, E)
<1>1. T \in SUBSET Object /\ Closed(R, E, T)
  BY ReachableClosed
<1>2. Closed(S, E, T)
  BY <1>1 DEF Closed
<1> HIDE DEF T
<1>3. ReachableFrom(S, E) \subseteq T
  BY <1>1, <1>2, ReachableLeast
<1>4. QED
  BY <1>3 DEF T

(* In a finite graph whose nodes in G all have a predecessor in G, every     *)
(* node of G lies on a cycle or behind one.                                 *)
LEMMA CycleBehind ==
    ASSUME NEW E \in [Object -> SUBSET Object], NEW G \in SUBSET Object,
           \A p \in G : \E q \in G : p \in E[q],
           NEW o \in G
    PROVE  \E q \in G : q \in ReachableFrom(E[q], E) /\ o \in ReachableFrom({q}, E)
<1> DEFINE Anc(p) == {q \in G : p \in ReachableFrom({q}, E)}
           A == Anc(o)
           Sizes == {Cardinality(Anc(p)) : p \in A}
           Less == OpToRel(<, Nat)
<1>1. ASSUME NEW p \in G
      PROVE  /\ p \in ReachableFrom({p}, E) /\ p \in Anc(p)
             /\ IsFiniteSet(Anc(p)) /\ Cardinality(Anc(p)) \in Nat
  <2>1. p \in ReachableFrom({p}, E)
    BY ReachableClosed DEF Closed
  <2>2. IsFiniteSet(Object)
    BY MemoryAssumption
  <2>3. IsFiniteSet(Anc(p))
    BY <2>2, FS_Subset
  <2>4. QED
    BY <2>1, <2>3, FS_CardinalityType
<1>2. ASSUME NEW p \in G, NEW q \in G, q \in Anc(p)
      PROVE  Anc(q) \subseteq Anc(p)
  <2> SUFFICES ASSUME NEW r \in Anc(q) PROVE p \in ReachableFrom({r}, E)
    OBVIOUS
  <2>1. q \in ReachableFrom({r}, E) /\ p \in ReachableFrom({q}, E) /\ r \in G
    BY <1>2
  <2>2. {q} \subseteq ReachableFrom({r}, E) /\ {q} \in SUBSET Object /\ {r} \in SUBSET Object
    BY <2>1
  <2>3. ReachableFrom({q}, E) \subseteq ReachableFrom({r}, E)
    BY <2>2, ReachableStep
  <2>4. QED
    BY <2>1, <2>3
<1>3. PICK p \in A : \A q \in A : Cardinality(Anc(p)) <= Cardinality(Anc(q))
  <2>1. Sizes \in SUBSET Nat /\ Sizes # {}
    <3>1. o \in A /\ A \subseteq G
      BY <1>1
    <3>2. \A p \in G : Cardinality(Anc(p)) \in Nat
      BY <1>1
    <3>3. QED
      <4> HIDE DEF Anc, A
      <4>1. QED
        BY <3>1, <3>2
  <2>2. PICK k \in Sizes : \A j \in Sizes : <<j, k>> \notin Less
    <3>1. IsWellFoundedOn(Less, Nat)
      BY NatLessThanWellFounded
    <3> HIDE DEF Less, Sizes
    <3>2. QED
      BY <2>1, <3>1, WFMin
  <2>3. ASSUME NEW j \in Sizes PROVE k <= j
    <3>1. j \in Nat /\ k \in Nat
      BY <2>1
    <3>2. ~ j < k
      BY <2>2, <3>1 DEF OpToRel
    <3> HIDE DEF Less, Sizes
    <3>3. QED
      BY <3>1, <3>2
  <2>4. PICK p \in A : k = Cardinality(Anc(p))
    BY <2>2
  <2>5. ASSUME NEW q \in A PROVE Cardinality(Anc(p)) <= Cardinality(Anc(q))
    <3>1. Cardinality(Anc(q)) \in Sizes
      <4> HIDE DEF Anc, A
      <4>1. QED
        BY <2>5
    <3>2. k <= Cardinality(Anc(q))
      BY <2>3, <3>1
    <3> HIDE DEF Anc, A, Sizes
    <3>3. QED
      BY <2>4, <3>2
  <2>6. QED
    BY <2>4, <2>5
<1>4. p \in G
  OBVIOUS
<1>5. PICK q \in G : p \in E[q]
  BY <1>4
<1>6. {p} \subseteq ReachableFrom({q}, E) /\ E[q] \in SUBSET Object
  <2>1. Closed({q}, E, ReachableFrom({q}, E))
    BY ReachableClosed
  <2>2. QED
    BY <1>5, <2>1 DEF Closed
<1>7. q \in Anc(p)
  BY <1>6
<1>8. Anc(q) \subseteq Anc(p) /\ q \in A
  <2>1. Anc(p) \subseteq Anc(o)
    BY <1>2
  <2>2. QED
    BY <1>2, <1>4, <1>7, <2>1
<1>9. Anc(q) = Anc(p)
  <2>1. IsFiniteSet(Anc(p)) /\ Cardinality(Anc(p)) \in Nat /\ Cardinality(Anc(q)) \in Nat
    BY <1>1, <1>4
  <2>2. Cardinality(Anc(p)) <= Cardinality(Anc(q))
    BY <1>3, <1>8
  <2>3. Anc(q) \in SUBSET Anc(p)
    BY <1>8
  <2> HIDE DEF Anc
  <2>4. Cardinality(Anc(q)) <= Cardinality(Anc(p))
        /\ (Cardinality(Anc(p)) = Cardinality(Anc(q)) => Anc(p) = Anc(q))
    BY <2>1, <2>3, FS_Subset
  <2>5. QED
    BY <2>1, <2>2, <2>4
<1>10. q \in ReachableFrom({p}, E)
  <2>1. p \in Anc(q)
    BY <1>1, <1>4, <1>9
  <2>2. QED
    BY <2>1
<1>11. q \in ReachableFrom(E[q], E)
  <2>1. {p} \subseteq ReachableFrom(E[q], E)
    BY <1>5, <1>6, ReachableClosed DEF Closed
  <2>2. ReachableFrom({p}, E) \subseteq ReachableFrom(E[q], E)
    BY <1>6, <2>1, ReachableStep
  <2>3. QED
    BY <1>10, <2>2
<1>12. QED
  BY <1>8, <1>11

(* An object in use that the client does not own, with an exact count, is   *)
(* an element of an array in use.                                           *)
LEMMA HeldByArray ==
    ASSUME Inv, ~ mem.undefined, NEW o \in InUse(mem), o \notin Owned, o \notin leaked
    PROVE  \E a \in InUse(mem) : o \in Edges(mem)[a]
<1>1. MemoryOK(mem) /\ o \in Mortal
  BY DEF Inv, TypeOK, InUse
<1>2. ItemRefs(mem, o) # 0
  <2>1. Balance(mem, o) = held[o] /\ held[o] \in Nat
    BY <1>1 DEF Inv, Balanced, TypeOK
  <2>2. ~ held[o] > 0 /\ mem.rc[o] > 0
    BY <1>1 DEF Owned, InUse
  <2>3. /\ mem.rc[o] \in Nat /\ ItemRefs(mem, o) \in Nat
        /\ mem.rc[o] = Balance(mem, o) + ItemRefs(mem, o)
    BY <1>1, BalanceType
  <2>4. QED
    BY <2>1, <2>2, <2>3
<1> DEFINE F == On(mem.items, InUse(mem))
<1>3. Count(F, o) # 0 /\ Finite(F)
  BY <1>1, <1>2, ItemRefsOn, ItemsFinite
<1>4. DOMAIN F = InUse(mem) /\ \A a \in InUse(mem) : F[a] = mem.items[a]
  BY DEF On
<1>5. \E a \in DOMAIN F : \E i \in DOMAIN F[a] : F[a][i] = o
  <2> HIDE DEF F
  <2>1. QED
    BY <1>3, CountZero
<1>6. PICK a \in InUse(mem) : \E i \in DOMAIN mem.items[a] : mem.items[a][i] = o
  <2> HIDE DEF F
  <2>1. QED
    BY <1>4, <1>5
<1>7. o \in Range(mem.items[a])
  BY <1>6 DEF Range
<1>8. a \in Object
  BY DEF InUse, Mortal
<1>9. QED
  BY <1>7, <1>8 DEF Edges

(* All that counting leaves behind is an object on a cycle of arrays, an     *)
(* element of an array that a collection freed (gc.c:275), or what lies     *)
(* behind one of the two.                                                   *)
THEOREM OnlyCyclesLeft == Spec => []GarbageIsCyclic
<1>1. Inv => GarbageIsCyclic
  <2> DEFINE E == Edges(mem)
             live == ReachableFrom(Owned, E)
             G == InUse(mem) \ live
  <2> SUFFICES ASSUME Inv, ~ mem.undefined, NEW o \in G
               PROVE  \E a \in InUse(mem) : /\ OnCycle(a) \/ a \in leaked
                                            /\ o \in ReachableFrom({a}, E)
    BY DEF GarbageIsCyclic
  <2>1. E \in [Object -> SUBSET Object] /\ MemoryOK(mem)
    BY EdgesType DEF Inv, TypeOK
  <2>2. Owned \in SUBSET Object /\ InUse(mem) \in SUBSET Object /\ G \in SUBSET Object
    BY MemoryAssumption DEF Owned, InUse, Mortal
  <2>3. Closed(Owned, E, live)
    BY <2>1, <2>2, ReachableClosed
  <2> DEFINE Anc == {q \in G : o \in ReachableFrom({q}, E)}
  <2>4. CASE \E q \in Anc : q \in leaked
    BY <2>4
  <2>5. CASE \A q \in Anc : q \notin leaked
    <3>1. ASSUME NEW p \in Anc PROVE \E q \in Anc : p \in E[q]
      <4>1. p \notin Owned /\ p \in InUse(mem) /\ p \notin leaked
        BY <2>3, <2>5 DEF Closed
      <4>2. PICK a \in InUse(mem) : p \in E[a]
        BY <4>1, HeldByArray
      <4>3. a \notin live
        BY <2>3, <4>2 DEF Closed
      <4>4. {a} \in SUBSET Object /\ {p} \in SUBSET Object
        BY <2>2
      <4>5. {p} \subseteq ReachableFrom({a}, E)
        BY <2>1, <4>2, <4>4, ReachableClosed DEF Closed
      <4>6. ReachableFrom({p}, E) \subseteq ReachableFrom({a}, E)
        BY <2>1, <4>4, <4>5, ReachableStep
      <4>7. QED
        BY <4>2, <4>3, <4>6
    <3>2. o \in Anc
      BY <2>1, <2>2, ReachableClosed DEF Closed
    <3>3. PICK q \in Anc : q \in ReachableFrom(E[q], E) /\ o \in ReachableFrom({q}, E)
      <4>1. Anc \in SUBSET Object
        BY <2>2
      <4> HIDE DEF E, G, Anc
      <4>2. QED
        BY <2>1, <3>1, <3>2, <4>1, CycleBehind
    <3>4. E[q] = Range(mem.items[q])
      BY <2>2 DEF Edges
    <3>5. QED
      BY <3>3, <3>4 DEF OnCycle
  <2>6. QED
    BY <2>4, <2>5
<1>2. QED
  BY <1>1, Invariance, PTL
=============================================================================
