------------------------------ MODULE VM_proofs ------------------------------
(***************************************************************************)
(* Proofs about the stack machine of module VM, for every number of        *)
(* objects, globals, locals, operands and activations: what its           *)
(* instructions do to the counts of the objects they move.                 *)
(*                                                                         *)
(* A ledger is a function from mortal objects to the references that are   *)
(* held outside the arrays.  An instruction is a sequence of calls of the  *)
(* memory's operations, and each call changes the ledger by what it counts *)
(* or releases; at the end of the instruction the ledger has to cover what *)
(* the frames and the globals hold.                                        *)
(***************************************************************************)
EXTENDS VM, Memory_proofs

-----------------------------------------------------------------------------
(* Ledgers.                                                                *)

Ledgers == [Mortal -> Int]

(* No object points to a buffer that has been freed, and a function owns    *)
(* none.                                                                    *)
Clean(m) ==
    \A o \in Mortal : m.buffer[o] # "freed" /\ (Kind[o] = "function" => m.buffer[o] = "null")

(* The memory has the right shape.  If t = "counts", the counts cover the    *)
(* ledger and the references in arrays, and every object in use but a       *)
(* function is counted once more; so only functions are ever released, and  *)
(* the buffers are clean.                                                   *)
Covers(m, L, t) ==
    /\ MemoryOK(m)
    /\ t = "counts" =>
          \A o \in Mortal : /\ Balance(m, o) >= L[o]
                            /\ o \in InUse(m) /\ Kind[o] # "function" => Balance(m, o) > L[o]
    /\ t = "counts" => Clean(m)

(* An object that may be counted. *)
Usable(m, o, t) ==
    /\ o \in m.used \cup Immortal
    /\ t = "counts" => o \in InUse(m) \cup Immortal \/ Kind[o] = "function"

(* What may be counted in m may be counted in n. *)
Keeps(m, n, t) == \A o \in Object : Usable(m, o, t) => Usable(n, o, t)

(* A function has no elements. *)
LEMMA UsableItems ==
    ASSUME NEW m, MemoryOK(m), NEW t, t = "counts", NEW o, Usable(m, o, t)
    PROVE  /\ o \in Object
           /\ o \in InUse(m) \cup Immortal \/ (o \in m.used /\ m.items[o] = <<>>)
<1>1. o \in Object
  BY MemoryAssumption DEF Usable, MemoryOK, Memories, Mortal
<1>2. Kind[o] = "function" => m.items[o] = <<>>
  BY <1>1 DEF MemoryOK
<1>3. QED
  BY <1>1, <1>2 DEF Usable

(* What the ledger owes is in use. *)
LEMMA OwedUsable ==
    ASSUME NEW m, NEW L \in Ledgers, NEW t, Covers(m, L, t),
           NEW o \in m.used \cup Immortal, o \in Mortal => L[o] >= 1
    PROVE  Usable(m, o, t) /\ (t = "counts" => o \in InUse(m) \cup Immortal)
<1>1. CASE t = "counts" /\ o \in Mortal
  <2>1. Balance(m, o) >= L[o] /\ Balance(m, o) \in Int /\ L[o] \in Int /\ MemoryOK(m)
    BY <1>1, BalanceType DEF Covers, Ledgers
  <2>2. Balance(m, o) >= 1
    BY <1>1, <2>1
  <2>3. o \in InUse(m)
    BY <1>1, <2>1, <2>2, BalanceInUse
  <2>4. QED
    BY <2>3 DEF Usable
<1>2. CASE t # "counts"
  BY <1>2 DEF Usable
<1>3. CASE o \notin Mortal
  <2>1. o \in Immortal
    BY <1>3 DEF Mortal, Covers, MemoryOK, Memories
  <2>2. QED
    BY <2>1 DEF Usable
<1>4. QED
  BY <1>1, <1>2, <1>3

(* The elements of an array in use are in use. *)
LEMMA ElementUsable ==
    ASSUME NEW m, NEW L \in Ledgers, NEW t, Covers(m, L, t), NEW a \in Object,
           t = "counts" => a \in InUse(m) \cup Immortal,
           NEW i \in DOMAIN m.items[a],
           m.items[a][i] \in Mortal => L[m.items[a][i]] >= 0
    PROVE  /\ m.items[a][i] \in Object
           /\ m.items[a][i] \in m.used \cup Immortal
           /\ Usable(m, m.items[a][i], t)
           /\ t = "counts" => m.items[a][i] \in InUse(m) \cup Immortal
<1> DEFINE o == m.items[a][i]
<1>1. MemoryOK(m) /\ m.items[a] \in Seq(Object) /\ Range(m.items[a]) \subseteq m.used \cup Immortal
  BY DEF Covers, MemoryOK, Memories
<1>2. o \in Object /\ o \in m.used \cup Immortal
  BY <1>1 DEF Range
<1>3. ASSUME t = "counts" PROVE o \in InUse(m) \cup Immortal
  <2>1. a \in InUse(m)
    <3>1. a \notin Immortal
      <4>1. m.items[a] # <<>>
        OBVIOUS
      <4>2. QED
        BY <1>1, <4>1, MemoryAssumption DEF MemoryOK
    <3>2. QED
      BY <1>3, <3>1
  <2>2. o \in Mortal => Balance(m, o) >= 0
    <3> SUFFICES ASSUME o \in Mortal PROVE Balance(m, o) >= 0
      OBVIOUS
    <3>1. Balance(m, o) >= L[o] /\ L[o] >= 0
      BY <1>3 DEF Covers
    <3>2. Balance(m, o) \in Int /\ L[o] \in Int
      BY <1>1, BalanceType DEF Ledgers
    <3> HIDE DEF o
    <3>3. QED
      BY <3>1, <3>2
  <2>3. QED
    BY <1>1, <2>1, <2>2, ItemsInUse
<1>4. QED
  BY <1>2, <1>3 DEF Usable

(* A ledger that owes less is covered too. *)
LEMMA CoversLess ==
    ASSUME NEW m, NEW L \in Ledgers, NEW t, Covers(m, L, t),
           NEW K \in Ledgers, \A o \in Mortal : K[o] <= L[o]
    PROVE  Covers(m, K, t)
<1>1. ASSUME t = "counts", NEW o \in Mortal
      PROVE  /\ Balance(m, o) >= K[o]
             /\ o \in InUse(m) /\ Kind[o] # "function" => Balance(m, o) > K[o]
  <2>1. /\ Balance(m, o) >= L[o] /\ K[o] <= L[o]
        /\ o \in InUse(m) /\ Kind[o] # "function" => Balance(m, o) > L[o]
    BY <1>1 DEF Covers
  <2>2. K[o] \in Int /\ L[o] \in Int /\ Balance(m, o) \in Int
    BY BalanceType DEF Ledgers, Covers
  <2>3. QED
    BY <2>1, <2>2
<1>2. QED
  BY <1>1 DEF Covers

-----------------------------------------------------------------------------
(* What the operations of the memory do to a ledger.                       *)

(* object_decref of the objects of a sequence, which the ledger owes. *)
LEMMA ReleaseAll ==
    ASSUME NEW m, NEW L \in Ledgers, NEW t, Covers(m, L, t), NEW s \in Seq(Object),
           \A o \in Mortal : L[o] >= Occurrences(s, o),
           NEW K \in Ledgers, \A o \in Mortal : K[o] <= L[o] - Occurrences(s, o)
    PROVE  /\ Covers(DecrefAll(m, s), K, t)
           /\ DecrefAll(m, s).items = m.items
           /\ DecrefAll(m, s).used = m.used
           /\ \A o \in Object : m.buffer[o] # "null" => DecrefAll(m, s).buffer[o] # "null"
           /\ (\A o \in Mortal : K[o] >= 0) => Keeps(m, DecrefAll(m, s), t)
<1> DEFINE n == DecrefAll(m, s)
<1>1. MemoryOK(m) /\ IsFiniteSet(DOMAIN s)
  BY SeqFinite DEF Covers
<1>2. /\ n.items = m.items /\ n.used = m.used /\ MemoryOK(n) /\ InUse(n) \subseteq InUse(m)
      /\ \A o \in Object : m.buffer[o] # "null" => n.buffer[o] # "null"
      /\ \A o \in Object : o \notin Released(m, s) \/ m.buffer[o] = "null"
                             => n.buffer[o] = m.buffer[o]
      /\ InUse(n) = InUse(m) \ Released(m, s)
  BY <1>1, DecrefAllShape
<1>3. \A o \in Mortal : /\ Occurrences(s, o) \in Nat /\ L[o] \in Int /\ K[o] \in Int
                        /\ Balance(m, o) \in Int
  BY <1>1, OccurrencesType, BalanceType DEF Ledgers
<1> HIDE DEF n
<1>4. ASSUME t = "counts", NEW o \in Mortal
      PROVE  /\ Balance(n, o) >= K[o]
             /\ o \in InUse(m) /\ Kind[o] # "function" => Balance(n, o) > K[o]
  <2>1. \A p \in Mortal : Balance(m, p) >= Occurrences(s, p)
    <3> SUFFICES ASSUME NEW p \in Mortal PROVE Balance(m, p) >= Occurrences(s, p)
      OBVIOUS
    <3>1. Balance(m, p) >= L[p] /\ L[p] >= Occurrences(s, p)
      BY <1>4 DEF Covers
    <3>2. /\ Occurrences(s, p) \in Nat /\ L[p] \in Int /\ Balance(m, p) \in Int
      BY <1>3
    <3>3. QED
      BY <3>1, <3>2
  <2>2. Balance(n, o) = Balance(m, o) - Occurrences(s, o)
    BY <1>1, <2>1, DecrefAllBalance DEF n
  <2>3. /\ Balance(m, o) >= L[o]
        /\ o \in InUse(m) /\ Kind[o] # "function" => Balance(m, o) > L[o]
    BY <1>4 DEF Covers
  <2>4. K[o] <= L[o] - Occurrences(s, o)
    OBVIOUS
  <2>5. /\ Occurrences(s, o) \in Nat /\ L[o] \in Int /\ K[o] \in Int /\ Balance(m, o) \in Int
    BY <1>3
  <2>6. QED
    BY <2>2, <2>3, <2>4, <2>5
<1>5. Covers(n, K, t)
  <2>1. ASSUME t = "counts", NEW o \in Mortal
        PROVE  n.buffer[o] # "freed" /\ (Kind[o] = "function" => n.buffer[o] = "null")
    <3>1. m.buffer[o] # "freed" /\ (Kind[o] = "function" => m.buffer[o] = "null") /\ o \in Object
      BY <2>1 DEF Covers, Clean, Mortal
    <3>2. CASE Kind[o] = "function"
      BY <1>2, <3>1, <3>2
    <3>3. CASE Kind[o] # "function"
      <4>1. o \in InUse(m) => o \in InUse(n)
        <5> SUFFICES ASSUME o \in InUse(m) PROVE o \in InUse(n)
          OBVIOUS
        <5>1. Balance(n, o) = Balance(m, o) - Occurrences(s, o) /\ Balance(m, o) > L[o]
          <6>1. \A p \in Mortal : Balance(m, p) >= Occurrences(s, p)
            <7> SUFFICES ASSUME NEW p \in Mortal PROVE Balance(m, p) >= Occurrences(s, p)
              OBVIOUS
            <7>1. Balance(m, p) >= L[p] /\ L[p] >= Occurrences(s, p)
              BY <2>1 DEF Covers
            <7>2. QED
              BY <1>3, <7>1
          <6>2. QED
            BY <1>1, <2>1, <3>3, <6>1, DecrefAllBalance DEF n, Covers
        <5>2. L[o] >= Occurrences(s, o)
          OBVIOUS
        <5>3. Balance(n, o) >= 1
          BY <1>3, <5>1, <5>2
        <5>4. QED
          BY <1>2, <5>3, BalanceInUse
      <4>2. o \notin Released(m, s)
        BY <1>1, <1>2, <4>1, ReleasedFixed
      <4>3. QED
        BY <1>2, <3>1, <3>3, <4>2
    <3>4. QED
      BY <3>2, <3>3
  <2>2. t = "counts" => Clean(n)
    BY <2>1 DEF Clean
  <2>3. QED
    BY <1>2, <1>4, <2>2 DEF Covers
<1>6. ASSUME \A o \in Mortal : K[o] >= 0, NEW o \in Object, Usable(m, o, t)
      PROVE  Usable(n, o, t)
  <2>1. ASSUME t = "counts", o \in InUse(m), Kind[o] # "function" PROVE o \in InUse(n)
    <3>1. o \in Mortal
      BY <2>1 DEF InUse
    <3>2. Balance(n, o) > K[o]
      BY <1>4, <2>1, <3>1
    <3>3. K[o] >= 0
      BY <1>6, <3>1
    <3>4. K[o] \in Int /\ Balance(n, o) \in Int
      BY <1>2, <1>3, <3>1, BalanceType
    <3>5. Balance(n, o) >= 1
      BY <3>2, <3>3, <3>4
    <3>6. QED
      BY <1>2, <3>1, <3>5, BalanceInUse
  <2>2. QED
    BY <1>2, <1>6, <2>1 DEF Usable
<1>7. (\A o \in Mortal : K[o] >= 0) => Keeps(m, n, t)
  BY <1>6 DEF Keeps
<1>8. QED
  BY <1>2, <1>5, <1>7 DEF n

(* object_incref of the objects of a sequence. *)
LEMMA CountAll ==
    ASSUME NEW m, NEW L \in Ledgers, NEW t, Covers(m, L, t), NEW s \in Seq(Object),
           \A i \in DOMAIN s : Usable(m, s[i], t),
           NEW K \in Ledgers, \A o \in Mortal : K[o] <= L[o] + Occurrences(s, o)
    PROVE  /\ Covers(IncrefAll(m, s), K, t)
           /\ IncrefAll(m, s).items = m.items
           /\ IncrefAll(m, s).used = m.used
           /\ IncrefAll(m, s).buffer = m.buffer
           /\ Keeps(m, IncrefAll(m, s), t)
<1> DEFINE n == IncrefAll(m, s)
<1>1. MemoryOK(m) /\ IsFiniteSet(DOMAIN s) /\ \A i \in DOMAIN s : s[i] \in m.used \cup Immortal
  BY SeqFinite DEF Covers, Usable
<1>2. /\ n.items = m.items /\ n.used = m.used /\ MemoryOK(n) /\ n.buffer = m.buffer
      /\ \A o \in Mortal : n.rc[o] = m.rc[o] + Occurrences(s, o)
  BY <1>1, IncrefAllShape
<1>3. \A o \in Mortal : /\ Occurrences(s, o) \in Nat /\ L[o] \in Int /\ K[o] \in Int
                        /\ Balance(m, o) \in Int /\ m.rc[o] \in Nat
  BY <1>1, OccurrencesType, BalanceType DEF Ledgers
<1> HIDE DEF n
<1>4. ASSUME t = "counts", NEW o \in Mortal
      PROVE  /\ Balance(n, o) >= K[o]
             /\ o \in InUse(n) /\ Kind[o] # "function" => Balance(n, o) > K[o]
  <2>1. \A i \in DOMAIN s : \/ s[i] \in InUse(m) \cup Immortal
                            \/ s[i] \in m.used /\ m.items[s[i]] = <<>>
    BY <1>1, <1>4, UsableItems
  <2>2. Balance(n, o) = Balance(m, o) + Occurrences(s, o)
    BY <1>1, <2>1, IncrefAllBalance DEF n
  <2>3. o \in InUse(n) /\ Kind[o] # "function" => o \in InUse(m)
    <3> SUFFICES ASSUME o \in InUse(n), Kind[o] # "function", o \notin InUse(m) PROVE FALSE
      OBVIOUS
    <3>1. n.rc[o] > 0 /\ ~ m.rc[o] > 0
      BY DEF InUse
    <3>2. Occurrences(s, o) # 0
      BY <1>2, <1>3, <3>1
    <3>3. PICK i \in DOMAIN s : s[i] = o
      BY <1>1, <3>2, OccurrencesZero
    <3>4. o \in Immortal
      BY <1>4, <3>3 DEF Usable
    <3>5. QED
      BY <3>4 DEF Mortal
  <2>4. /\ Balance(m, o) >= L[o]
        /\ o \in InUse(n) /\ Kind[o] # "function" => Balance(m, o) > L[o]
    BY <1>4, <2>3 DEF Covers
  <2>5. K[o] <= L[o] + Occurrences(s, o)
    OBVIOUS
  <2>6. /\ Occurrences(s, o) \in Nat /\ L[o] \in Int /\ K[o] \in Int /\ Balance(m, o) \in Int
    BY <1>3
  <2>7. QED
    BY <2>2, <2>4, <2>5, <2>6
<1>5. Covers(n, K, t)
  <2>1. t = "counts" => Clean(n)
    BY <1>2 DEF Covers, Clean
  <2>2. QED
    BY <1>2, <1>4, <2>1 DEF Covers
<1>6. InUse(m) \subseteq InUse(n)
  <2> SUFFICES ASSUME NEW o \in Mortal, m.rc[o] > 0 PROVE n.rc[o] > 0
    BY DEF InUse
  <2>1. n.rc[o] = m.rc[o] + Occurrences(s, o)
    BY <1>2
  <2>2. m.rc[o] \in Nat /\ Occurrences(s, o) \in Nat
    BY <1>3
  <2>3. QED
    BY <2>1, <2>2
<1>7. Keeps(m, n, t)
  BY <1>2, <1>6 DEF Keeps, Usable
<1>8. QED
  BY <1>2, <1>5, <1>7 DEF n

(* The same for one object. *)
LEMMA ReleaseOne ==
    ASSUME NEW m, NEW L \in Ledgers, NEW t, Covers(m, L, t), NEW x \in Object,
           x \in Mortal => L[x] >= 1, \A o \in Mortal \ {x} : L[o] >= 0,
           NEW K \in Ledgers, \A o \in Mortal : K[o] <= L[o] - One(x = o)
    PROVE  /\ Covers(Decref(m, x), K, t)
           /\ Decref(m, x).items = m.items
           /\ Decref(m, x).used = m.used
           /\ (\A o \in Mortal : K[o] >= 0) => Keeps(m, Decref(m, x), t)
<1> DEFINE s == <<x>>
<1>1. s \in Seq(Object)
  OBVIOUS
<1>2. \A o \in Mortal : Occurrences(s, o) = One(x = o)
  BY OccurrencesOne
<1>3. Decref(m, x) = DecrefAll(m, s)
  BY DEF Decref
<1> HIDE DEF s
<1>4. \A o \in Mortal : L[o] >= Occurrences(s, o)
  BY <1>2 DEF One
<1>5. \A o \in Mortal : K[o] <= L[o] - Occurrences(s, o)
  BY <1>2
<1>6. /\ Covers(DecrefAll(m, s), K, t)
      /\ DecrefAll(m, s).items = m.items
      /\ DecrefAll(m, s).used = m.used
      /\ (\A o \in Mortal : K[o] >= 0) => Keeps(m, DecrefAll(m, s), t)
  BY <1>1, <1>4, <1>5, ReleaseAll
<1>7. QED
  BY <1>3, <1>6

(* Counting an object lets the ledger owe one reference to it more. *)
LEMMA CountOneMore ==
    ASSUME NEW m, NEW L \in Ledgers, NEW t, Covers(m, L, t), NEW x \in Object,
           Usable(m, x, t),
           NEW K \in Ledgers, \A o \in Mortal : K[o] <= L[o] + One(x = o)
    PROVE  /\ Covers(Incref(m, x), K, t)
           /\ Incref(m, x).items = m.items
           /\ Incref(m, x).used = m.used
           /\ Keeps(m, Incref(m, x), t)
<1> DEFINE s == <<x>>
<1>1. s \in Seq(Object) /\ \A i \in DOMAIN s : s[i] = x
  OBVIOUS
<1>2. \A o \in Mortal : Occurrences(s, o) = One(x = o)
  BY OccurrencesOne
<1>3. Incref(m, x) = IncrefAll(m, s)
  BY IncrefIsAll DEF Covers
<1> HIDE DEF s
<1>4. \A i \in DOMAIN s : Usable(m, s[i], t)
  BY <1>1
<1>5. \A o \in Mortal : K[o] <= L[o] + Occurrences(s, o)
  BY <1>2
<1>6. /\ Covers(IncrefAll(m, s), K, t)
      /\ IncrefAll(m, s).items = m.items
      /\ IncrefAll(m, s).used = m.used
      /\ Keeps(m, IncrefAll(m, s), t)
  BY <1>1, <1>4, <1>5, CountAll
<1>7. QED
  BY <1>3, <1>6

(* A new object has one reference that nothing in the ledger asks for. *)
LEMMA CoversNew ==
    ASSUME NEW m, NEW L \in Ledgers, NEW t, Covers(m, L, t), NEW n, NEW o, IsNew(m, n, o)
    PROVE  /\ Covers(n, L, t)
           /\ Usable(n, o, t)
           /\ o \in Object
           /\ t = "counts" => o \in InUse(n)
           /\ m.used \subseteq n.used
           /\ Keeps(m, n, t)
           /\ \A K \in Ledgers :
                 (\A p \in Mortal : K[p] <= L[p] + One(p = o)) /\ Kind[o] = "function"
                    => Covers(n, K, t)
<1>1. /\ o \in Mortal /\ o \notin InUse(m) /\ MemoryOK(n) /\ m.used \subseteq n.used
      /\ InUse(n) = InUse(m) \cup {o} /\ InUse(n) \subseteq n.used
      /\ \A p \in Mortal : Balance(n, p) = Balance(m, p) + One(p = o)
  BY DEF IsNew, MemoryOK
<1>2. \A p \in Mortal : Balance(m, p) \in Int /\ L[p] \in Int /\ One(p = o) \in {0, 1}
  BY BalanceType DEF Covers, Ledgers, One
<1>3. ASSUME t = "counts", NEW p \in Mortal
      PROVE  /\ Balance(n, p) >= L[p] + One(p = o)
             /\ p \in InUse(n) /\ Kind[p] # "function" => Balance(n, p) > L[p]
  <2>1. /\ Balance(m, p) >= L[p]
        /\ p \in InUse(m) /\ Kind[p] # "function" => Balance(m, p) > L[p]
    BY <1>3 DEF Covers
  <2>2. /\ Balance(n, p) = Balance(m, p) + One(p = o)
        /\ p # o => (p \in InUse(n) => p \in InUse(m))
        /\ One(o = o) = 1
    BY <1>1 DEF One
  <2>3. Balance(m, p) \in Int /\ L[p] \in Int /\ One(p = o) \in {0, 1}
    BY <1>2
  <2>4. QED
    BY <2>1, <2>2, <2>3
<1>4. t = "counts" => Clean(n)
  <2> SUFFICES ASSUME t = "counts", NEW p \in Mortal
               PROVE  n.buffer[p] # "freed" /\ (Kind[p] = "function" => n.buffer[p] = "null")
    BY DEF Clean
  <2>1. m.buffer[p] # "freed" /\ (Kind[p] = "function" => m.buffer[p] = "null") /\ p \in Object
    BY DEF Covers, Clean, Mortal
  <2>2. QED
    BY <2>1 DEF IsNew
<1>5. Covers(n, L, t)
  <2>1. ASSUME t = "counts", NEW p \in Mortal PROVE Balance(n, p) >= L[p]
    <3>1. Balance(n, p) >= L[p] + One(p = o)
      BY <1>3, <2>1
    <3>2. Balance(n, p) \in Int
      BY <1>1, BalanceType
    <3>3. QED
      BY <1>2, <3>1, <3>2
  <2>2. QED
    BY <1>1, <1>3, <1>4, <2>1 DEF Covers
<1>6. ASSUME NEW K \in Ledgers, \A p \in Mortal : K[p] <= L[p] + One(p = o),
             Kind[o] = "function"
      PROVE  Covers(n, K, t)
  <2>1. ASSUME t = "counts", NEW p \in Mortal
        PROVE  /\ Balance(n, p) >= K[p]
               /\ p \in InUse(n) /\ Kind[p] # "function" => Balance(n, p) > K[p]
    <3>1. /\ Balance(n, p) >= L[p] + One(p = o)
          /\ p \in InUse(n) /\ Kind[p] # "function" => Balance(n, p) > L[p]
      BY <1>3, <2>1
    <3>2. K[p] <= L[p] + One(p = o) /\ (p # o => One(p = o) = 0)
      BY <1>6 DEF One
    <3>3. Balance(n, p) \in Int /\ K[p] \in Int
      BY <1>1, BalanceType DEF Ledgers
    <3>4. QED
      BY <1>2, <1>6, <3>1, <3>2, <3>3
  <2>2. QED
    BY <1>1, <1>4, <2>1 DEF Covers
<1>7. Usable(n, o, t) /\ o \in Object /\ Keeps(m, n, t)
  BY <1>1 DEF Usable, Mortal, Keeps
<1>8. QED
  BY <1>1, <1>5, <1>6, <1>7

(* An element of an array is replaced: the ledger takes over its reference, *)
(* and gives one to the array.                                              *)
LEMMA CoversPut ==
    ASSUME NEW m, NEW L \in Ledgers, NEW t, Covers(m, L, t), NEW a \in Object,
           t = "counts" => a \in InUse(m) \cup Immortal,
           NEW i \in DOMAIN m.items[a], NEW o \in m.used \cup Immortal,
           NEW K \in Ledgers,
           \A p \in Mortal : K[p] <= L[p] + One(m.items[a][i] = p) - One(o = p)
    PROVE  /\ Covers(Put(m, a, i, o), K, t)
           /\ Put(m, a, i, o).used = m.used
           /\ Put(m, a, i, o).items = [m.items EXCEPT ![a] = [m.items[a] EXCEPT ![i] = o]]
           /\ t = "counts" => InUse(Put(m, a, i, o)) = InUse(m)
           /\ Keeps(m, Put(m, a, i, o), t)
<1> DEFINE n == Put(m, a, i, o)
           x == m.items[a][i]
<1>1. MemoryOK(m)
  BY DEF Covers
<1>2. /\ MemoryOK(n) /\ n.used = m.used /\ n.buffer = m.buffer
      /\ n.items = [m.items EXCEPT ![a] = [m.items[a] EXCEPT ![i] = o]]
      /\ a \in InUse(m) \cup Immortal =>
            /\ InUse(n) = InUse(m)
            /\ \A p \in Mortal :
                  Balance(n, p) = Balance(m, p) + One(m.items[a][i] = p) - One(o = p)
  BY <1>1, PutShape
<1>3. ASSUME t = "counts"
      PROVE  /\ InUse(n) = InUse(m)
             /\ \A p \in Mortal : Balance(n, p) = Balance(m, p) + One(x = p) - One(o = p)
  BY <1>2, <1>3
<1> HIDE DEF n, x
<1>4. ASSUME t = "counts", NEW p \in Mortal
      PROVE  /\ Balance(n, p) >= K[p]
             /\ p \in InUse(n) /\ Kind[p] # "function" => Balance(n, p) > K[p]
  <2>1. /\ Balance(m, p) >= L[p]
        /\ p \in InUse(n) /\ Kind[p] # "function" => Balance(m, p) > L[p]
    BY <1>3, <1>4 DEF Covers
  <2>2. Balance(n, p) = Balance(m, p) + One(x = p) - One(o = p)
    BY <1>3, <1>4
  <2>3. K[p] <= L[p] + One(x = p) - One(o = p)
    BY DEF x
  <2>4. /\ One(x = p) \in Nat /\ One(o = p) \in Nat /\ L[p] \in Int /\ K[p] \in Int
        /\ Balance(m, p) \in Int
    BY <1>1, BalanceType DEF Ledgers, One
  <2>5. QED
    BY <2>1, <2>2, <2>3, <2>4
<1>5. Covers(n, K, t)
  <2>1. t = "counts" => Clean(n)
    BY <1>2 DEF Covers, Clean
  <2>2. QED
    BY <1>2, <1>4, <2>1 DEF Covers
<1>6. Keeps(m, n, t)
  BY <1>2, <1>3 DEF Keeps, Usable
<1>7. QED
  BY <1>2, <1>3, <1>5, <1>6 DEF n

-----------------------------------------------------------------------------
(* What frames and globals hold.                                           *)

FrameType == [locals : Seq(Object), stack : Seq(Object), args : Seq(Object)]

(* Refs without the references in arrays, for frames fs and globals gs. *)
Objects(fs) == [k \in DOMAIN fs |-> FrameObjects(fs[k])]
Held(fs, gs) == [o \in Mortal |-> Occurrences(gs, o) + Count(Objects(fs), o)]

(* A frame holds what its three sequences hold. *)
LEMMA FrameCount ==
    ASSUME NEW f \in FrameType, NEW o
    PROVE  /\ FrameObjects(f) \in Seq(Object)
           /\ Occurrences(FrameObjects(f), o)
                 = Occurrences(f.locals, o) + Occurrences(f.stack, o) + Occurrences(f.args, o)
           /\ Occurrences(f.locals, o) \in Nat
           /\ Occurrences(f.stack, o) \in Nat
           /\ Occurrences(f.args, o) \in Nat
<1> DEFINE l == f.locals
           s == f.stack
           a == f.args
           ls == l \o s
<1>1. l \in Seq(Object) /\ s \in Seq(Object) /\ a \in Seq(Object)
  BY DEF FrameType
<1>2. FrameObjects(f) = ls \o a
  BY DEF FrameObjects
<1> HIDE DEF l, s, a
<1>3. /\ Occurrences(ls, o) = Occurrences(l, o) + Occurrences(s, o)
      /\ Occurrences(l, o) \in Nat /\ Occurrences(s, o) \in Nat
  BY <1>1, OccurrencesConcat
<1>4. ls \in Seq(Object) /\ ls \o a \in Seq(Object)
  BY <1>1
<1> HIDE DEF ls
<1>5. Occurrences(ls \o a, o) = Occurrences(ls, o) + Occurrences(a, o)
      /\ Occurrences(a, o) \in Nat
  BY <1>1, <1>4, OccurrencesConcat
<1>6. QED
  BY <1>2, <1>3, <1>4, <1>5 DEF l, s, a

(* The objects of an activation are finitely many. *)
LEMMA ObjectsFinite ==
    ASSUME NEW fs \in Seq(FrameType)
    PROVE  Finite(Objects(fs)) /\ DOMAIN Objects(fs) = DOMAIN fs
           /\ \A k \in DOMAIN fs : Objects(fs)[k] = FrameObjects(fs[k]) /\ fs[k] \in FrameType
<1>1. IsFiniteSet(DOMAIN fs)
  BY SeqFinite
<1>2. DOMAIN Objects(fs) = DOMAIN fs
      /\ \A k \in DOMAIN fs : Objects(fs)[k] = FrameObjects(fs[k]) /\ fs[k] \in FrameType
  BY DEF Objects
<1>3. \A k \in DOMAIN fs : IsFiniteSet(DOMAIN Objects(fs)[k])
  BY <1>2, FrameCount, SeqFinite
<1>4. QED
  BY <1>1, <1>2, <1>3 DEF Finite

(* What the machine holds is a ledger: the globals and the activations. *)
LEMMA HeldType ==
    ASSUME NEW fs \in Seq(FrameType), NEW gs \in [Globals -> Object]
    PROVE  /\ Held(fs, gs) \in Ledgers
           /\ \A o \in Mortal : /\ Held(fs, gs)[o] = Occurrences(gs, o) + Count(Objects(fs), o)
                                /\ Held(fs, gs)[o] \in Nat
                                /\ Occurrences(gs, o) \in Nat
                                /\ Count(Objects(fs), o) \in Nat
<1>1. IsFiniteSet(DOMAIN gs)
  <2>1. Globals = 1 .. GlobalCount /\ GlobalCount \in Nat
    BY VMAssumption DEF Globals
  <2>2. QED
    BY <2>1, FS_Interval
<1>2. ASSUME NEW o \in Mortal
      PROVE  Occurrences(gs, o) \in Nat /\ Count(Objects(fs), o) \in Nat
  BY <1>1, OccurrencesType, ObjectsFinite, PlacesFinite
<1>3. \A o \in Mortal : Held(fs, gs)[o] = Occurrences(gs, o) + Count(Objects(fs), o)
  BY DEF Held
<1>4. Held(fs, gs) = [o \in Mortal |-> Occurrences(gs, o) + Count(Objects(fs), o)]
  BY DEF Held
<1>5. \A o \in Mortal : Occurrences(gs, o) + Count(Objects(fs), o) \in Nat
  BY <1>2
<1>6. Held(fs, gs) \in Ledgers
  BY <1>4, <1>5 DEF Ledgers
<1>7. QED
  BY <1>2, <1>3, <1>5, <1>6

(* One frame changes. *)
LEMMA HeldUpdate ==
    ASSUME NEW fs \in Seq(FrameType), NEW gs \in [Globals -> Object],
           NEW k \in DOMAIN fs, NEW f \in FrameType, NEW o \in Mortal
    PROVE  /\ [fs EXCEPT ![k] = f] \in Seq(FrameType)
           /\ Held([fs EXCEPT ![k] = f], gs)[o]
                 = Held(fs, gs)[o] - Occurrences(FrameObjects(fs[k]), o)
                                   + Occurrences(FrameObjects(f), o)
           /\ Held(fs, gs)[o] >= Occurrences(FrameObjects(fs[k]), o)
<1> DEFINE gf == [fs EXCEPT ![k] = f]
<1>1. gf \in Seq(FrameType) /\ DOMAIN gf = DOMAIN fs /\ gf[k] = f
      /\ \A j \in DOMAIN fs \ {k} : gf[j] = fs[j]
  OBVIOUS
<1> HIDE DEF gf
<1>2. /\ Finite(Objects(fs)) /\ Finite(Objects(gf)) /\ DOMAIN Objects(gf) = DOMAIN Objects(fs)
      /\ k \in DOMAIN Objects(fs)
      /\ \A j \in DOMAIN Objects(fs) \ {k} : Objects(gf)[j] = Objects(fs)[j]
      /\ Objects(fs)[k] = FrameObjects(fs[k]) /\ Objects(gf)[k] = FrameObjects(f)
  BY <1>1, ObjectsFinite
<1>3. Count(Objects(gf), o) = Count(Objects(fs), o) - Occurrences(FrameObjects(fs[k]), o)
                              + Occurrences(FrameObjects(f), o)
  BY <1>2, CountUpdate
<1>4. /\ Count(Objects(fs), o) >= Occurrences(FrameObjects(fs[k]), o)
      /\ Occurrences(FrameObjects(fs[k]), o) \in Nat
  <2>1. /\ Count(Objects(fs), o) = Occurrences(Objects(fs)[k], o)
                                  + Count(On(Objects(fs), DOMAIN Objects(fs) \ {k}), o)
        /\ Occurrences(Objects(fs)[k], o) \in Nat
        /\ Count(On(Objects(fs), DOMAIN Objects(fs) \ {k}), o) \in Nat
    BY <1>2, CountMember
  <2>2. QED
    BY <1>2, <2>1
<1>5. Occurrences(FrameObjects(f), o) \in Nat
  <2>1. IsFiniteSet(DOMAIN FrameObjects(f))
    BY FrameCount, SeqFinite
  <2>2. QED
    BY <2>1, OccurrencesType
<1>6. /\ Held(fs, gs)[o] = Occurrences(gs, o) + Count(Objects(fs), o)
      /\ Held(gf, gs)[o] = Occurrences(gs, o) + Count(Objects(gf), o)
      /\ Occurrences(gs, o) \in Nat /\ Count(Objects(fs), o) \in Nat
  BY <1>1, HeldType
<1>7. Held(gf, gs)[o] = Held(fs, gs)[o] - Occurrences(FrameObjects(fs[k]), o)
                                        + Occurrences(FrameObjects(f), o)
      /\ Held(fs, gs)[o] >= Occurrences(FrameObjects(fs[k]), o)
  BY <1>3, <1>4, <1>5, <1>6
<1>8. QED
  BY <1>1, <1>7 DEF gf

(* One frame more. *)
LEMMA HeldPush ==
    ASSUME NEW fs \in Seq(FrameType), NEW gs \in [Globals -> Object],
           NEW f \in FrameType, NEW o \in Mortal
    PROVE  /\ Append(fs, f) \in Seq(FrameType)
           /\ Held(Append(fs, f), gs)[o] = Held(fs, gs)[o] + Occurrences(FrameObjects(f), o)
<1> DEFINE gf == Append(fs, f)
           n == Len(gf)
           F == Objects(gf)
<1>1. /\ gf \in Seq(FrameType) /\ n \in DOMAIN gf /\ gf[n] = f
      /\ DOMAIN gf \ {n} = DOMAIN fs
      /\ \A j \in DOMAIN fs : gf[j] = fs[j]
  <2>1. /\ gf \in Seq(FrameType) /\ n = Len(fs) + 1 /\ gf[n] = f /\ Len(fs) \in Nat
        /\ DOMAIN gf = 1 .. Len(fs) + 1
        /\ \A j \in 1 .. Len(fs) : gf[j] = fs[j]
    OBVIOUS
  <2>2. DOMAIN fs = 1 .. Len(fs)
    OBVIOUS
  <2> HIDE DEF gf, n
  <2>3. QED
    BY <2>1, <2>2
<1> HIDE DEF gf, n
<1>2. /\ Finite(F) /\ DOMAIN F = DOMAIN gf /\ n \in DOMAIN F /\ F[n] = FrameObjects(f)
      /\ \A j \in DOMAIN fs : F[j] = FrameObjects(fs[j])
      /\ DOMAIN F \ {n} = DOMAIN fs
  BY <1>1, ObjectsFinite
<1>3. DOMAIN Objects(fs) = DOMAIN fs /\ \A j \in DOMAIN fs : Objects(fs)[j] = FrameObjects(fs[j])
  BY ObjectsFinite
<1> HIDE DEF F
<1>4. /\ Count(F, o) = Occurrences(F[n], o) + Count(On(F, DOMAIN F \ {n}), o)
      /\ Occurrences(F[n], o) \in Nat
      /\ Count(On(F, DOMAIN F \ {n}), o) \in Nat
  <2>1. Finite(F) /\ n \in DOMAIN F
    BY <1>2
  <2>2. QED
    BY <2>1, CountMember
<1>5. Count(On(F, DOMAIN F \ {n}), o) = Count(Objects(fs), o)
  <2> DEFINE D == DOMAIN F \ {n}
             G == On(F, D)
  <2>1. DOMAIN G = DOMAIN Objects(fs) /\ \A k \in DOMAIN G : G[k] = Objects(fs)[k]
    BY <1>2, <1>3 DEF On
  <2> HIDE DEF G
  <2>2. Count(G, o) = Count(Objects(fs), o)
    BY <2>1, CountAgree
  <2>3. QED
    BY <2>2 DEF G
<1>6. /\ Held(fs, gs)[o] = Occurrences(gs, o) + Count(Objects(fs), o)
      /\ Held(gf, gs)[o] = Occurrences(gs, o) + Count(F, o)
      /\ Occurrences(gs, o) \in Nat /\ Count(Objects(fs), o) \in Nat
  BY <1>1, HeldType DEF F
<1>7. Held(gf, gs)[o] = Held(fs, gs)[o] + Occurrences(FrameObjects(f), o)
  BY <1>2, <1>4, <1>5, <1>6
<1>8. QED
  BY <1>1, <1>7 DEF gf

(* One frame less. *)
LEMMA HeldPop ==
    ASSUME NEW fs \in Seq(FrameType), fs # <<>>, NEW gs \in [Globals -> Object],
           NEW o \in Mortal
    PROVE  LET rest == SubSeq(fs, 1, Len(fs) - 1)
           IN  /\ rest \in Seq(FrameType)
               /\ Held(fs, gs)[o] = Held(rest, gs)[o]
                                    + Occurrences(FrameObjects(fs[Len(fs)]), o)
<1> DEFINE rest == SubSeq(fs, 1, Len(fs) - 1)
           f == fs[Len(fs)]
<1>1. rest \in Seq(FrameType) /\ f \in FrameType /\ fs = Append(rest, f)
  OBVIOUS
<1> HIDE DEF rest, f
<1>2. Held(Append(rest, f), gs)[o] = Held(rest, gs)[o] + Occurrences(FrameObjects(f), o)
  BY <1>1, HeldPush
<1>3. QED
  BY <1>1, <1>2 DEF rest, f

(* One global changes. *)
LEMMA HeldGlobals ==
    ASSUME NEW fs \in Seq(FrameType), NEW gs \in [Globals -> Object],
           NEW hs \in [Globals -> Object], NEW g \in Globals,
           \A i \in Globals \ {g} : hs[i] = gs[i], NEW o \in Mortal
    PROVE  Held(fs, hs)[o] = Held(fs, gs)[o] - One(gs[g] = o) + One(hs[g] = o)
<1> DEFINE x == hs[g]
           h == gs
<1>1. IsFiniteSet(DOMAIN gs) /\ g \in DOMAIN gs
  <2>1. DOMAIN gs = 1 .. GlobalCount /\ GlobalCount \in Nat
    BY VMAssumption DEF Globals
  <2>2. QED
    BY <2>1, FS_Interval
<1>2. hs = [h EXCEPT ![g] = x]
  OBVIOUS
<1>3. IsFiniteSet(DOMAIN h) /\ g \in DOMAIN h
  BY <1>1
<1> HIDE DEF h, x
<1>4. Occurrences([h EXCEPT ![g] = x], o) = Occurrences(h, o) - One(h[g] = o) + One(x = o)
  BY <1>3, OccurrencesExcept
<1>5. Occurrences(hs, o) = Occurrences(gs, o) - One(gs[g] = o) + One(hs[g] = o)
  BY <1>2, <1>4, Zenon DEF h, x
<1>6. /\ Held(fs, gs)[o] = Occurrences(gs, o) + Count(Objects(fs), o)
      /\ Occurrences(gs, o) \in Nat /\ Count(Objects(fs), o) \in Nat
      /\ Held(fs, hs)[o] = Occurrences(hs, o) + Count(Objects(fs), o)
  BY HeldType
<1>7. One(gs[g] = o) \in Nat /\ One(hs[g] = o) \in Nat
  BY DEF One
<1>8. QED
  BY <1>5, <1>6, <1>7

(* The top frame gets another operand stack. *)
WithStack(fs, s) == [fs EXCEPT ![Len(fs)].stack = s]

(* What the machine holds when the running activation gets another operand
   stack. *)
LEMMA HeldStack ==
    ASSUME NEW fs \in Seq(FrameType), fs # <<>>, NEW gs \in [Globals -> Object],
           NEW s \in Seq(Object)
    PROVE  /\ WithStack(fs, s) \in Seq(FrameType)
           /\ Len(WithStack(fs, s)) = Len(fs)
           /\ \A k \in DOMAIN fs : /\ WithStack(fs, s)[k].locals = fs[k].locals
                                   /\ WithStack(fs, s)[k].args = fs[k].args
                                   /\ WithStack(fs, s)[k].stack =
                                         IF k = Len(fs) THEN s ELSE fs[k].stack
           /\ \A o \in Mortal :
                 /\ Held(WithStack(fs, s), gs)[o]
                       = Held(fs, gs)[o] - Occurrences(fs[Len(fs)].stack, o) + Occurrences(s, o)
                 /\ Held(fs, gs)[o] >= Occurrences(fs[Len(fs)].locals, o)
                                       + Occurrences(fs[Len(fs)].stack, o)
                                       + Occurrences(fs[Len(fs)].args, o)
<1> DEFINE n == Len(fs)
           f == fs[n]
           g == [f EXCEPT !.stack = s]
           gf == WithStack(fs, s)
<1>1. n \in DOMAIN fs /\ f \in FrameType
  OBVIOUS
<1>2. /\ g \in FrameType /\ g.locals = f.locals /\ g.args = f.args /\ g.stack = s
  BY <1>1 DEF FrameType
<1>3. gf = [fs EXCEPT ![n] = g]
  BY DEF WithStack
<1>4. /\ gf \in Seq(FrameType) /\ Len(gf) = Len(fs) /\ gf[n] = g
      /\ \A k \in DOMAIN fs \ {n} : gf[k] = fs[k]
  <2> HIDE DEF g, gf
  <2>1. QED
    BY <1>1, <1>2, <1>3
<1> HIDE DEF f, g, gf
<1>5. ASSUME NEW o \in Mortal
      PROVE  /\ Held(gf, gs)[o] = Held(fs, gs)[o] - Occurrences(f.stack, o) + Occurrences(s, o)
             /\ Held(fs, gs)[o] >= Occurrences(f.locals, o) + Occurrences(f.stack, o)
                                   + Occurrences(f.args, o)
  <2>1. /\ Held([fs EXCEPT ![n] = g], gs)[o]
              = Held(fs, gs)[o] - Occurrences(FrameObjects(fs[n]), o)
                                + Occurrences(FrameObjects(g), o)
        /\ Held(fs, gs)[o] >= Occurrences(FrameObjects(fs[n]), o)
    BY <1>1, <1>2, HeldUpdate
  <2>2. /\ Occurrences(FrameObjects(f), o)
              = Occurrences(f.locals, o) + Occurrences(f.stack, o) + Occurrences(f.args, o)
        /\ Occurrences(f.locals, o) \in Nat /\ Occurrences(f.stack, o) \in Nat
        /\ Occurrences(f.args, o) \in Nat
    BY <1>1, FrameCount
  <2>3. /\ Occurrences(FrameObjects(g), o)
              = Occurrences(g.locals, o) + Occurrences(g.stack, o) + Occurrences(g.args, o)
        /\ Occurrences(g.stack, o) \in Nat
    BY <1>2, FrameCount
  <2>4. Held(fs, gs)[o] \in Nat
    BY HeldType
  <2>5. /\ Occurrences(FrameObjects(g), o)
              = Occurrences(f.locals, o) + Occurrences(s, o) + Occurrences(f.args, o)
        /\ Occurrences(s, o) \in Nat
    BY <1>2, <2>3
  <2>6. fs[n] = f /\ gf = [fs EXCEPT ![n] = g]
    BY <1>3 DEF f
  <2>7. /\ Held(gf, gs)[o] = Held(fs, gs)[o] - Occurrences(FrameObjects(f), o)
                                             + Occurrences(FrameObjects(g), o)
        /\ Held(fs, gs)[o] >= Occurrences(FrameObjects(f), o)
    BY <2>1, <2>6
  <2>8. QED
    BY <2>2, <2>4, <2>5, <2>7
<1>6. ASSUME NEW k \in DOMAIN fs
      PROVE  /\ gf[k].locals = fs[k].locals /\ gf[k].args = fs[k].args
             /\ gf[k].stack = IF k = n THEN s ELSE fs[k].stack
  BY <1>2, <1>4 DEF f
<1>7. QED
  BY <1>4, <1>5, <1>6 DEF f, gf

-----------------------------------------------------------------------------
(* The invariant.                                                          *)

KnownSeq(m, s) == \A i \in DOMAIN s : s[i] \in m.used \cup Immortal

FrameKnown(m, f) == KnownSeq(m, f.locals) /\ KnownSeq(m, f.stack) /\ KnownSeq(m, f.args)

FramesOK(fs) ==
    /\ fs \in Seq(FrameType)
    /\ Len(fs) \in 1 .. MaxDepth
    /\ \A k \in DOMAIN fs : Len(fs[k].args) <= MaxArgs
    /\ fs[Len(fs)].args = <<>>

(* The machine refers only to slots that were given out. *)
MachineOK(m, fs, gs) ==
    /\ MemoryOK(m)
    /\ FramesOK(fs)
    /\ gs \in [Globals -> Object]
    /\ KnownSeq(m, gs)
    /\ \A k \in DOMAIN fs : FrameKnown(m, fs[k])

Shape == MachineOK(mem, frames, globals) /\ argsSwept \in BOOLEAN

(* The counts cover what the machine holds. *)
Counted == Settled => Covers(mem, Held(frames, globals), "counts")

(* What every step has to do. *)
Kept == Shape' /\ (Counted => Counted')

(* What is known of the counts while an instruction runs. *)
Mode == IF Settled /\ Counted THEN "counts" ELSE "shape"

(* What an instruction can rely on when it starts. *)
LEMMA Opening ==
    ASSUME Shape
    PROVE  /\ Covers(mem, Held(frames, globals), Mode)
           /\ MemoryOK(mem)
           /\ frames \in Seq(FrameType) /\ frames # <<>>
           /\ globals \in [Globals -> Object]
           /\ Held(frames, globals) \in Ledgers
           /\ \A o \in Mortal : Held(frames, globals)[o] \in Nat
<1>1. /\ MemoryOK(mem) /\ frames \in Seq(FrameType) /\ globals \in [Globals -> Object]
      /\ Len(frames) \in 1 .. MaxDepth
  BY DEF Shape, MachineOK, FramesOK
<1>2. frames # <<>>
  BY <1>1
<1>3. Covers(mem, Held(frames, globals), Mode)
  BY <1>1 DEF Covers, Mode, Counted
<1>4. QED
  BY <1>1, <1>2, <1>3, HeldType

(* The end of a step that is not a collection. *)
LEMMA Closing ==
    ASSUME Shape, ~ mem.undefined, argsSwept' = argsSwept,
           NEW m, mem' = m, NEW fs, frames' = fs, NEW gs, globals' = gs,
           MachineOK(m, fs, gs),
           NEW K \in Ledgers, Covers(m, K, Mode),
           \A o \in Mortal : Held(fs, gs)[o] <= K[o]
    PROVE  Kept
<1>1. Shape'
  BY DEF Shape
<1>2. ASSUME Counted, Settled' PROVE Covers(m, Held(fs, gs), "counts")
  <2>1. Settled /\ Mode = "counts"
    BY <1>2 DEF Settled, Mode
  <2>2. Covers(m, K, "counts")
    BY <2>1
  <2>3. Held(fs, gs) \in Ledgers
    BY HeldType DEF MachineOK, FramesOK
  <2>4. QED
    BY <2>2, <2>3, CoversLess
<1>3. Counted => Counted'
  BY <1>2 DEF Counted
<1>4. QED
  BY <1>1, <1>3 DEF Kept

(* What refers to slots given out goes on doing so when more are given out. *)
LEMMA KnownMore ==
    ASSUME NEW m, NEW n, m.used \subseteq n.used, NEW s, KnownSeq(m, s)
    PROVE  KnownSeq(n, s)
  BY DEF KnownSeq

(* The running activation gets another operand stack. *)
LEMMA StackKept ==
    ASSUME Shape, ~ mem.undefined, argsSwept' = argsSwept, NEW m, mem' = m,
           NEW s \in Seq(Object), frames' = WithStack(frames, s),
           NEW gs \in [Globals -> Object], globals' = gs, KnownSeq(m, gs),
           KnownSeq(m, s), mem.used \subseteq m.used,
           NEW K \in Ledgers, Covers(m, K, Mode),
           \A o \in Mortal :
              Held(frames, gs)[o] - Occurrences(Stack, o) + Occurrences(s, o) <= K[o]
    PROVE  Kept
<1> DEFINE fs == WithStack(frames, s)
<1>1. frames' = fs
  OBVIOUS
<1>2. frames \in Seq(FrameType) /\ frames # <<>>
  BY Opening
<1>3. /\ fs \in Seq(FrameType)
      /\ Len(fs) = Len(frames)
      /\ \A k \in DOMAIN frames : /\ fs[k].locals = frames[k].locals
                                  /\ fs[k].args = frames[k].args
                                  /\ fs[k].stack = IF k = Len(frames) THEN s ELSE frames[k].stack
      /\ \A o \in Mortal :
            Held(fs, gs)[o] = Held(frames, gs)[o] - Occurrences(frames[Len(frames)].stack, o)
                              + Occurrences(s, o)
  BY <1>2, HeldStack
<1> HIDE DEF fs
<1>4. DOMAIN fs = DOMAIN frames /\ Len(frames) \in DOMAIN frames
  BY <1>2, <1>3
<1>5. FramesOK(fs)
  BY <1>3, <1>4 DEF Shape, MachineOK, FramesOK
<1>6. ASSUME NEW k \in DOMAIN fs PROVE FrameKnown(m, fs[k])
  <2>1. KnownSeq(mem, frames[k].locals) /\ KnownSeq(mem, frames[k].stack)
        /\ KnownSeq(mem, frames[k].args)
    BY <1>4 DEF Shape, MachineOK, FrameKnown
  <2>2. KnownSeq(m, frames[k].locals) /\ KnownSeq(m, frames[k].stack)
        /\ KnownSeq(m, frames[k].args)
    BY <2>1, KnownMore
  <2>3. QED
    BY <1>3, <1>4, <2>2 DEF FrameKnown
<1>7. MachineOK(m, fs, gs)
  BY <1>5, <1>6 DEF MachineOK, Covers
<1>8. \A o \in Mortal : Held(fs, gs)[o] <= K[o]
  BY <1>3 DEF Stack, Frame
<1>9. QED
  BY <1>1, <1>7, <1>8, Closing

(* The end of an instruction of the running activation. *)
LEMMA FinishKept ==
    ASSUME Shape, NEW m, NEW s \in Seq(Object), Finish(m, s),
           NEW gs \in [Globals -> Object], globals' = gs, KnownSeq(m, gs),
           KnownSeq(m, s), mem.used \subseteq m.used,
           NEW K \in Ledgers, Covers(m, K, Mode),
           \A o \in Mortal :
              Held(frames, gs)[o] - Occurrences(Stack, o) + Occurrences(s, o) <= K[o]
    PROVE  Kept
<1>1. /\ ~ mem.undefined /\ mem' = m /\ frames' = WithStack(frames, s)
      /\ argsSwept' = argsSwept
  BY DEF Finish, Ready, WithStack
<1>2. QED
  BY <1>1, StackKept

(* The end of an instruction that counts and pushes an object. *)
LEMMA FinishPushKept ==
    ASSUME Shape, NEW m, NEW s \in Seq(Object), NEW x \in Object, FinishPush(m, s, x),
           globals' = globals,
           KnownSeq(m, s), mem.used \subseteq m.used, Usable(m, x, Mode),
           NEW K \in Ledgers, Covers(m, K, Mode),
           \A o \in Mortal :
              Held(frames, globals)[o] - Occurrences(Stack, o) + Occurrences(s, o) <= K[o]
    PROVE  Kept
<1> DEFINE n == Incref(m, x)
           r == Append(s, x)
           L == [o \in Mortal |-> K[o] + One(x = o)]
<1>1. /\ L \in Ledgers /\ \A o \in Mortal : L[o] = K[o] + One(x = o)
      /\ \A o \in Mortal : L[o] <= K[o] + One(x = o)
  BY DEF Ledgers, One
<1> HIDE DEF L
<1>2. Covers(n, L, Mode) /\ n.used = m.used
  BY <1>1, CountOneMore, ZenonT(30)
<1>3. r \in Seq(Object) /\ \A o \in Mortal : Occurrences(r, o) = Occurrences(s, o) + One(x = o)
  BY OccurrencesAppend
<1>4. KnownSeq(n, r)
  <2>1. \A i \in DOMAIN r : r[i] = x \/ (i \in DOMAIN s /\ r[i] = s[i])
    OBVIOUS
  <2> HIDE DEF r
  <2>2. QED
    BY <1>2, <2>1 DEF KnownSeq, Usable
<1>5. KnownSeq(n, globals)
  <2>1. KnownSeq(mem, globals) /\ mem.used \subseteq n.used
    BY <1>2 DEF Shape, MachineOK
  <2>2. QED
    BY <2>1, KnownMore
<1>6. globals \in [Globals -> Object] /\ Finish(n, r)
  BY Opening DEF FinishPush
<1> HIDE DEF n, r
<1>7. ASSUME NEW o \in Mortal
      PROVE  Held(frames, globals)[o] - Occurrences(Stack, o) + Occurrences(r, o) <= L[o]
  <2>1. /\ Held(frames, globals)[o] - Occurrences(Stack, o) + Occurrences(s, o) <= K[o]
        /\ L[o] = K[o] + One(x = o)
        /\ Occurrences(r, o) = Occurrences(s, o) + One(x = o)
    BY <1>1, <1>3
  <2>2. /\ Held(frames, globals)[o] \in Int /\ K[o] \in Int /\ One(x = o) \in Int
        /\ Occurrences(s, o) \in Int /\ Occurrences(Stack, o) \in Int
    <3>1. IsFiniteSet(DOMAIN s) /\ IsFiniteSet(DOMAIN Stack)
      <4>1. frames[Len(frames)] \in FrameType
        BY Opening
      <4>2. Stack \in Seq(Object)
        BY <4>1 DEF Stack, Frame, FrameType
      <4>3. QED
        BY <4>2, SeqFinite
    <3>2. Occurrences(s, o) \in Nat /\ Occurrences(Stack, o) \in Nat
      BY <3>1, OccurrencesType
    <3>3. Held(frames, globals)[o] \in Nat
      BY Opening
    <3>4. K[o] \in Int /\ One(x = o) \in Int
      BY DEF Ledgers, One
    <3>5. QED
      BY <3>2, <3>3, <3>4
  <2>3. QED
    BY <2>1, <2>2
<1>8. mem.used \subseteq n.used
  BY <1>2
<1>9. QED
  BY <1>1, <1>2, <1>3, <1>4, <1>5, <1>6, <1>7, <1>8, FinishKept

-----------------------------------------------------------------------------
(* The operand stack.                                                      *)

(* Occurrences in a sequence of two. *)
LEMMA OccurrencesTwo ==
    ASSUME NEW x \in Object, NEW y \in Object, NEW o
    PROVE  Occurrences(<<x, y>>, o) = One(x = o) + One(y = o)
<1> DEFINE s == <<x>>
<1>1. s \in Seq(Object) /\ <<x, y>> = Append(s, y)
  OBVIOUS
<1>2. Occurrences(s, o) = One(x = o)
  BY OccurrencesOne
<1> HIDE DEF s
<1>3. Occurrences(Append(s, y), o) = Occurrences(s, o) + One(y = o)
  BY <1>1, OccurrencesAppend
<1>4. QED
  BY <1>1, <1>2, <1>3

(* Occurrences in a sequence of three. *)
LEMMA OccurrencesThree ==
    ASSUME NEW x \in Object, NEW y \in Object, NEW z \in Object, NEW o
    PROVE  Occurrences(<<x, y, z>>, o) = One(x = o) + One(y = o) + One(z = o)
<1> DEFINE s == <<x, y>>
<1>1. s \in Seq(Object) /\ <<x, y, z>> = Append(s, z)
  OBVIOUS
<1>2. Occurrences(s, o) = One(x = o) + One(y = o)
  BY OccurrencesTwo
<1> HIDE DEF s
<1>3. Occurrences(Append(s, z), o) = Occurrences(s, o) + One(z = o)
  BY <1>1, OccurrencesAppend
<1>4. QED
  BY <1>1, <1>2, <1>3

(* One is a number, 1 for the object itself. *)
LEMMA OneType ==
    ASSUME NEW x, NEW o
    PROVE  One(x = o) \in Nat /\ (x = o => One(x = o) = 1) /\ (x # o => One(x = o) = 0)
  BY DEF One

(* The n operands at the top, and what is below them. *)
LEMMA Operand ==
    ASSUME Shape, NEW n \in Nat, Has(n)
    PROVE  /\ Rest(n) \in Seq(Object) /\ Args(n) \in Seq(Object) /\ Len(Args(n)) = n
           /\ \A i \in 1 .. n : Args(n)[i] = Peek(n - i)
           /\ KnownSeq(mem, Rest(n)) /\ KnownSeq(mem, Args(n))
           /\ \A k \in 0 .. n - 1 : Peek(k) \in Object /\ Peek(k) \in mem.used \cup Immortal
           /\ \A o \in Mortal :
                 /\ Occurrences(Stack, o) = Occurrences(Rest(n), o) + Occurrences(Args(n), o)
                 /\ Occurrences(Rest(n), o) \in Nat /\ Occurrences(Args(n), o) \in Nat
                 /\ Held(frames, globals)[o] >= Occurrences(Stack, o)
                 /\ Held(frames, globals)[o] \in Nat
<1> DEFINE s == Stack
           l == Len(s)
<1>1. frames[Len(frames)] \in FrameType /\ FrameKnown(mem, frames[Len(frames)])
  BY Opening DEF Shape, MachineOK
<1>2. s \in Seq(Object) /\ KnownSeq(mem, s) /\ l \in Nat /\ n <= l
  BY <1>1 DEF Stack, Frame, FrameType, FrameKnown, Has
<1>3. /\ Rest(n) = SubSeq(s, 1, l - n) /\ Args(n) = SubSeq(s, l - n + 1, l)
      /\ \A k : Peek(k) = s[l - k]
  BY DEF Rest, Args, Peek
<1>4. \A i \in 1 .. l : s[i] \in Object /\ s[i] \in mem.used \cup Immortal
  BY <1>2 DEF KnownSeq
<1> HIDE DEF s, l
<1>5. /\ Rest(n) \in Seq(Object) /\ Len(Rest(n)) = l - n
      /\ \A i \in 1 .. l - n : Rest(n)[i] = s[i]
  BY <1>2, <1>3 DEF l
<1>6. /\ Args(n) \in Seq(Object) /\ Len(Args(n)) = n
      /\ \A i \in 1 .. n : Args(n)[i] = s[l - n + i]
  BY <1>2, <1>3 DEF l
<1>7. ASSUME NEW i \in 1 .. n PROVE Args(n)[i] = Peek(n - i)
  <2>1. l - (n - i) = l - n + i
    BY <1>2
  <2>2. QED
    BY <1>3, <1>6, <2>1
<1>8. ASSUME NEW k \in 0 .. n - 1 PROVE Peek(k) \in Object /\ Peek(k) \in mem.used \cup Immortal
  <2>1. l - k \in 1 .. l
    BY <1>2
  <2>2. QED
    BY <1>3, <1>4, <2>1
<1>9. KnownSeq(mem, Rest(n))
  <2>1. \A i \in 1 .. l - n : i \in 1 .. l
    BY <1>2
  <2>2. DOMAIN Rest(n) = 1 .. l - n
    BY <1>5
  <2>3. QED
    BY <1>4, <1>5, <2>1, <2>2 DEF KnownSeq
<1>10. KnownSeq(mem, Args(n))
  <2>1. \A i \in 1 .. n : l - n + i \in 1 .. l
    BY <1>2
  <2>2. DOMAIN Args(n) = 1 .. n
    BY <1>6
  <2>3. QED
    BY <1>4, <1>6, <2>1, <2>2 DEF KnownSeq
<1>11. ASSUME NEW o \in Mortal
       PROVE  /\ Occurrences(s, o) = Occurrences(Rest(n), o) + Occurrences(Args(n), o)
              /\ Occurrences(Rest(n), o) \in Nat /\ Occurrences(Args(n), o) \in Nat
  <2> DEFINE c == l - n
  <2>1. c \in 0 .. Len(s) /\ Len(s) = l
    BY <1>2 DEF l
  <2>2. Rest(n) = SubSeq(s, 1, c) /\ Args(n) = SubSeq(s, c + 1, Len(s))
    BY <1>3, <2>1
  <2> HIDE DEF c
  <2>3. /\ Occurrences(s, o) = Occurrences(SubSeq(s, 1, c), o)
                               + Occurrences(SubSeq(s, c + 1, Len(s)), o)
        /\ Occurrences(SubSeq(s, 1, c), o) \in Nat
        /\ Occurrences(SubSeq(s, c + 1, Len(s)), o) \in Nat
    BY <1>2, <2>1, OccurrencesCut
  <2>4. QED
    BY <2>2, <2>3
<1>12. ASSUME NEW o \in Mortal
       PROVE  Held(frames, globals)[o] >= Occurrences(s, o) /\ Held(frames, globals)[o] \in Nat
  <2>1. /\ frames \in Seq(FrameType) /\ frames # <<>> /\ globals \in [Globals -> Object]
        /\ Held(frames, globals)[o] \in Nat
    BY Opening
  <2>2. Held(frames, globals)[o] >= Occurrences(frames[Len(frames)].locals, o)
                                    + Occurrences(frames[Len(frames)].stack, o)
                                    + Occurrences(frames[Len(frames)].args, o)
    BY <1>2, <2>1, HeldStack
  <2>3. /\ Occurrences(frames[Len(frames)].locals, o) \in Nat
        /\ Occurrences(frames[Len(frames)].stack, o) \in Nat
        /\ Occurrences(frames[Len(frames)].args, o) \in Nat
    BY <1>1, FrameCount
  <2>4. frames[Len(frames)].stack = s
    BY DEF s, Stack, Frame
  <2>5. QED
    BY <2>1, <2>2, <2>3, <2>4
<1>13. QED
  BY <1>5, <1>6, <1>7, <1>8, <1>9, <1>10, <1>11, <1>12 DEF s

(* One, two or three operands. *)
LEMMA TopOperands ==
    ASSUME Shape
    PROVE  /\ Has(1) => Args(1) = <<Peek(0)>>
           /\ Has(2) => Args(2) = <<Peek(1), Peek(0)>>
           /\ Has(3) => Args(3) = <<Peek(2), Peek(1), Peek(0)>>
<1>1. ASSUME Has(1) PROVE Args(1) = <<Peek(0)>>
  <2>1. Args(1) \in Seq(Object) /\ Len(Args(1)) = 1
    BY <1>1, Operand
  <2>2. \A i \in 1 .. 1 : Args(1)[i] = Peek(1 - i)
    BY <1>1, Operand
  <2>3. Args(1)[1] = Peek(0)
    BY <2>2
  <2>4. QED
    BY <2>1, <2>3
<1>2. ASSUME Has(2) PROVE Args(2) = <<Peek(1), Peek(0)>>
  <2>1. Args(2) \in Seq(Object) /\ Len(Args(2)) = 2
    BY <1>2, Operand
  <2>2. \A i \in 1 .. 2 : Args(2)[i] = Peek(2 - i)
    BY <1>2, Operand
  <2>3. Args(2)[1] = Peek(1) /\ Args(2)[2] = Peek(0)
    BY <2>2
  <2>4. QED
    BY <2>1, <2>3
<1>3. ASSUME Has(3) PROVE Args(3) = <<Peek(2), Peek(1), Peek(0)>>
  <2>1. Args(3) \in Seq(Object) /\ Len(Args(3)) = 3
    BY <1>3, Operand
  <2>2. \A i \in 1 .. 3 : Args(3)[i] = Peek(3 - i)
    BY <1>3, Operand
  <2>3. Args(3)[1] = Peek(2) /\ Args(3)[2] = Peek(1) /\ Args(3)[3] = Peek(0)
    BY <2>2
  <2>4. QED
    BY <2>1, <2>3
<1>4. QED
  BY <1>1, <1>2, <1>3

-----------------------------------------------------------------------------
(* Instructions that consume their operands.                               *)

Ledger == Held(frames, globals)

(* What is owed when the n operands at the top are released. *)
Popped(n) == [o \in Mortal |-> Ledger[o] - Occurrences(Args(n), o)]

(* Operands that were popped are owed no more. *)
LEMMA PoppedLedger ==
    ASSUME Shape, NEW n \in Nat, Has(n)
    PROVE  /\ Ledger \in Ledgers /\ Popped(n) \in Ledgers
           /\ \A o \in Mortal :
                 /\ Popped(n)[o] = Ledger[o] - Occurrences(Args(n), o)
                 /\ Popped(n)[o] = Ledger[o] - Occurrences(Stack, o) + Occurrences(Rest(n), o)
                 /\ Popped(n)[o] \in Nat /\ Ledger[o] \in Nat
                 /\ Occurrences(Args(n), o) \in Nat /\ Occurrences(Rest(n), o) \in Nat
                 /\ Occurrences(Stack, o) \in Nat
                 /\ Ledger[o] >= Occurrences(Args(n), o)
<1>1. Ledger \in Ledgers
  BY Opening DEF Ledger
<1>2. \A o \in Mortal : Popped(n)[o] = Ledger[o] - Occurrences(Args(n), o)
  BY DEF Popped
<1>3. ASSUME NEW o \in Mortal
      PROVE  /\ Ledger[o] - Occurrences(Args(n), o)
                   = Ledger[o] - Occurrences(Stack, o) + Occurrences(Rest(n), o)
             /\ Ledger[o] - Occurrences(Args(n), o) \in Nat /\ Ledger[o] \in Nat
             /\ Occurrences(Args(n), o) \in Nat /\ Occurrences(Rest(n), o) \in Nat
             /\ Occurrences(Stack, o) \in Nat
             /\ Ledger[o] >= Occurrences(Args(n), o)
  <2>1. /\ Occurrences(Stack, o) = Occurrences(Rest(n), o) + Occurrences(Args(n), o)
        /\ Occurrences(Rest(n), o) \in Nat /\ Occurrences(Args(n), o) \in Nat
        /\ Ledger[o] >= Occurrences(Stack, o) /\ Ledger[o] \in Nat
    BY Operand DEF Ledger
  <2>2. QED
    BY <2>1
<1>4. Popped(n) \in Ledgers
  <2>1. \A o \in Mortal : Ledger[o] - Occurrences(Args(n), o) \in Int
    BY <1>3
  <2>2. QED
    BY <2>1 DEF Popped, Ledgers
<1>5. QED
  BY <1>1, <1>2, <1>3, <1>4

(* The operands are released, in any order. *)
LEMMA OperandsReleased ==
    ASSUME Shape, NEW n \in Nat, Has(n), NEW m, Covers(m, Ledger, Mode),
           NEW s \in Seq(Object),
           \A o \in Mortal : Occurrences(s, o) = Occurrences(Args(n), o)
    PROVE  /\ Covers(DecrefAll(m, s), Popped(n), Mode)
           /\ DecrefAll(m, s).items = m.items
           /\ DecrefAll(m, s).used = m.used
           /\ Keeps(m, DecrefAll(m, s), Mode)
<1>1. Ledger \in Ledgers /\ Popped(n) \in Ledgers
  BY PoppedLedger
<1>2. \A o \in Mortal : Ledger[o] >= Occurrences(s, o) /\ Popped(n)[o] \in Nat
                        /\ Popped(n)[o] = Ledger[o] - Occurrences(s, o)
                        /\ Occurrences(s, o) \in Nat /\ Ledger[o] \in Nat
  BY PoppedLedger
<1>3. \A o \in Mortal : Popped(n)[o] <= Ledger[o] - Occurrences(s, o) /\ Popped(n)[o] >= 0
  BY <1>2
<1>4. QED
  BY <1>1, <1>2, <1>3, ReleaseAll

(* A released stack. *)
LEMMA DropKept ==
    ASSUME Shape, NEW n \in Nat, Has(n), NEW m, Finish(m, Rest(n)), globals' = globals,
           mem.used \subseteq m.used, Covers(m, Popped(n), Mode)
    PROVE  Kept
<1>1. Rest(n) \in Seq(Object) /\ KnownSeq(mem, Rest(n))
  BY Operand
<1>2. Popped(n) \in Ledgers
  BY PoppedLedger
<1>3. globals \in [Globals -> Object] /\ KnownSeq(mem, globals)
  BY DEF Shape, MachineOK
<1>4. KnownSeq(m, Rest(n)) /\ KnownSeq(m, globals)
  BY <1>1, <1>3, KnownMore
<1>5. \A o \in Mortal :
         Held(frames, globals)[o] - Occurrences(Stack, o) + Occurrences(Rest(n), o) <= Popped(n)[o]
  BY PoppedLedger DEF Ledger
<1>6. QED
  BY <1>1, <1>2, <1>3, <1>4, <1>5, FinishKept

(* A result is counted and pushed. *)
LEMMA ReplaceKept ==
    ASSUME Shape, NEW n \in Nat, Has(n), NEW m, NEW x \in Object,
           FinishPush(m, Rest(n), x), globals' = globals,
           mem.used \subseteq m.used, Covers(m, Popped(n), Mode), Usable(m, x, Mode)
    PROVE  Kept
<1>1. Rest(n) \in Seq(Object) /\ KnownSeq(mem, Rest(n))
  BY Operand
<1>2. Popped(n) \in Ledgers
  BY PoppedLedger
<1>3. KnownSeq(m, Rest(n))
  BY <1>1, KnownMore
<1>4. \A o \in Mortal :
         Held(frames, globals)[o] - Occurrences(Stack, o) + Occurrences(Rest(n), o) <= Popped(n)[o]
  BY PoppedLedger DEF Ledger
<1>5. QED
  BY <1>1, <1>2, <1>3, <1>4, FinishPushKept

(* A result that is counted already is pushed. *)
LEMMA MoveKept ==
    ASSUME Shape, NEW n \in Nat, Has(n), NEW m, NEW x \in m.used \cup Immortal, x \in Object,
           Finish(m, Append(Rest(n), x)), globals' = globals,
           mem.used \subseteq m.used, NEW K \in Ledgers, Covers(m, K, Mode),
           \A o \in Mortal : K[o] >= Popped(n)[o] + One(x = o)
    PROVE  Kept
<1> DEFINE s == Append(Rest(n), x)
<1>1. Rest(n) \in Seq(Object) /\ KnownSeq(mem, Rest(n))
  BY Operand
<1>2. /\ s \in Seq(Object)
      /\ \A o \in Mortal : Occurrences(s, o) = Occurrences(Rest(n), o) + One(x = o)
  BY <1>1, OccurrencesAppend
<1>3. globals \in [Globals -> Object] /\ KnownSeq(mem, globals)
  BY DEF Shape, MachineOK
<1>4. KnownSeq(m, Rest(n)) /\ KnownSeq(m, globals)
  BY <1>1, <1>3, KnownMore
<1>5. KnownSeq(m, s)
  <2>1. \A i \in DOMAIN s : s[i] = x \/ (i \in DOMAIN Rest(n) /\ s[i] = Rest(n)[i])
    BY <1>1
  <2> HIDE DEF s
  <2>2. QED
    BY <1>4, <2>1 DEF KnownSeq
<1>6. Finish(m, s)
  OBVIOUS
<1> HIDE DEF s
<1>7. ASSUME NEW o \in Mortal
      PROVE  Held(frames, globals)[o] - Occurrences(Stack, o) + Occurrences(s, o) <= K[o]
  <2>1. /\ Popped(n)[o] = Held(frames, globals)[o] - Occurrences(Stack, o)
                         + Occurrences(Rest(n), o)
        /\ Held(frames, globals)[o] \in Nat
        /\ Occurrences(Rest(n), o) \in Nat /\ Occurrences(Stack, o) \in Nat
        /\ Popped(n)[o] \in Nat
    BY PoppedLedger DEF Ledger
  <2>2. K[o] >= Popped(n)[o] + One(x = o) /\ K[o] \in Int /\ One(x = o) \in Nat
    BY DEF One, Ledgers
  <2>3. Occurrences(s, o) = Occurrences(Rest(n), o) + One(x = o)
    BY <1>2
  <2>4. QED
    BY <2>1, <2>2, <2>3
<1>8. QED
  BY <1>2, <1>3, <1>4, <1>5, <1>6, <1>7, FinishKept

-----------------------------------------------------------------------------
(* What the machine refers to.                                             *)

Referred(x) ==
    /\ x \in Object
    /\ x \in mem.used \cup Immortal
    /\ Usable(mem, x, Mode)
    /\ x \in Mortal => Ledger[x] >= 1
    /\ Mode = "counts" => x \in InUse(mem) \cup Immortal

(* An object that is owed a reference may be referred to. *)
LEMMA OwedReferred ==
    ASSUME Shape, NEW x \in mem.used \cup Immortal, x \in Mortal => Ledger[x] >= 1
    PROVE  Referred(x)
<1>1. Ledger \in Ledgers /\ Covers(mem, Ledger, Mode) /\ MemoryOK(mem)
  BY Opening DEF Ledger
<1>2. x \in Object
  BY <1>1, MemoryAssumption DEF MemoryOK, Memories, Mortal
<1>3. Usable(mem, x, Mode) /\ (Mode = "counts" => x \in InUse(mem) \cup Immortal)
  BY <1>1, OwedUsable
<1>4. QED
  BY <1>2, <1>3 DEF Referred

(* So may an operand, *)
LEMMA OperandReferred ==
    ASSUME Shape, NEW k \in Nat, Has(k + 1)
    PROVE  Referred(Peek(k))
<1> DEFINE n == k + 1
<1>1. n \in Nat /\ k \in 0 .. n - 1 /\ n - k \in 1 .. n /\ n - (n - k) = k
  OBVIOUS
<1> HIDE DEF n
<1>2. /\ Peek(k) \in mem.used \cup Immortal
      /\ Args(n) \in Seq(Object) /\ Len(Args(n)) = n
      /\ \A i \in 1 .. n : Args(n)[i] = Peek(n - i)
  <2>1. Has(n)
    BY DEF n
  <2>2. QED
    BY <1>1, <2>1, Operand
<1>3. n - k \in DOMAIN Args(n) /\ Args(n)[n - k] = Peek(k)
  <2>1. DOMAIN Args(n) = 1 .. n
    BY <1>2
  <2>2. Args(n)[n - k] = Peek(n - (n - k))
    BY <1>1, <1>2
  <2>3. QED
    BY <1>1, <2>1, <2>2
<1>4. ASSUME Peek(k) \in Mortal PROVE Ledger[Peek(k)] >= 1
  <2>1. Occurrences(Args(n), Peek(k)) # 0
    <3>1. IsFiniteSet(DOMAIN Args(n))
      BY <1>2, SeqFinite
    <3>2. QED
      BY <1>3, <3>1, OccurrencesZero
  <2>2. /\ Ledger[Peek(k)] >= Occurrences(Args(n), Peek(k)) /\ Ledger[Peek(k)] \in Nat
        /\ Occurrences(Args(n), Peek(k)) \in Nat
    <3>1. Has(n)
      BY DEF n
    <3>2. QED
      BY <1>1, <1>4, <3>1, PoppedLedger
  <2>3. QED
    BY <2>1, <2>2
<1>5. QED
  BY <1>2, <1>4, OwedReferred

(* a local of the running activation, *)
LEMMA LocalReferred ==
    ASSUME Shape, NEW i \in DOMAIN Frame.locals
    PROVE  Referred(Frame.locals[i])
<1> DEFINE f == frames[Len(frames)]
           x == f.locals[i]
<1>1. f \in FrameType /\ FrameKnown(mem, f) /\ Frame = f
  BY Opening DEF Shape, MachineOK, Frame
<1>2. f.locals \in Seq(Object) /\ i \in DOMAIN f.locals /\ x \in mem.used \cup Immortal
  BY <1>1 DEF FrameType, FrameKnown, KnownSeq
<1>3. ASSUME x \in Mortal PROVE Ledger[x] >= 1
  <2>1. /\ frames \in Seq(FrameType) /\ frames # <<>> /\ globals \in [Globals -> Object]
        /\ Ledger[x] \in Nat
    BY <1>3, Opening DEF Ledger
  <2>2. <<>> \in Seq(Object)
    OBVIOUS
  <2>3. Ledger[x] >= Occurrences(f.locals, x) + Occurrences(f.stack, x) + Occurrences(f.args, x)
    BY <1>3, <2>1, <2>2, HeldStack DEF Ledger
  <2>4. /\ Occurrences(f.locals, x) \in Nat /\ Occurrences(f.stack, x) \in Nat
        /\ Occurrences(f.args, x) \in Nat
    BY <1>1, FrameCount
  <2>5. Occurrences(f.locals, x) # 0
    <3>1. IsFiniteSet(DOMAIN f.locals) /\ f.locals[i] = x
      BY <1>2, SeqFinite
    <3>2. QED
      BY <1>2, <3>1, OccurrencesZero
  <2> HIDE DEF x, f
  <2>6. QED
    BY <2>1, <2>3, <2>4, <2>5
<1>4. Referred(x)
  BY <1>2, <1>3, OwedReferred
<1>5. QED
  BY <1>1, <1>4

(* and a global. *)
LEMMA GlobalReferred ==
    ASSUME Shape, NEW g \in Globals
    PROVE  Referred(globals[g])
<1> DEFINE x == globals[g]
<1>1. globals \in [Globals -> Object] /\ x \in mem.used \cup Immortal
      /\ frames \in Seq(FrameType)
  BY Opening DEF Shape, MachineOK, KnownSeq
<1>2. ASSUME x \in Mortal PROVE Ledger[x] >= 1
  <2>1. /\ Ledger[x] = Occurrences(globals, x) + Count(Objects(frames), x)
        /\ Occurrences(globals, x) \in Nat /\ Count(Objects(frames), x) \in Nat
    BY <1>1, <1>2, HeldType DEF Ledger
  <2>2. Occurrences(globals, x) # 0
    <3>1. IsFiniteSet(DOMAIN globals)
      <4>1. DOMAIN globals = 1 .. GlobalCount /\ GlobalCount \in Nat
        BY <1>1, VMAssumption DEF Globals
      <4>2. QED
        BY <4>1, FS_Interval
    <3>2. g \in DOMAIN globals /\ globals[g] = x
      BY <1>1
    <3>3. QED
      BY <3>1, <3>2, OccurrencesZero
  <2> HIDE DEF x
  <2>3. QED
    BY <2>1, <2>2
<1>3. QED
  BY <1>1, <1>2, OwedReferred

-----------------------------------------------------------------------------
(* Constants, variables, operators.                                        *)

(* An instruction that counts and pushes something, and consumes nothing. *)
LEMMA LoadKept ==
    ASSUME Shape, NEW m, NEW x \in Object, FinishPush(m, Stack, x), globals' = globals,
           mem.used \subseteq m.used, Usable(m, x, Mode), Covers(m, Ledger, Mode)
    PROVE  Kept
<1>1. Stack \in Seq(Object) /\ KnownSeq(mem, Stack)
  <2>1. frames[Len(frames)] \in FrameType /\ FrameKnown(mem, frames[Len(frames)])
    BY Opening DEF Shape, MachineOK
  <2>2. QED
    BY <2>1 DEF Stack, Frame, FrameType, FrameKnown
<1>2. KnownSeq(m, Stack)
  BY <1>1, KnownMore
<1>3. Ledger \in Ledgers /\ \A o \in Mortal : Ledger[o] \in Nat
  BY Opening DEF Ledger
<1>4. ASSUME NEW o \in Mortal
      PROVE  Held(frames, globals)[o] - Occurrences(Stack, o) + Occurrences(Stack, o)
                <= Ledger[o]
  <2>1. Occurrences(Stack, o) \in Nat
    <3>1. IsFiniteSet(DOMAIN Stack)
      BY <1>1, SeqFinite
    <3>2. QED
      BY <3>1, OccurrencesType
  <2>2. Ledger[o] = Held(frames, globals)[o] /\ Ledger[o] \in Nat
    BY <1>3 DEF Ledger
  <2>3. QED
    BY <2>1, <2>2
<1>5. QED
  BY <1>1, <1>2, <1>3, <1>4, FinishPushKept

(* PUSH_NULL, and the loads of immortal constants. *)
LEMMA LoadImmortalKept ==
    ASSUME Shape, NEW o \in Immortal, LoadImmortal(o)
    PROVE  Kept
<1>1. o \in Object /\ Usable(mem, o, Mode)
  BY MemoryAssumption DEF Usable
<1>2. FinishPush(mem, Stack, o) /\ globals' = globals
  BY DEF LoadImmortal
<1>3. Covers(mem, Ledger, Mode)
  BY Opening DEF Ledger
<1>4. QED
  BY <1>1, <1>2, <1>3, LoadKept

(* LOAD_CONST: the operand is counted besides the reference a new object has. *)
LEMMA LoadConstKept ==
    ASSUME Shape, NEW kind \in DOMAIN Pool, LoadConst(kind)
    PROVE  Kept
<1> DEFINE m == Alloc(mem, kind)
           x == NextObject(mem, kind)
<1>1. HasFree(mem, kind) /\ FinishPush(m, Stack, x) /\ globals' = globals
  BY DEF LoadConst
<1>2. Covers(mem, Ledger, Mode) /\ Ledger \in Ledgers /\ MemoryOK(mem)
  BY Opening DEF Ledger
<1>3. IsNew(mem, m, x)
  BY <1>1, <1>2, AllocBalance
<1> HIDE DEF m, x
<1>4. Covers(m, Ledger, Mode) /\ Usable(m, x, Mode) /\ x \in Object /\ mem.used \subseteq m.used
  BY <1>2, <1>3, CoversNew
<1>5. QED
  BY <1>1, <1>4, LoadKept

(* LOAD_FAST: the operand is a second reference, and is counted. *)
LEMMA LoadFastKept ==
    ASSUME Shape, NEW i, LoadFast(i)
    PROVE  Kept
<1>1. i \in DOMAIN Frame.locals /\ FinishPush(mem, Stack, Frame.locals[i]) /\ globals' = globals
  BY DEF LoadFast
<1>2. Referred(Frame.locals[i])
  BY <1>1, LocalReferred
<1>3. Covers(mem, Ledger, Mode)
  BY Opening DEF Ledger
<1>4. QED
  BY <1>1, <1>2, <1>3, LoadKept DEF Referred

(* LOAD_GLOBAL: likewise. *)
LEMMA LoadGlobalKept ==
    ASSUME Shape, NEW g \in Globals, LoadGlobal(g)
    PROVE  Kept
<1>1. FinishPush(mem, Stack, globals[g]) /\ globals' = globals
  BY DEF LoadGlobal
<1>2. Referred(globals[g])
  BY GlobalReferred
<1>3. Covers(mem, Ledger, Mode)
  BY Opening DEF Ledger
<1>4. QED
  BY <1>1, <1>2, <1>3, LoadKept DEF Referred

(* POP_TOP and the conditional jumps release the operand they pop. *)
LEMMA PopTopKept ==
    ASSUME Shape, PopTop
    PROVE  Kept
<1>1. Has(1) /\ Finish(Decref(mem, Peek(0)), Rest(1)) /\ globals' = globals
  BY DEF PopTop
<1>2. Args(1) = <<Peek(0)>> /\ Args(1) \in Seq(Object)
  BY <1>1, TopOperands, Operand
<1>3. Decref(mem, Peek(0)) = DecrefAll(mem, Args(1))
  BY <1>2 DEF Decref
<1>4. Covers(mem, Ledger, Mode)
  BY Opening DEF Ledger
<1> DEFINE s == Args(1)
<1>5. s \in Seq(Object) /\ \A o \in Mortal : Occurrences(s, o) = Occurrences(Args(1), o)
  BY <1>2
<1> HIDE DEF s
<1>6. Covers(DecrefAll(mem, s), Popped(1), Mode) /\ DecrefAll(mem, s).used = mem.used
  BY <1>1, <1>4, <1>5, OperandsReleased
<1> DEFINE m == DecrefAll(mem, s)
<1>7. Finish(m, Rest(1))
  BY <1>1, <1>3 DEF s
<1> HIDE DEF m
<1>8. QED
  BY <1>1, <1>6, <1>7, DropKept DEF m

(* A ledger with one reference more or less. *)
Plus(L, x) == [o \in Mortal |-> L[o] + One(x = o)]
Minus(L, x) == [o \in Mortal |-> L[o] - One(x = o)]

(* One reference more, and one less, is a ledger again. *)
LEMMA PlusMinus ==
    ASSUME NEW L \in Ledgers, NEW x
    PROVE  /\ Plus(L, x) \in Ledgers /\ Minus(L, x) \in Ledgers
           /\ \A o \in Mortal : /\ Plus(L, x)[o] = L[o] + One(x = o)
                                /\ Minus(L, x)[o] = L[o] - One(x = o)
                                /\ L[o] \in Int /\ One(x = o) \in Nat
                                /\ x = o => One(x = o) = 1
                                /\ x # o => One(x = o) = 0
  BY DEF Plus, Minus, One, Ledgers

(* object_incref lets the ledger owe one reference more. *)
LEMMA Counts ==
    ASSUME NEW m, NEW L \in Ledgers, NEW t, Covers(m, L, t), NEW x \in Object, Usable(m, x, t)
    PROVE  /\ Plus(L, x) \in Ledgers
           /\ Covers(Incref(m, x), Plus(L, x), t)
           /\ Incref(m, x).items = m.items
           /\ Incref(m, x).used = m.used
           /\ Keeps(m, Incref(m, x), t)
<1> DEFINE K == Plus(L, x)
<1>1. K \in Ledgers /\ \A o \in Mortal : K[o] <= L[o] + One(x = o)
  BY PlusMinus
<1> HIDE DEF K
<1>2. /\ Covers(Incref(m, x), K, t)
      /\ Incref(m, x).items = m.items
      /\ Incref(m, x).used = m.used
      /\ Keeps(m, Incref(m, x), t)
  BY <1>1, CountOneMore
<1>3. QED
  BY <1>1, <1>2 DEF K

(* object_decref takes one reference that the ledger owes. *)
LEMMA Releases ==
    ASSUME NEW m, NEW L \in Ledgers, NEW t, Covers(m, L, t), NEW x \in Object,
           x \in Mortal => L[x] >= 1, \A o \in Mortal : L[o] >= 0
    PROVE  /\ Minus(L, x) \in Ledgers
           /\ Covers(Decref(m, x), Minus(L, x), t)
           /\ Decref(m, x).items = m.items
           /\ Decref(m, x).used = m.used
           /\ Keeps(m, Decref(m, x), t)
<1> DEFINE K == Minus(L, x)
<1>1. K \in Ledgers /\ \A o \in Mortal : K[o] <= L[o] - One(x = o)
  BY PlusMinus
<1>2. \A o \in Mortal : K[o] >= 0
  BY PlusMinus
<1> HIDE DEF K
<1>3. \A o \in Mortal \ {x} : L[o] >= 0
  OBVIOUS
<1>4. /\ Covers(Decref(m, x), K, t)
      /\ Decref(m, x).items = m.items
      /\ Decref(m, x).used = m.used
      /\ (\A o \in Mortal : K[o] >= 0) => Keeps(m, Decref(m, x), t)
  BY <1>1, <1>3, ReleaseOne
<1>5. QED
  BY <1>1, <1>2, <1>4 DEF K

(* STORE_GLOBAL: the new value is counted, the old one too instead of being
   released, and the operand is released. *)
LEMMA StoreGlobalKept ==
    ASSUME Shape, NEW g \in Globals, StoreGlobal(g)
    PROVE  Kept
<1> DEFINE x == Peek(0)
           y == globals[g]
           m1 == Incref(mem, x)
           m2 == Incref(m1, y)
           m3 == Decref(m2, x)
           L1 == Plus(Ledger, x)
           L2 == Plus(L1, y)
           L3 == Minus(L2, x)
           gs == [globals EXCEPT ![g] = x]
<1>1. Has(1) /\ Finish(m3, Rest(1)) /\ globals' = gs
  BY DEF StoreGlobal
<1>2. Referred(x) /\ Referred(y)
  <2>1. Has(0 + 1) /\ 0 \in Nat
    BY <1>1
  <2>2. QED
    BY <2>1, OperandReferred, GlobalReferred
<1>3. Covers(mem, Ledger, Mode) /\ Ledger \in Ledgers /\ \A o \in Mortal : Ledger[o] \in Nat
  BY Opening DEF Ledger
<1>4. Covers(m1, L1, Mode) /\ L1 \in Ledgers /\ m1.used = mem.used /\ Usable(m1, y, Mode)
      /\ Usable(m1, x, Mode) /\ x \in Object /\ y \in Object
  <2>1. x \in Object /\ Usable(mem, x, Mode) /\ y \in Object /\ Usable(mem, y, Mode)
    BY <1>2 DEF Referred
  <2> HIDE DEF x, y
  <2>2. Covers(m1, L1, Mode) /\ L1 \in Ledgers /\ m1.used = mem.used /\ Keeps(mem, m1, Mode)
    BY <1>3, <2>1, Counts
  <2>3. QED
    BY <2>1, <2>2 DEF Keeps
<1>14. \A o \in Mortal : L1[o] = Ledger[o] + One(x = o)
  BY <1>3, PlusMinus
<1> HIDE DEF m1, L1
<1>5. Covers(m2, L2, Mode) /\ L2 \in Ledgers /\ m2.used = m1.used
  <2> HIDE DEF x, y
  <2>1. QED
    BY <1>4, Counts
<1>15. \A o \in Mortal : L2[o] = L1[o] + One(y = o)
  BY <1>4, PlusMinus
<1> HIDE DEF m2, L2
<1>6. ASSUME NEW o \in Mortal
      PROVE  /\ L2[o] = Ledger[o] + One(x = o) + One(y = o)
             /\ Ledger[o] \in Nat /\ One(x = o) \in Nat /\ One(y = o) \in Nat
             /\ x = o => One(x = o) = 1
  <2>1. L1[o] = Ledger[o] + One(x = o) /\ L2[o] = L1[o] + One(y = o)
    BY <1>14, <1>15
  <2>2. Ledger[o] \in Nat
    BY <1>3
  <2>3. One(x = o) \in Nat /\ One(y = o) \in Nat /\ (x = o => One(x = o) = 1)
    BY OneType
  <2> HIDE DEF x, y
  <2>4. QED
    BY <2>1, <2>2, <2>3
<1>7. Covers(m3, L3, Mode) /\ L3 \in Ledgers /\ m3.used = m2.used
  <2> HIDE DEF x, y
  <2>1. x \in Mortal => L2[x] >= 1
    BY <1>6
  <2>2. \A o \in Mortal : L2[o] >= 0
    BY <1>6
  <2>3. QED
    BY <1>4, <1>5, <2>1, <2>2, Releases
<1>8. \A o \in Mortal : L3[o] = L2[o] - One(x = o)
  BY <1>5, PlusMinus
<1> HIDE DEF m3, L3
<1>9. Rest(1) \in Seq(Object) /\ KnownSeq(m3, Rest(1))
  <2>1. Rest(1) \in Seq(Object) /\ KnownSeq(mem, Rest(1))
    BY <1>1, Operand
  <2>2. mem.used \subseteq m3.used
    BY <1>4, <1>5, <1>7
  <2>3. QED
    BY <2>1, <2>2, KnownMore
<1>10. gs \in [Globals -> Object] /\ KnownSeq(m3, gs)
  <2>1. globals \in [Globals -> Object] /\ KnownSeq(mem, globals)
    BY DEF Shape, MachineOK
  <2>2. x \in mem.used \cup Immortal /\ m3.used = mem.used
    BY <1>2, <1>4, <1>5, <1>7 DEF Referred
  <2> HIDE DEF x
  <2>3. \A i \in Globals : gs[i] \in m3.used \cup Immortal
    BY <2>1, <2>2 DEF KnownSeq
  <2>4. DOMAIN gs = Globals
    BY <2>1
  <2>5. gs \in [Globals -> Object]
    BY <1>4, <2>1
  <2> HIDE DEF gs
  <2>6. QED
    BY <2>3, <2>4, <2>5 DEF KnownSeq
<1>11. ASSUME NEW o \in Mortal
       PROVE  Held(frames, gs)[o] - Occurrences(Stack, o) + Occurrences(Rest(1), o) <= L3[o]
  <2>1. Held(frames, gs)[o] = Ledger[o] - One(y = o) + One(x = o)
    <3>1. frames \in Seq(FrameType) /\ globals \in [Globals -> Object]
      BY Opening
    <3>2. gs \in [Globals -> Object] /\ gs[g] = x /\ \A i \in Globals \ {g} : gs[i] = globals[i]
      BY <1>10, <3>1
    <3> HIDE DEF gs, x
    <3>3. Held(frames, gs)[o] = Held(frames, globals)[o] - One(globals[g] = o) + One(gs[g] = o)
      BY <3>1, <3>2, HeldGlobals
    <3>4. QED
      BY <3>2, <3>3 DEF Ledger
  <2>2. /\ Ledger[o] - Occurrences(Args(1), o)
              = Ledger[o] - Occurrences(Stack, o) + Occurrences(Rest(1), o)
        /\ Occurrences(Rest(1), o) \in Nat /\ Occurrences(Stack, o) \in Nat
        /\ Occurrences(Args(1), o) \in Nat
    BY <1>1, PoppedLedger
  <2>3. Occurrences(Args(1), o) = One(x = o)
    BY <1>1, TopOperands, OccurrencesOne
  <2> HIDE DEF x, y, gs
  <2>4. QED
    BY <1>6, <1>8, <2>1, <2>2, <2>3
<1>12. mem.used \subseteq m3.used
  BY <1>4, <1>5, <1>7
<1> HIDE DEF gs
<1>13. QED
  BY <1>1, <1>7, <1>9, <1>10, <1>11, <1>12, FinishKept

(* The end of a step that changes the running activation. *)
LEMMA FrameKept ==
    ASSUME Shape, ~ mem.undefined, argsSwept' = argsSwept, NEW m, mem' = m,
           NEW g \in FrameType, frames' = [frames EXCEPT ![Len(frames)] = g],
           g.args = <<>>, FrameKnown(m, g), globals' = globals, mem.used \subseteq m.used,
           NEW K \in Ledgers, Covers(m, K, Mode),
           \A o \in Mortal : Ledger[o] - Occurrences(FrameObjects(Frame), o)
                                       + Occurrences(FrameObjects(g), o) <= K[o]
    PROVE  Kept
<1> DEFINE n == Len(frames)
           fs == [frames EXCEPT ![n] = g]
<1>1. /\ frames \in Seq(FrameType) /\ n \in DOMAIN frames
      /\ globals \in [Globals -> Object] /\ KnownSeq(mem, globals)
      /\ n \in 1 .. MaxDepth /\ \A k \in DOMAIN frames : Len(frames[k].args) <= MaxArgs
  BY Opening DEF Shape, MachineOK, FramesOK
<1>2. /\ Len(fs) = n /\ DOMAIN fs = DOMAIN frames
      /\ fs[n] = g /\ \A k \in DOMAIN frames \ {n} : fs[k] = frames[k]
  BY <1>1
<1>3. fs \in Seq(FrameType)
  BY <1>1
<1>11. ASSUME NEW o \in Mortal
       PROVE  Held(fs, globals)[o]
                 = Held(frames, globals)[o] - Occurrences(FrameObjects(frames[n]), o)
                                            + Occurrences(FrameObjects(g), o)
  <2>1. frames \in Seq(FrameType) /\ globals \in [Globals -> Object] /\ n \in DOMAIN frames
    BY <1>1
  <2> HIDE DEF n
  <2>2. /\ [frames EXCEPT ![n] = g] \in Seq(FrameType)
        /\ Held([frames EXCEPT ![n] = g], globals)[o]
              = Held(frames, globals)[o] - Occurrences(FrameObjects(frames[n]), o)
                                         + Occurrences(FrameObjects(g), o)
        /\ Held(frames, globals)[o] >= Occurrences(FrameObjects(frames[n]), o)
    BY <2>1, HeldUpdate
  <2>3. QED
    BY <2>2
<1> HIDE DEF fs
<1>4. FramesOK(fs)
  <2>1. Len(g.args) <= MaxArgs
    BY VMAssumption
  <2>2. \A k \in DOMAIN fs : Len(fs[k].args) <= MaxArgs
    BY <1>1, <1>2, <2>1
  <2>3. fs[Len(fs)].args = <<>> /\ Len(fs) \in 1 .. MaxDepth
    BY <1>1, <1>2
  <2>4. QED
    BY <1>3, <2>2, <2>3 DEF FramesOK
<1>5. ASSUME NEW k \in DOMAIN fs PROVE FrameKnown(m, fs[k])
  <2>1. CASE k = n
    BY <1>2, <2>1
  <2>2. CASE k # n
    <3>1. /\ KnownSeq(mem, frames[k].locals) /\ KnownSeq(mem, frames[k].stack)
          /\ KnownSeq(mem, frames[k].args)
      BY <1>2 DEF Shape, MachineOK, FrameKnown
    <3>2. /\ KnownSeq(m, frames[k].locals) /\ KnownSeq(m, frames[k].stack)
          /\ KnownSeq(m, frames[k].args)
      BY <3>1, KnownMore
    <3>3. QED
      BY <1>2, <2>2, <3>2 DEF FrameKnown
  <2>3. QED
    BY <2>1, <2>2
<1>6. KnownSeq(m, globals)
  BY <1>1, KnownMore
<1>7. MachineOK(m, fs, globals)
  BY <1>1, <1>4, <1>5, <1>6 DEF MachineOK, Covers
<1>8. \A o \in Mortal : Held(fs, globals)[o] <= K[o]
  BY <1>11 DEF Ledger, Frame
<1>9. frames' = fs
  BY DEF fs
<1>10. QED
  BY <1>7, <1>8, <1>9, Closing

(* STORE_FAST: the new value is counted and the old one released; the count
   the operand had stays. *)
LEMMA StoreFastKept ==
    ASSUME Shape, NEW i, StoreFast(i)
    PROVE  Kept
<1> DEFINE f == Frame
           x == Peek(0)
           y == f.locals[i]
           m1 == Incref(mem, x)
           m2 == Decref(m1, y)
           L1 == Plus(Ledger, x)
           L2 == Minus(L1, y)
           l == [f.locals EXCEPT ![i] = x]
           r == Rest(1)
           g == [f EXCEPT !.locals = l, !.stack = r]
<1>1. /\ Has(1) /\ i \in DOMAIN f.locals /\ ~ mem.undefined /\ mem' = m2
      /\ frames' = [frames EXCEPT ![Len(frames)] = [@ EXCEPT !.locals[i] = x, !.stack = r]]
      /\ globals' = globals /\ argsSwept' = argsSwept
  BY DEF StoreFast, Ready
<1>2. Referred(x) /\ Referred(y)
  <2>1. Has(0 + 1) /\ 0 \in Nat
    BY <1>1
  <2>2. QED
    BY <1>1, <2>1, OperandReferred, LocalReferred
<1>3. Covers(mem, Ledger, Mode) /\ Ledger \in Ledgers /\ \A o \in Mortal : Ledger[o] \in Nat
  BY Opening DEF Ledger
<1>4. /\ x \in Object /\ Usable(mem, x, Mode) /\ x \in mem.used \cup Immortal /\ y \in Object
      /\ y \in Mortal => Ledger[y] >= 1
  BY <1>2 DEF Referred
<1>5. /\ f \in FrameType /\ FrameKnown(mem, f) /\ f = frames[Len(frames)]
      /\ frames \in Seq(FrameType) /\ Len(frames) \in DOMAIN frames
      /\ f.args = <<>>
  BY Opening DEF Shape, MachineOK, FramesOK, Frame
<1>6. /\ r \in Seq(Object) /\ KnownSeq(mem, r)
      /\ \A o \in Mortal : /\ Occurrences(Stack, o) = Occurrences(r, o) + One(x = o)
                           /\ Occurrences(r, o) \in Nat
  <2>1. \A o \in Mortal : /\ Occurrences(Stack, o) = Occurrences(r, o) + Occurrences(Args(1), o)
                          /\ Occurrences(r, o) \in Nat
    BY <1>1, Operand
  <2>2. \A o \in Mortal : Occurrences(Args(1), o) = One(x = o)
    BY <1>1, TopOperands, OccurrencesOne
  <2>3. QED
    BY <1>1, <2>1, <2>2, Operand
<1>7. /\ f.locals \in Seq(Object) /\ KnownSeq(mem, f.locals) /\ i \in DOMAIN f.locals
      /\ f.stack = Stack
  BY <1>1, <1>5 DEF FrameType, FrameKnown, Stack
<1>8. /\ g \in FrameType /\ g.locals = l /\ g.stack = r /\ g.args = f.args
  <2>1. l \in Seq(Object)
    BY <1>4, <1>7
  <2> HIDE DEF l, r
  <2>2. QED
    BY <1>5, <1>6, <2>1 DEF FrameType
<1>9. frames' = [frames EXCEPT ![Len(frames)] = g]
  <2>1. [f EXCEPT !.locals[i] = x, !.stack = r] = g
    BY <1>5
  <2> HIDE DEF g, x, r
  <2>2. QED
    BY <1>1, <1>5, <2>1
<1>10. KnownSeq(mem, l)
  <2> DEFINE k == f.locals
  <2>1. k \in Seq(Object) /\ KnownSeq(mem, k) /\ l = [k EXCEPT ![i] = x]
    BY <1>7
  <2> HIDE DEF k, x, l
  <2>2. \A j \in DOMAIN l : j \in DOMAIN k /\ (l[j] = x \/ l[j] = k[j])
    BY <2>1
  <2>3. QED
    BY <1>4, <2>1, <2>2 DEF KnownSeq
<1>11. ASSUME NEW o \in Mortal
       PROVE  /\ Occurrences(l, o) = Occurrences(f.locals, o) - One(y = o) + One(x = o)
              /\ Occurrences(f.locals, o) \in Nat
  <2> DEFINE k == f.locals
  <2>1. IsFiniteSet(DOMAIN k) /\ i \in DOMAIN k
    BY <1>7, SeqFinite
  <2> HIDE DEF k, x
  <2>2. Occurrences([k EXCEPT ![i] = x], o) = Occurrences(k, o) - One(k[i] = o) + One(x = o)
    BY <2>1, OccurrencesExcept
  <2>3. Occurrences(k, o) \in Nat
    BY <2>1, OccurrencesType
  <2>4. QED
    BY <2>2, <2>3, Zenon DEF k
<1> HIDE DEF l, r, g
<1>12. Covers(m1, L1, Mode) /\ L1 \in Ledgers /\ m1.used = mem.used
       /\ \A o \in Mortal : L1[o] = Ledger[o] + One(x = o)
  <2> HIDE DEF x, y
  <2>1. QED
    BY <1>3, <1>4, Counts, PlusMinus
<1> HIDE DEF m1, L1
<1>13. \A o \in Mortal : One(x = o) \in Nat /\ One(y = o) \in Nat
  BY OneType
<1>14. /\ \A o \in Mortal : L1[o] >= 0
       /\ y \in Mortal => L1[y] >= 1
  <2> HIDE DEF x, y
  <2>1. QED
    BY <1>3, <1>4, <1>12, <1>13
<1>15. Covers(m2, L2, Mode) /\ L2 \in Ledgers /\ m2.used = m1.used
       /\ \A o \in Mortal : L2[o] = L1[o] - One(y = o)
  <2> HIDE DEF x, y
  <2>1. QED
    BY <1>4, <1>12, <1>14, Releases, PlusMinus
<1> HIDE DEF m2, L2
<1>16. FrameKnown(m2, g)
  <2>1. mem.used \subseteq m2.used /\ KnownSeq(mem, f.args)
    BY <1>5, <1>12, <1>15 DEF FrameKnown
  <2>2. KnownSeq(m2, l) /\ KnownSeq(m2, r) /\ KnownSeq(m2, f.args)
    BY <1>6, <1>10, <2>1, KnownMore
  <2>3. QED
    BY <1>8, <2>2 DEF FrameKnown
<1>17. ASSUME NEW o \in Mortal
       PROVE  Ledger[o] - Occurrences(FrameObjects(f), o) + Occurrences(FrameObjects(g), o)
                 <= L2[o]
  <2>1. /\ Occurrences(FrameObjects(f), o)
              = Occurrences(f.locals, o) + Occurrences(f.stack, o) + Occurrences(f.args, o)
        /\ Occurrences(f.locals, o) \in Nat /\ Occurrences(f.stack, o) \in Nat
        /\ Occurrences(f.args, o) \in Nat
    BY <1>5, FrameCount
  <2>2. /\ Occurrences(FrameObjects(g), o)
              = Occurrences(g.locals, o) + Occurrences(g.stack, o) + Occurrences(g.args, o)
    BY <1>8, FrameCount
  <2>3. Occurrences(FrameObjects(g), o)
           = Occurrences(l, o) + Occurrences(r, o) + Occurrences(f.args, o)
    BY <1>8, <2>2
  <2>4. /\ Occurrences(l, o) = Occurrences(f.locals, o) - One(y = o) + One(x = o)
        /\ Occurrences(f.stack, o) = Occurrences(r, o) + One(x = o)
        /\ Occurrences(r, o) \in Nat
    BY <1>6, <1>7, <1>11
  <2>5. L2[o] = Ledger[o] + One(x = o) - One(y = o)
    <3>1. L1[o] = Ledger[o] + One(x = o) /\ L2[o] = L1[o] - One(y = o)
      BY <1>12, <1>15
    <3>2. Ledger[o] \in Nat /\ One(x = o) \in Nat /\ One(y = o) \in Nat
      BY <1>3, <1>13
    <3> HIDE DEF x, y
    <3>3. QED
      BY <3>1, <3>2
  <2>6. Ledger[o] \in Nat /\ One(x = o) \in Nat /\ One(y = o) \in Nat
    BY <1>3, <1>13
  <2> HIDE DEF x, y, f
  <2>7. QED
    BY <2>1, <2>3, <2>4, <2>5, <2>6
<1>18. mem.used \subseteq m2.used /\ g.args = <<>>
  BY <1>5, <1>8, <1>12, <1>15
<1>19. QED
  BY <1>1, <1>8, <1>9, <1>15, <1>16, <1>17, <1>18, FrameKept

(* Operands are released, and a result is counted and pushed. *)
LEMMA ResultKept ==
    ASSUME Shape, NEW n \in Nat, Has(n), NEW m, mem.used \subseteq m.used,
           Covers(m, Ledger, Mode), NEW s \in Seq(Object),
           \A o \in Mortal : Occurrences(s, o) = Occurrences(Args(n), o),
           NEW x \in Object, Usable(m, x, Mode),
           FinishPush(DecrefAll(m, s), Rest(n), x), globals' = globals
    PROVE  Kept
<1> DEFINE r == DecrefAll(m, s)
<1>1. Covers(r, Popped(n), Mode) /\ r.used = m.used /\ Keeps(m, r, Mode)
  BY OperandsReleased
<1>2. Usable(r, x, Mode)
  BY <1>1 DEF Keeps
<1> HIDE DEF r
<1>3. FinishPush(r, Rest(n), x) /\ mem.used \subseteq r.used
  BY <1>1 DEF r
<1>4. QED
  BY <1>1, <1>2, <1>3, ReplaceKept

(* The same when the result is a new object. *)
LEMMA NewResultKept ==
    ASSUME Shape, NEW n \in Nat, Has(n), NEW m, NEW x, IsNew(mem, m, x),
           NEW s \in Seq(Object),
           \A o \in Mortal : Occurrences(s, o) = Occurrences(Args(n), o),
           FinishPush(DecrefAll(m, s), Rest(n), x), globals' = globals
    PROVE  Kept
<1>1. Covers(mem, Ledger, Mode) /\ Ledger \in Ledgers
  BY Opening DEF Ledger
<1>2. /\ Covers(m, Ledger, Mode) /\ Usable(m, x, Mode) /\ x \in Object
      /\ mem.used \subseteq m.used
  BY <1>1, CoversNew
<1>3. QED
  BY <1>2, ResultKept

(* The end of an operator: a result that is new or immortal, the operands
   released. *)
LEMMA FinishOperatorKept ==
    ASSUME Shape, NEW n \in Nat, Has(n), NEW s \in Seq(Object),
           \A o \in Mortal : Occurrences(s, o) = Occurrences(Args(n), o),
           FinishOperator(n, s), globals' = globals
    PROVE  Kept
<1>1. Covers(mem, Ledger, Mode) /\ Ledger \in Ledgers /\ MemoryOK(mem)
  BY Opening DEF Ledger
<1>2. CASE \E o \in Immortal : FinishPush(DecrefAll(mem, s), Rest(n), o)
  <2>1. PICK x \in Immortal : FinishPush(DecrefAll(mem, s), Rest(n), x)
    BY <1>2
  <2>2. x \in Object /\ Usable(mem, x, Mode)
    BY MemoryAssumption DEF Usable
  <2>3. QED
    BY <1>1, <2>1, <2>2, ResultKept
<1>3. CASE HasFree(mem, "int")
           /\ FinishPush(DecrefAll(Alloc(mem, "int"), s), Rest(n), NextObject(mem, "int"))
  <2> DEFINE kind == "int"
             m == Alloc(mem, kind)
             x == NextObject(mem, kind)
  <2>1. kind \in DOMAIN Pool
    BY MemoryAssumption
  <2>2. HasFree(mem, kind) /\ FinishPush(DecrefAll(m, s), Rest(n), x)
    BY <1>3
  <2> HIDE DEF kind
  <2>3. IsNew(mem, m, x)
    BY <1>1, <2>1, <2>2, AllocBalance
  <2> HIDE DEF m, x
  <2>4. QED
    BY <2>2, <2>3, NewResultKept
<1>4. CASE HasFresh(mem)
           /\ FinishPush(DecrefAll(AllocFloatFromBf(mem), s), Rest(n), FreshFloat(mem))
  <2> DEFINE m == AllocFloatFromBf(mem)
             x == FreshFloat(mem)
  <2>1. IsNew(mem, m, x)
    BY <1>1, <1>4, AllocFloatBalance
  <2>2. FinishPush(DecrefAll(m, s), Rest(n), x)
    BY <1>4
  <2> HIDE DEF m, x
  <2>3. QED
    BY <2>1, <2>2, NewResultKept
<1>5. QED
  BY <1>2, <1>3, <1>4 DEF FinishOperator

(* BINARY_OP and UNARY_OP, however they end. *)
LEMMA OperatorKept ==
    ASSUME Shape, BinaryOp \/ UnaryOp
    PROVE  Kept
<1>1. CASE BinaryOp
  <2>1. Has(2) /\ FinishOperator(2, Args(2)) /\ globals' = globals
    BY <1>1, TopOperands DEF BinaryOp
  <2>2. 2 \in Nat /\ Args(2) \in Seq(Object)
    BY <2>1, Operand
  <2>3. QED
    BY <2>1, <2>2, FinishOperatorKept
<1>2. CASE UnaryOp
  <2>1. Has(1) /\ FinishOperator(1, Args(1)) /\ globals' = globals
    BY <1>2, TopOperands DEF UnaryOp
  <2>2. 1 \in Nat /\ Args(1) \in Seq(Object)
    BY <2>1, Operand
  <2>3. QED
    BY <2>1, <2>2, FinishOperatorKept
<1>3. QED
  BY <1>1, <1>2

-----------------------------------------------------------------------------
(* Arrays.                                                                 *)

(* BUILD_ARRAY 0: the size is popped, the elements of the new array are
   none. *)
LEMMA BuildEmptyArrayKept ==
    ASSUME Shape, BuildEmptyArray
    PROVE  Kept
<1> DEFINE s == Args(1)
<1>1. Has(1) /\ globals' = globals
  BY DEF BuildEmptyArray
<1>2. /\ s = <<Peek(0)>> /\ s \in Seq(Object)
      /\ \A o \in Mortal : Occurrences(s, o) = Occurrences(Args(1), o)
  BY <1>1, TopOperands, Operand
<1>3. \A m : Decref(m, Peek(0)) = DecrefAll(m, s)
  BY <1>2 DEF Decref
<1>4. Covers(mem, Ledger, Mode) /\ Ledger \in Ledgers /\ MemoryOK(mem)
  BY Opening DEF Ledger
<1> HIDE DEF s
<1>5. ASSUME NEW size \in 0 .. MaxItems, HasFree(mem, "array"),
             FinishPush(Decref(AllocArray(mem, size), Peek(0)), Rest(1), NextObject(mem, "array"))
      PROVE  Kept
  <2> DEFINE m == AllocArray(mem, size)
             x == NextObject(mem, "array")
  <2>1. size \in Nat
    BY <1>5
  <2>2. IsNew(mem, m, x)
    BY <1>4, <1>5, <2>1, AllocArrayBalance
  <2>3. FinishPush(DecrefAll(m, s), Rest(1), x)
    BY <1>3, <1>5
  <2> HIDE DEF m, x
  <2>4. QED
    BY <1>1, <1>2, <2>2, <2>3, NewResultKept
<1>6. ASSUME FinishPush(Decref(mem, Peek(0)), Rest(1), NoneObject)
      PROVE  Kept
  <2>1. NoneObject \in Object /\ Usable(mem, NoneObject, Mode)
    BY MemoryAssumption DEF Usable
  <2>2. FinishPush(DecrefAll(mem, s), Rest(1), NoneObject)
    BY <1>3, <1>6
  <2>3. QED
    BY <1>1, <1>2, <1>4, <2>1, <2>2, ResultKept
<1>7. QED
  BY <1>5, <1>6 DEF BuildEmptyArray

(* An access that C leaves undefined. *)
LEMMA WildAccessKept ==
    ASSUME Shape, WildAccess, globals' = globals
    PROVE  Kept
<1> DEFINE m == [mem EXCEPT !.undefined = TRUE]
<1>1. Finish(m, Stack)
  BY DEF WildAccess
<1>2. MemoryOK(mem) /\ mem \in Memories /\ Shape
  BY Opening DEF MemoryOK
<1>3. /\ m.rc = mem.rc /\ m.items = mem.items /\ m.buffer = mem.buffer /\ m.used = mem.used
      /\ m.undefined = TRUE /\ m \in Memories
  BY <1>2 DEF Memories
<1> HIDE DEF m
<1>4. InUse(m) = InUse(mem)
  BY <1>3 DEF InUse
<1>5. MemoryOK(m)
  BY <1>2, <1>3, <1>4 DEF MemoryOK
<1>6. /\ mem' = m /\ frames' = WithStack(frames, Stack) /\ argsSwept' = argsSwept
  BY <1>1 DEF Finish, WithStack
<1>7. /\ frames \in Seq(FrameType) /\ frames # <<>> /\ frames[Len(frames)] \in FrameType
      /\ Len(frames) \in DOMAIN frames
  BY Opening
<1>8. WithStack(frames, Stack) = frames
  <2> DEFINE n == Len(frames)
             f == frames[n]
             g == [f EXCEPT !.stack = f.stack]
  <2>1. g = f
    BY <1>7 DEF FrameType
  <2>2. WithStack(frames, Stack) = [frames EXCEPT ![n] = g]
    BY DEF WithStack, Stack, Frame
  <2> HIDE DEF g
  <2>3. [frames EXCEPT ![n] = f] = frames
    BY <1>7
  <2>4. QED
    BY <2>1, <2>2, <2>3
<1>9. MachineOK(m, frames, globals)
  <2>1. ASSUME NEW s, KnownSeq(mem, s) PROVE KnownSeq(m, s)
    BY <1>3, <2>1 DEF KnownSeq
  <2>2. \A k \in DOMAIN frames : FrameKnown(m, frames[k])
    BY <2>1 DEF Shape, MachineOK, FrameKnown
  <2>3. QED
    BY <1>5, <2>1, <2>2 DEF Shape, MachineOK
<1>10. Shape'
  BY <1>6, <1>8, <1>9 DEF Shape
<1>11. Counted'
  BY <1>3, <1>6 DEF Counted, Settled
<1>12. QED
  BY <1>10, <1>11 DEF Kept

(* A new array gets its elements: the ledger gives their references to it. *)
LEMMA CoversItems ==
    ASSUME NEW m, NEW L \in Ledgers, NEW t, Covers(m, L, t), NEW a \in m.used,
           Kind[a] = "array", m.buffer[a] # "null", t = "counts" => a \in InUse(m),
           NEW s \in Seq(Object), KnownSeq(m, s),
           NEW K \in Ledgers, \A o \in Mortal : K[o] <= L[o] - Occurrences(s, o)
    PROVE  /\ Covers([m EXCEPT !.items[a] = s], K, t)
           /\ [m EXCEPT !.items[a] = s].used = m.used
           /\ Keeps(m, [m EXCEPT !.items[a] = s], t)
<1> DEFINE n == [m EXCEPT !.items[a] = s]
<1>1. MemoryOK(m) /\ m \in Memories /\ a \in Object /\ \A i \in DOMAIN s : s[i] \in m.used \cup Immortal
  BY DEF Covers, MemoryOK, Memories, Mortal, KnownSeq
<1>2. /\ MemoryOK([m EXCEPT !.items[a] = s])
      /\ [m EXCEPT !.items[a] = s].rc = m.rc /\ [m EXCEPT !.items[a] = s].used = m.used
      /\ [m EXCEPT !.items[a] = s].buffer = m.buffer
      /\ [m EXCEPT !.items[a] = s].items = [m.items EXCEPT ![a] = s]
  BY <1>1, ItemsShape
<1>3. Rewritten(m, n, a, s)
  <2>1. "live" \in Buffer /\ "live" # "null"
    BY DEF Buffer
  <2> DEFINE b == "live"
  <2>2. b \in Buffer /\ (b = "null" => s = <<>>)
    BY <2>1
  <2> HIDE DEF b
  <2>3. /\ Rewritten(m, [m EXCEPT !.items[a] = s, !.buffer[a] = b], a, s)
        /\ m.buffer[a] # "null" => Rewritten(m, [m EXCEPT !.items[a] = s], a, s)
    BY <1>1, <2>2, RewriteShape
  <2>4. QED
    BY <2>3
<1>4. MemoryOK(n) /\ n.used = m.used /\ n.rc = m.rc /\ n.buffer = m.buffer
  BY <1>2
<1> HIDE DEF n
<1>5. InUse(n) = InUse(m)
  BY <1>4 DEF InUse
<1>6. ASSUME t = "counts", NEW o \in Mortal
      PROVE  /\ Balance(n, o) >= K[o]
             /\ o \in InUse(n) /\ Kind[o] # "function" => Balance(n, o) > K[o]
  <2>1. /\ Balance(n, o) = Balance(m, o) + Occurrences(m.items[a], o) - Occurrences(s, o)
        /\ Occurrences(m.items[a], o) \in Nat /\ Occurrences(s, o) \in Nat
    <3>1. a \in InUse(m)
      BY <1>6
    <3>2. QED
      BY <1>1, <1>3, <3>1, RewrittenBalance
  <2>2. /\ Balance(m, o) >= L[o]
        /\ o \in InUse(n) /\ Kind[o] # "function" => Balance(m, o) > L[o]
    BY <1>5, <1>6 DEF Covers
  <2>3. K[o] <= L[o] - Occurrences(s, o)
    OBVIOUS
  <2>4. Balance(m, o) \in Int /\ L[o] \in Int /\ K[o] \in Int
    BY <1>1, BalanceType DEF Ledgers
  <2>5. QED
    BY <2>1, <2>2, <2>3, <2>4
<1>7. Covers(n, K, t)
  <2>1. t = "counts" => Clean(n)
    BY <1>4 DEF Covers, Clean
  <2>2. QED
    BY <1>4, <1>6, <2>1 DEF Covers
<1>8. Keeps(m, n, t)
  BY <1>4, <1>5 DEF Keeps, Usable
<1>9. QED
  BY <1>4, <1>7, <1>8 DEF n

(* BUILD_ARRAY: the operands become elements; each is counted for the array
   and released from the stack. *)
LEMMA BuildArrayKept ==
    ASSUME Shape, NEW n \in Nat, BuildArray(n)
    PROVE  Kept
<1> DEFINE a == NextObject(mem, "array")
           s == Args(n)
           m1 == AllocArray(mem, n)
           m2 == IncrefAll(m1, s)
           m3 == DecrefAll(m2, s)
           m4 == [m3 EXCEPT !.items[a] = s]
           L == [o \in Mortal |-> Ledger[o] + Occurrences(s, o)]
<1>1. /\ Has(n) /\ HasFree(mem, "array") /\ globals' = globals
      /\ FinishPush(m4, Rest(n), a)
  BY DEF BuildArray, Args
<1>2. Covers(mem, Ledger, Mode) /\ Ledger \in Ledgers /\ MemoryOK(mem)
  BY Opening DEF Ledger
<1>3. /\ s \in Seq(Object) /\ Len(s) = n /\ KnownSeq(mem, s)
      /\ \A i \in 1 .. n : s[i] = Peek(n - i)
  BY <1>1, Operand
<1>4. IsNew(mem, m1, a) /\ Kind[a] = "array" /\ m1.buffer[a] = "live" /\ a \in m1.used
  BY <1>1, <1>2, AllocArrayBalance
<1> HIDE DEF a, s, m1
<1>5. /\ Covers(m1, Ledger, Mode) /\ Usable(m1, a, Mode) /\ a \in Object
      /\ mem.used \subseteq m1.used /\ Keeps(mem, m1, Mode)
  BY <1>2, <1>4, CoversNew
<1>6. \A i \in DOMAIN s : Usable(m1, s[i], Mode)
  <2> SUFFICES ASSUME NEW i \in 1 .. n PROVE Usable(m1, s[i], Mode)
    BY <1>3
  <2> DEFINE k == n - i
  <2>1. k \in Nat /\ k + 1 <= n
    OBVIOUS
  <2>2. Has(k + 1)
    <3>1. Len(Stack) \in Nat /\ Len(Stack) >= n
      <4>1. frames[Len(frames)] \in FrameType
        BY Opening
      <4>2. QED
        BY <1>1, <4>1 DEF Has, Stack, Frame, FrameType
    <3> HIDE DEF k
    <3>2. QED
      BY <2>1, <3>1 DEF Has
  <2>3. s[i] = Peek(k)
    BY <1>3
  <2> HIDE DEF k
  <2>4. Referred(Peek(k))
    BY <2>1, <2>2, OperandReferred
  <2>5. QED
    BY <1>5, <2>3, <2>4 DEF Referred, Keeps
<1>7. \A o \in Mortal : /\ Ledger[o] \in Nat
                        /\ Popped(n)[o] = Ledger[o] - Occurrences(s, o)
                        /\ Occurrences(s, o) \in Nat
                        /\ L[o] = Ledger[o] + Occurrences(s, o)
  BY <1>1, PoppedLedger DEF s
<1>8. L \in Ledgers
  <2>1. \A o \in Mortal : Ledger[o] + Occurrences(s, o) \in Int
    BY <1>7
  <2>2. QED
    BY <2>1 DEF Ledgers
<1> HIDE DEF L
<1>9. /\ Covers(m2, L, Mode) /\ m2.used = m1.used /\ m2.buffer = m1.buffer
      /\ Keeps(m1, m2, Mode)
  <2>1. \A o \in Mortal : L[o] <= Ledger[o] + Occurrences(s, o)
    BY <1>7
  <2>2. QED
    BY <1>2, <1>3, <1>5, <1>6, <1>8, <2>1, CountAll
<1> HIDE DEF m2
<1>10. /\ Covers(m3, Ledger, Mode) /\ m3.used = m2.used /\ Keeps(m2, m3, Mode)
       /\ \A o \in Object : m2.buffer[o] # "null" => m3.buffer[o] # "null"
  <2>1. \A o \in Mortal : L[o] >= Occurrences(s, o)
    BY <1>7
  <2>2. \A o \in Mortal : Ledger[o] <= L[o] - Occurrences(s, o)
    BY <1>7
  <2>3. \A o \in Mortal : Ledger[o] >= 0
    BY <1>7
  <2>4. QED
    BY <1>2, <1>3, <1>8, <1>9, <2>1, <2>2, <2>3, ReleaseAll
<1> HIDE DEF m3
<1>11. a \in m3.used /\ m3.buffer[a] # "null" /\ Usable(m3, a, Mode)
  <2>1. m2.buffer[a] # "null"
    BY <1>4, <1>9
  <2>2. QED
    BY <1>4, <1>5, <1>9, <1>10, <2>1 DEF Keeps
<1>12. Mode = "counts" => a \in InUse(m3)
  <2>1. a \notin Immortal
    BY <1>4 DEF IsNew, Mortal
  <2>2. "array" # "function"
    OBVIOUS
  <2>3. QED
    BY <1>4, <1>11, <2>1, <2>2 DEF Usable
<1>13. KnownSeq(m3, s)
  BY <1>3, <1>5, <1>9, <1>10, KnownMore
<1>14. Covers(m4, Popped(n), Mode) /\ m4.used = m3.used /\ Keeps(m3, m4, Mode)
  <2>1. Popped(n) \in Ledgers
    BY <1>1, PoppedLedger
  <2>2. \A o \in Mortal : Popped(n)[o] <= Ledger[o] - Occurrences(s, o)
    BY <1>7
  <2>3. QED
    BY <1>2, <1>3, <1>4, <1>10, <1>11, <1>12, <1>13, <2>1, <2>2, CoversItems
<1> HIDE DEF m4
<1>15. mem.used \subseteq m4.used /\ Usable(m4, a, Mode)
  BY <1>5, <1>9, <1>10, <1>11, <1>14 DEF Keeps
<1>16. QED
  BY <1>1, <1>5, <1>14, <1>15, ReplaceKept

(* What is owed when two or three operands are released. *)
LEMMA PoppedTwo ==
    ASSUME Shape, Has(2)
    PROVE  /\ Referred(Peek(0)) /\ Referred(Peek(1))
           /\ Popped(2) \in Ledgers /\ Ledger \in Ledgers
           /\ \A o \in Mortal :
                 /\ Popped(2)[o] = Ledger[o] - One(Peek(1) = o) - One(Peek(0) = o)
                 /\ Occurrences(Args(2), o) = One(Peek(1) = o) + One(Peek(0) = o)
                 /\ Popped(2)[o] \in Nat /\ Ledger[o] \in Nat
                 /\ One(Peek(1) = o) \in Nat /\ One(Peek(0) = o) \in Nat
<1> DEFINE x == Peek(1)
           y == Peek(0)
<1>1. Referred(y) /\ Referred(x)
  <2>1. Has(0 + 1) /\ Has(1 + 1) /\ 0 \in Nat /\ 1 \in Nat
    <3>1. Len(Stack) \in Nat
      <4>1. frames[Len(frames)] \in FrameType
        BY Opening
      <4>2. QED
        BY <4>1 DEF Stack, Frame, FrameType
    <3>2. QED
      BY <3>1 DEF Has
  <2>2. QED
    BY <2>1, OperandReferred
<1>2. Popped(2) \in Ledgers /\ Ledger \in Ledgers
  BY PoppedLedger
<1>3. Args(2) = <<x, y>> /\ x \in Object /\ y \in Object
  BY <1>1, TopOperands DEF Referred
<1> HIDE DEF x, y
<1>4. ASSUME NEW o \in Mortal
      PROVE  /\ Popped(2)[o] = Ledger[o] - One(x = o) - One(y = o)
             /\ Occurrences(Args(2), o) = One(x = o) + One(y = o)
             /\ Popped(2)[o] \in Nat /\ Ledger[o] \in Nat
             /\ One(x = o) \in Nat /\ One(y = o) \in Nat
  <2>1. Occurrences(Args(2), o) = One(x = o) + One(y = o)
    BY <1>3, OccurrencesTwo
  <2>2. One(x = o) \in Nat /\ One(y = o) \in Nat
    BY OneType
  <2>3. /\ Popped(2)[o] = Ledger[o] - Occurrences(Args(2), o)
        /\ Popped(2)[o] \in Nat /\ Ledger[o] \in Nat
    BY PoppedLedger
  <2>4. QED
    BY <2>1, <2>2, <2>3
<1>5. QED
  BY <1>1, <1>2, <1>4 DEF x, y

(* Three operands at once. *)
LEMMA PoppedThree ==
    ASSUME Shape, Has(3)
    PROVE  /\ Referred(Peek(0)) /\ Referred(Peek(1)) /\ Referred(Peek(2))
           /\ Popped(3) \in Ledgers /\ Ledger \in Ledgers
           /\ \A o \in Mortal :
                 /\ Popped(3)[o]
                       = Ledger[o] - One(Peek(2) = o) - One(Peek(1) = o) - One(Peek(0) = o)
                 /\ Popped(3)[o] \in Nat /\ Ledger[o] \in Nat
                 /\ One(Peek(2) = o) \in Nat
                 /\ One(Peek(1) = o) \in Nat /\ One(Peek(0) = o) \in Nat
<1> DEFINE x == Peek(2)
           y == Peek(1)
           z == Peek(0)
<1>1. Referred(z) /\ Referred(y) /\ Referred(x)
  <2>1. /\ Has(0 + 1) /\ Has(1 + 1) /\ Has(2 + 1)
        /\ 0 \in Nat /\ 1 \in Nat /\ 2 \in Nat
    <3>1. Len(Stack) \in Nat
      <4>1. frames[Len(frames)] \in FrameType
        BY Opening
      <4>2. QED
        BY <4>1 DEF Stack, Frame, FrameType
    <3>2. QED
      BY <3>1 DEF Has
  <2>2. QED
    BY <2>1, OperandReferred
<1>2. Popped(3) \in Ledgers /\ Ledger \in Ledgers
  BY PoppedLedger
<1>3. Args(3) = <<x, y, z>> /\ x \in Object /\ y \in Object /\ z \in Object
  BY <1>1, TopOperands DEF Referred
<1> HIDE DEF x, y, z
<1>4. ASSUME NEW o \in Mortal
      PROVE  /\ Popped(3)[o] = Ledger[o] - One(x = o) - One(y = o) - One(z = o)
             /\ Popped(3)[o] \in Nat /\ Ledger[o] \in Nat
             /\ One(x = o) \in Nat /\ One(y = o) \in Nat /\ One(z = o) \in Nat
  <2>1. Occurrences(Args(3), o) = One(x = o) + One(y = o) + One(z = o)
    BY <1>3, OccurrencesThree
  <2>2. One(x = o) \in Nat /\ One(y = o) \in Nat /\ One(z = o) \in Nat
    BY OneType
  <2>3. /\ Popped(3)[o] = Ledger[o] - Occurrences(Args(3), o)
        /\ Popped(3)[o] \in Nat /\ Ledger[o] \in Nat
    BY PoppedLedger
  <2>4. QED
    BY <2>1, <2>2, <2>3
<1>5. QED
  BY <1>1, <1>2, <1>4 DEF x, y, z

(* An element of an array that the machine refers to may be counted. *)
LEMMA ElementReferred ==
    ASSUME Shape, NEW a, Referred(a), NEW i \in DOMAIN mem.items[a]
    PROVE  /\ mem.items[a][i] \in Object
           /\ mem.items[a][i] \in mem.used \cup Immortal
           /\ Usable(mem, mem.items[a][i], Mode)
<1>1. /\ Covers(mem, Ledger, Mode) /\ Ledger \in Ledgers
      /\ \A o \in Mortal : Ledger[o] \in Nat
  BY Opening DEF Ledger
<1>2. mem.items[a][i] \in Mortal => Ledger[mem.items[a][i]] >= 0
  BY <1>1
<1>3. a \in Object /\ (Mode = "counts" => a \in InUse(mem) \cup Immortal)
  BY DEF Referred
<1>4. QED
  BY <1>1, <1>2, <1>3, ElementUsable

(* LOAD_SUBSCR: the element is counted before the array, which may hold the
   last reference to it, is released. *)
LEMMA LoadSubscrKept ==
    ASSUME Shape, LoadSubscr
    PROVE  Kept
<1> DEFINE a == Peek(1)
           b == Peek(0)
<1>1. Has(2) /\ globals' = globals
  BY DEF LoadSubscr
<1>2. ASSUME NEW i \in DOMAIN mem.items[a],
             Finish(DecrefAll(Incref(mem, mem.items[a][i]), <<b, a>>),
                    Append(Rest(2), mem.items[a][i]))
      PROVE  Kept
  <2> DEFINE o == mem.items[a][i]
             s == <<b, a>>
             m1 == Incref(mem, o)
             m2 == DecrefAll(m1, s)
             L == Plus(Ledger, o)
             K == Plus(Popped(2), o)
  <2>1. Finish(m2, Append(Rest(2), o))
    BY <1>2
  <2>2. /\ Referred(a) /\ Referred(b)
        /\ Popped(2) \in Ledgers /\ Ledger \in Ledgers
        /\ \A p \in Mortal :
              /\ Popped(2)[p] = Ledger[p] - One(a = p) - One(b = p)
              /\ Popped(2)[p] \in Nat /\ Ledger[p] \in Nat
              /\ One(a = p) \in Nat /\ One(b = p) \in Nat
    BY <1>1, PoppedTwo
  <2>3. o \in Object /\ o \in mem.used \cup Immortal /\ Usable(mem, o, Mode)
    BY <2>2, ElementReferred
  <2>4. a \in Object /\ b \in Object
    BY <2>2 DEF Referred
  <2> HIDE DEF a, b
  <2>5. s \in Seq(Object) /\ \A p \in Mortal : Occurrences(s, p) = One(b = p) + One(a = p)
    BY <2>4, OccurrencesTwo
  <2> HIDE DEF o, s
  <2>6. Covers(mem, Ledger, Mode)
    BY Opening DEF Ledger
  <2>7. Covers(m1, L, Mode) /\ L \in Ledgers /\ m1.used = mem.used
    BY <2>2, <2>3, <2>6, Counts
  <2>8. K \in Ledgers
        /\ \A p \in Mortal : /\ L[p] = Ledger[p] + One(o = p)
                             /\ K[p] = Popped(2)[p] + One(o = p)
                             /\ One(o = p) \in Nat
    <3> DEFINE P == Popped(2)
    <3>1. P \in Ledgers
      BY <2>2
    <3> HIDE DEF P
    <3>2. Plus(P, o) \in Ledgers
          /\ \A p \in Mortal : Plus(P, o)[p] = P[p] + One(o = p) /\ One(o = p) \in Nat
      BY <3>1, PlusMinus
    <3>3. \A p \in Mortal : L[p] = Ledger[p] + One(o = p)
      BY <2>2, PlusMinus
    <3>4. QED
      BY <3>2, <3>3 DEF P
  <2> HIDE DEF L, K, m1
  <2>9. ASSUME NEW p \in Mortal
        PROVE  L[p] >= Occurrences(s, p) /\ K[p] <= L[p] - Occurrences(s, p)
    <3>1. /\ L[p] = Ledger[p] + One(o = p) /\ K[p] = Popped(2)[p] + One(o = p)
          /\ One(o = p) \in Nat
      BY <2>8
    <3>2. /\ Popped(2)[p] = Ledger[p] - One(a = p) - One(b = p)
          /\ Popped(2)[p] \in Nat /\ Ledger[p] \in Nat
          /\ One(a = p) \in Nat /\ One(b = p) \in Nat
      BY <2>2
    <3>3. Occurrences(s, p) = One(b = p) + One(a = p)
      BY <2>5
    <3>4. QED
      BY <3>1, <3>2, <3>3
  <2>10. Covers(m2, K, Mode) /\ m2.used = m1.used
    BY <2>5, <2>7, <2>8, <2>9, ReleaseAll, ZenonT(30)
  <2> HIDE DEF m2
  <2>11. \A p \in Mortal : K[p] >= Popped(2)[p] + One(o = p)
    <3> SUFFICES ASSUME NEW p \in Mortal PROVE K[p] >= Popped(2)[p] + One(o = p)
      OBVIOUS
    <3>1. K[p] = Popped(2)[p] + One(o = p) /\ One(o = p) \in Nat /\ Popped(2)[p] \in Nat
      BY <2>2, <2>8
    <3>2. QED
      BY <3>1
  <2>12. o \in m2.used \cup Immortal /\ mem.used \subseteq m2.used
    BY <2>3, <2>7, <2>10
  <2>13. 2 \in Nat
    OBVIOUS
  <2>14. QED
    BY <1>1, <2>1, <2>3, <2>8, <2>10, <2>11, <2>12, <2>13, MoveKept
<1>3. CASE WildAccess
  BY <1>1, <1>3, WildAccessKept
<1>4. QED
  BY <1>2, <1>3 DEF LoadSubscr

(* An element of an array is replaced. *)
LEMMA PutKept ==
    ASSUME NEW m, NEW L \in Ledgers, NEW t, Covers(m, L, t), NEW a \in Object,
           t = "counts" => a \in InUse(m) \cup Immortal,
           NEW i \in DOMAIN m.items[a], NEW o \in m.used \cup Immortal
    PROVE  /\ Minus(Plus(L, m.items[a][i]), o) \in Ledgers
           /\ Covers(Put(m, a, i, o), Minus(Plus(L, m.items[a][i]), o), t)
           /\ Put(m, a, i, o).used = m.used
           /\ DOMAIN Put(m, a, i, o).items[a] = DOMAIN m.items[a]
           /\ \A j \in DOMAIN m.items[a] :
                 Put(m, a, i, o).items[a][j] = IF j = i THEN o ELSE m.items[a][j]
           /\ t = "counts" => InUse(Put(m, a, i, o)) = InUse(m)
           /\ Keeps(m, Put(m, a, i, o), t)
           /\ \A p \in Mortal :
                 /\ Minus(Plus(L, m.items[a][i]), o)[p]
                       = L[p] + One(m.items[a][i] = p) - One(o = p)
                 /\ One(m.items[a][i] = p) \in Nat /\ One(o = p) \in Nat
<1> DEFINE x == m.items[a][i]
           J == Plus(L, x)
           K == Minus(J, o)
<1>1. J \in Ledgers /\ \A p \in Mortal : J[p] = L[p] + One(x = p)
  BY PlusMinus
<1> HIDE DEF J
<1>2. K \in Ledgers /\ \A p \in Mortal : K[p] = J[p] - One(o = p)
  BY <1>1, PlusMinus
<1> HIDE DEF K
<1>3. ASSUME NEW p \in Mortal
      PROVE  /\ K[p] = L[p] + One(x = p) - One(o = p)
             /\ K[p] <= L[p] + One(x = p) - One(o = p)
             /\ One(x = p) \in Nat /\ One(o = p) \in Nat
  <2> HIDE DEF x
  <2>1. J[p] = L[p] + One(x = p) /\ K[p] = J[p] - One(o = p)
    BY <1>1, <1>2
  <2>2. One(x = p) \in Nat /\ One(o = p) \in Nat /\ L[p] \in Int
    BY OneType DEF Ledgers
  <2>3. QED
    BY <2>1, <2>2
<1>4. \A p \in Mortal : K[p] <= L[p] + One(m.items[a][i] = p) - One(o = p)
  BY <1>3
<1> HIDE DEF x
<1>5. /\ Covers(Put(m, a, i, o), K, t)
      /\ Put(m, a, i, o).used = m.used
      /\ Put(m, a, i, o).items = [m.items EXCEPT ![a] = [m.items[a] EXCEPT ![i] = o]]
      /\ t = "counts" => InUse(Put(m, a, i, o)) = InUse(m)
      /\ Keeps(m, Put(m, a, i, o), t)
  BY <1>2, <1>4, CoversPut
<1>6. /\ DOMAIN Put(m, a, i, o).items[a] = DOMAIN m.items[a]
      /\ \A j \in DOMAIN m.items[a] :
            Put(m, a, i, o).items[a][j] = IF j = i THEN o ELSE m.items[a][j]
  <2>1. m.items \in [Object -> Seq(Object)]
    BY DEF Covers, MemoryOK, Memories
  <2> DEFINE F == m.items
             e == F[a]
             s == [e EXCEPT ![i] = o]
  <2>2. e \in Seq(Object) /\ F \in [Object -> Seq(Object)] /\ i \in DOMAIN e
    BY <2>1
  <2>3. Put(m, a, i, o).items = [F EXCEPT ![a] = s]
    BY <1>5
  <2> HIDE DEF F, e
  <2>4. DOMAIN s = DOMAIN e /\ \A j \in DOMAIN e : s[j] = IF j = i THEN o ELSE e[j]
    BY <2>2
  <2> HIDE DEF s
  <2>5. [F EXCEPT ![a] = s][a] = s
    BY <2>2
  <2>6. Put(m, a, i, o).items[a] = s
    BY <2>3, <2>5
  <2>7. QED
    BY <2>4, <2>6 DEF e, F
<1>7. QED
  BY <1>2, <1>3, <1>5, <1>6 DEF x, J, K

(* STORE_SUBSCR: the new element is counted before the old one is released,
   whether or not they are the same. *)
LEMMA StoreSubscrKept ==
    ASSUME Shape, StoreSubscr
    PROVE  Kept
<1> DEFINE a == Peek(1)
           b == Peek(0)
           o == Peek(2)
<1>1. Has(3) /\ globals' = globals
  BY DEF StoreSubscr
<1>2. ASSUME NEW i \in DOMAIN mem.items[a],
             Finish(DecrefAll(Incref(Put(mem, a, i, o), o), <<mem.items[a][i], b, a>>), Rest(3))
      PROVE  Kept
  <2> DEFINE x == mem.items[a][i]
             s == <<x, b, a>>
             m1 == Put(mem, a, i, o)
             m2 == Incref(m1, o)
             m3 == DecrefAll(m2, s)
             L1 == Minus(Plus(Ledger, x), o)
             L2 == Plus(L1, o)
  <2>1. Finish(m3, Rest(3))
    BY <1>2
  <2>2. /\ Referred(a) /\ Referred(b) /\ Referred(o)
        /\ Popped(3) \in Ledgers /\ Ledger \in Ledgers
        /\ \A p \in Mortal :
              /\ Popped(3)[p] = Ledger[p] - One(o = p) - One(a = p) - One(b = p)
              /\ Popped(3)[p] \in Nat /\ Ledger[p] \in Nat
              /\ One(o = p) \in Nat /\ One(a = p) \in Nat /\ One(b = p) \in Nat
    BY <1>1, PoppedThree
  <2>3. x \in Object /\ x \in mem.used \cup Immortal /\ Usable(mem, x, Mode)
    BY <2>2, ElementReferred
  <2>4. /\ a \in Object /\ b \in Object /\ o \in Object /\ o \in mem.used \cup Immortal
        /\ Usable(mem, o, Mode)
        /\ Mode = "counts" => a \in InUse(mem) \cup Immortal
    BY <2>2 DEF Referred
  <2> HIDE DEF a, b, o
  <2>5. s \in Seq(Object)
        /\ \A p \in Mortal : Occurrences(s, p) = One(x = p) + One(b = p) + One(a = p)
    BY <2>3, <2>4, OccurrencesThree
  <2> HIDE DEF s
  <2>6. Covers(mem, Ledger, Mode)
    BY Opening DEF Ledger
  <2>7. /\ L1 \in Ledgers /\ Covers(m1, L1, Mode) /\ m1.used = mem.used /\ Keeps(mem, m1, Mode)
        /\ \A p \in Mortal : L1[p] = Ledger[p] + One(x = p) - One(o = p) /\ One(x = p) \in Nat
    <3>1. Ledger \in Ledgers
      BY <2>2
    <3>2. a \in Object /\ o \in mem.used \cup Immortal
      BY <2>4
    <3>3. Mode = "counts" => a \in InUse(mem) \cup Immortal
      BY <2>4
    <3>4. QED
      BY <2>6, <3>1, <3>2, <3>3, PutKept
  <2> HIDE DEF x, L1, m1
  <2>8. Covers(m2, L2, Mode) /\ L2 \in Ledgers /\ m2.used = m1.used
    <3>1. Usable(m1, o, Mode)
      BY <2>4, <2>7 DEF Keeps
    <3>2. QED
      BY <2>4, <2>7, <3>1, Counts
  <2>9. \A p \in Mortal : L2[p] = L1[p] + One(o = p)
    BY <2>7, PlusMinus
  <2> HIDE DEF L2, m2
  <2>10. ASSUME NEW p \in Mortal
         PROVE  L2[p] >= Occurrences(s, p) /\ Popped(3)[p] <= L2[p] - Occurrences(s, p)
    <3>1. /\ L2[p] = L1[p] + One(o = p) /\ L1[p] = Ledger[p] + One(x = p) - One(o = p)
          /\ One(x = p) \in Nat
      BY <2>7, <2>9
    <3>2. /\ Popped(3)[p] = Ledger[p] - One(o = p) - One(a = p) - One(b = p)
          /\ Popped(3)[p] \in Nat /\ Ledger[p] \in Nat
          /\ One(o = p) \in Nat /\ One(a = p) \in Nat /\ One(b = p) \in Nat
      BY <2>2
    <3>3. Occurrences(s, p) = One(x = p) + One(b = p) + One(a = p)
      BY <2>5
    <3>4. QED
      BY <3>1, <3>2, <3>3
  <2>11. Covers(m3, Popped(3), Mode) /\ m3.used = m2.used
    BY <2>2, <2>5, <2>8, <2>10, ReleaseAll, ZenonT(30)
  <2> HIDE DEF m3
  <2>12. mem.used \subseteq m3.used /\ 3 \in Nat
    BY <2>7, <2>8, <2>11
  <2>13. QED
    BY <1>1, <2>1, <2>11, <2>12, DropKept
<1>3. CASE WildAccess
  BY <1>1, <1>3, WildAccessKept
<1>4. QED
  BY <1>2, <1>3 DEF StoreSubscr, Put

(* DEL_SUBSCR: the element is released and gives its place to none. *)
LEMMA DelSubscrKept ==
    ASSUME Shape, DelSubscr
    PROVE  Kept
<1> DEFINE a == Peek(1)
           b == Peek(0)
           o == NoneObject
<1>1. Has(2) /\ globals' = globals /\ 2 \in Nat
  BY DEF DelSubscr
<1>2. /\ Referred(a) /\ Referred(b)
      /\ Popped(2) \in Ledgers /\ Ledger \in Ledgers
      /\ \A p \in Mortal :
            /\ Popped(2)[p] = Ledger[p] - One(a = p) - One(b = p)
            /\ Popped(2)[p] \in Nat /\ Ledger[p] \in Nat
            /\ One(a = p) \in Nat /\ One(b = p) \in Nat
  BY <1>1, PoppedTwo
<1>3. /\ a \in Object /\ b \in Object
      /\ Mode = "counts" => a \in InUse(mem) \cup Immortal
  BY <1>2 DEF Referred
<1>4. o \in Object /\ o \in mem.used \cup Immortal /\ o \notin Mortal
  BY MemoryAssumption DEF Mortal
<1>5. Covers(mem, Ledger, Mode)
  BY Opening DEF Ledger
<1>6. ASSUME Finish(DecrefAll(mem, <<b, a>>), Rest(2)) PROVE Kept
  <2> DEFINE s == <<b, a>>
             m == DecrefAll(mem, s)
  <2>1. Finish(m, Rest(2))
    BY <1>6
  <2> HIDE DEF a, b
  <2>2. s \in Seq(Object) /\ \A p \in Mortal : Occurrences(s, p) = One(b = p) + One(a = p)
    BY <1>3, OccurrencesTwo
  <2> HIDE DEF s
  <2>3. ASSUME NEW p \in Mortal
        PROVE  /\ Ledger[p] >= Occurrences(s, p) /\ Popped(2)[p] <= Ledger[p] - Occurrences(s, p)
    <3>1. /\ Popped(2)[p] = Ledger[p] - One(a = p) - One(b = p)
          /\ Popped(2)[p] \in Nat /\ Ledger[p] \in Nat
          /\ One(a = p) \in Nat /\ One(b = p) \in Nat
      BY <1>2
    <3>2. Occurrences(s, p) = One(b = p) + One(a = p)
      BY <2>2
    <3>3. QED
      BY <3>1, <3>2
  <2>4. Covers(m, Popped(2), Mode) /\ m.used = mem.used
    BY <1>2, <1>5, <2>2, <2>3, ReleaseAll
  <2> HIDE DEF m
  <2>5. QED
    BY <1>1, <2>1, <2>4, DropKept
<1>7. ASSUME NEW i \in DOMAIN mem.items[a],
             Finish(DecrefAll(Put(mem, a, i, o), <<mem.items[a][i], b, a>>), Rest(2))
      PROVE  Kept
  <2> DEFINE x == mem.items[a][i]
             s == <<x, b, a>>
             m1 == Put(mem, a, i, o)
             m2 == DecrefAll(m1, s)
             L1 == Minus(Plus(Ledger, x), o)
  <2>1. Finish(m2, Rest(2))
    BY <1>7
  <2>2. x \in Object
    BY <1>2, ElementReferred
  <2> HIDE DEF a, b, o
  <2>3. s \in Seq(Object)
        /\ \A p \in Mortal : Occurrences(s, p) = One(x = p) + One(b = p) + One(a = p)
    BY <1>3, <2>2, OccurrencesThree
  <2> HIDE DEF s
  <2>4. /\ L1 \in Ledgers /\ Covers(m1, L1, Mode) /\ m1.used = mem.used
        /\ \A p \in Mortal : /\ L1[p] = Ledger[p] + One(x = p) - One(o = p)
                             /\ One(x = p) \in Nat /\ One(o = p) \in Nat
    <3>1. Ledger \in Ledgers
      BY <1>2
    <3>2. a \in Object /\ o \in mem.used \cup Immortal
      BY <1>3, <1>4
    <3>3. Mode = "counts" => a \in InUse(mem) \cup Immortal
      BY <1>3
    <3>4. QED
      BY <1>5, <3>1, <3>2, <3>3, PutKept
  <2> HIDE DEF x, L1, m1
  <2>5. ASSUME NEW p \in Mortal
        PROVE  L1[p] >= Occurrences(s, p) /\ Popped(2)[p] <= L1[p] - Occurrences(s, p)
    <3>1. L1[p] = Ledger[p] + One(x = p) - One(o = p) /\ One(x = p) \in Nat
      BY <2>4
    <3>2. One(o = p) = 0
      BY <1>4, OneType
    <3>3. /\ Popped(2)[p] = Ledger[p] - One(a = p) - One(b = p)
          /\ Popped(2)[p] \in Nat /\ Ledger[p] \in Nat
          /\ One(a = p) \in Nat /\ One(b = p) \in Nat
      BY <1>2
    <3>4. Occurrences(s, p) = One(x = p) + One(b = p) + One(a = p)
      BY <2>3
    <3>5. QED
      BY <3>1, <3>2, <3>3, <3>4
  <2>6. Covers(m2, Popped(2), Mode) /\ m2.used = m1.used
    BY <1>2, <2>3, <2>4, <2>5, ReleaseAll, ZenonT(30)
  <2> HIDE DEF m2
  <2>7. QED
    BY <1>1, <2>1, <2>4, <2>6, DropKept
<1>8. QED
  BY <1>6, <1>7 DEF DelSubscr, Put

(* Counting after or before releasing, two elements that change places owe  *)
(* what they owed.                                                          *)
LEMMA SwappedCovers ==
    ASSUME Shape, NEW a, Referred(a), NEW i \in DOMAIN mem.items[a], NEW j \in DOMAIN mem.items[a]
    PROVE  /\ Covers(Swapped(mem, a, i, j), Ledger, Mode)
           /\ Swapped(mem, a, i, j).used = mem.used
<1> DEFINE x == mem.items[a][i]
           y == mem.items[a][j]
           m1 == Put(mem, a, i, y)
           m2 == Incref(m1, y)
           m3 == Decref(m2, x)
           m4 == Put(m3, a, j, x)
           m5 == Incref(m4, x)
           m6 == Decref(m5, y)
           L1 == Minus(Plus(Ledger, x), y)
           L2 == Plus(L1, y)
           L3 == Minus(L2, x)
           L4 == Minus(Plus(L3, y), x)
           L5 == Plus(L4, x)
           L6 == Minus(L5, y)
<1>1. Swapped(mem, a, i, j) = m6
  BY DEF Swapped, Put
<1>2. Covers(mem, Ledger, Mode) /\ Ledger \in Ledgers /\ MemoryOK(mem)
  BY Opening DEF Ledger
<1>3. \A o \in Mortal : Ledger[o] \in Nat
  BY Opening DEF Ledger
<1>4. a \in Object /\ Usable(mem, a, Mode)
  BY DEF Referred
<1>5. Mode = "counts" => a \in InUse(mem) \cup Immortal
  BY DEF Referred
<1>6. Kind[a] = "array"
  <2>1. mem.items[a] # <<>>
    OBVIOUS
  <2>2. QED
    BY <1>2, <1>4, <2>1 DEF MemoryOK
<1>7. x \in Object /\ x \in mem.used \cup Immortal /\ Usable(mem, x, Mode)
  BY ElementReferred
<1>8. y \in Object /\ y \in mem.used \cup Immortal /\ Usable(mem, y, Mode)
  BY ElementReferred
<1>9. \A o \in Mortal : One(x = o) \in Nat /\ One(y = o) \in Nat
  BY OneType
<1>10. y \in mem.used \cup Immortal
  BY <1>8
<1> HIDE DEF y
<1>11. /\ L1 \in Ledgers /\ Covers(m1, L1, Mode) /\ m1.used = mem.used
       /\ DOMAIN m1.items[a] = DOMAIN mem.items[a]
       /\ \A k \in DOMAIN mem.items[a] :
             m1.items[a][k] = IF k = i THEN y ELSE mem.items[a][k]
       /\ Keeps(mem, m1, Mode)
       /\ \A p \in Mortal : /\ L1[p] = Ledger[p] + One(x = p) - One(y = p)
                            /\ One(x = p) \in Nat /\ One(y = p) \in Nat
  <2>1. Ledger \in Ledgers
    BY <1>2
  <2>2. Covers(mem, Ledger, Mode)
    BY <1>2
  <2>3. a \in Object
    BY <1>4
  <2>4. QED
    BY <1>5, <1>10, <2>1, <2>2, <2>3, PutKept
<1>12. m1.items[a][j] = y
  BY <1>11 DEF y
<1> HIDE DEF x, m1, L1
<1>13. Usable(m1, y, Mode) /\ Usable(m1, x, Mode) /\ Usable(m1, a, Mode)
  BY <1>4, <1>7, <1>8, <1>11 DEF Keeps
<1>14. /\ L2 \in Ledgers /\ Covers(m2, L2, Mode) /\ m2.used = m1.used /\ m2.items = m1.items
       /\ Keeps(m1, m2, Mode)
  BY <1>8, <1>11, <1>13, Counts
<1>15. \A p \in Mortal : L2[p] = L1[p] + One(y = p)
  BY <1>11, PlusMinus
<1> HIDE DEF m2, L2
<1>16. ASSUME NEW p \in Mortal PROVE L2[p] = Ledger[p] + One(x = p) /\ L2[p] >= 0
  <2>1. L2[p] = L1[p] + One(y = p) /\ L1[p] = Ledger[p] + One(x = p) - One(y = p)
    BY <1>11, <1>15
  <2>2. Ledger[p] \in Nat /\ One(x = p) \in Nat /\ One(y = p) \in Nat
    BY <1>3, <1>9
  <2>3. QED
    BY <2>1, <2>2
<1>17. x \in Mortal => L2[x] >= 1
  <2> SUFFICES ASSUME x \in Mortal PROVE L2[x] >= 1
    OBVIOUS
  <2>1. L2[x] = Ledger[x] + One(x = x) /\ Ledger[x] \in Nat
    BY <1>3, <1>16
  <2>2. One(x = x) = 1
    BY DEF One
  <2>3. QED
    BY <2>1, <2>2
<1>18. /\ L3 \in Ledgers /\ Covers(m3, L3, Mode) /\ m3.used = m2.used /\ m3.items = m2.items
       /\ Keeps(m2, m3, Mode)
  <2>1. \A p \in Mortal : L2[p] >= 0
    BY <1>16
  <2>2. L2 \in Ledgers /\ Covers(m2, L2, Mode)
    BY <1>14
  <2>3. x \in Object
    BY <1>7
  <2>4. QED
    BY <1>17, <2>1, <2>2, <2>3, Releases
<1>19. \A p \in Mortal : L3[p] = L2[p] - One(x = p)
  BY <1>14, PlusMinus
<1> HIDE DEF m3, L3
<1>20. /\ Usable(m3, y, Mode) /\ Usable(m3, x, Mode) /\ Usable(m3, a, Mode)
       /\ m3.items[a][j] = y /\ j \in DOMAIN m3.items[a]
  <2>1. Usable(m3, y, Mode) /\ Usable(m3, x, Mode) /\ Usable(m3, a, Mode)
    BY <1>4, <1>7, <1>8, <1>13, <1>14, <1>18 DEF Keeps
  <2>2. m3.items = m1.items
    BY <1>14, <1>18
  <2>3. j \in DOMAIN m1.items[a]
    BY <1>11
  <2>4. QED
    BY <1>12, <2>1, <2>2, <2>3
<1>21. Mode = "counts" => a \in InUse(m3) \cup Immortal
  <2>1. Kind[a] # "function"
    BY <1>6
  <2>2. QED
    BY <1>20, <2>1 DEF Usable
<1>22. x \in m3.used \cup Immortal
  BY <1>20 DEF Usable
<1>23. /\ L4 \in Ledgers /\ Covers(m4, L4, Mode) /\ m4.used = m3.used
       /\ Keeps(m3, m4, Mode)
       /\ \A p \in Mortal : L4[p] = L3[p] + One(y = p) - One(x = p)
  <2> DEFINE z == m3.items[a][j]
             K == Minus(Plus(L3, z), x)
  <2>1. L3 \in Ledgers
    BY <1>18
  <2>2. Covers(m3, L3, Mode)
    BY <1>18
  <2>3. a \in Object /\ j \in DOMAIN m3.items[a]
    BY <1>4, <1>20
  <2>4. /\ K \in Ledgers /\ Covers(m4, K, Mode) /\ m4.used = m3.used
        /\ Keeps(m3, m4, Mode)
        /\ \A p \in Mortal : /\ K[p] = L3[p] + One(z = p) - One(x = p)
                             /\ One(z = p) \in Nat /\ One(x = p) \in Nat
    BY <1>21, <1>22, <2>1, <2>2, <2>3, PutKept
  <2>5. z = y
    BY <1>20
  <2>6. K = L4
    BY <2>5
  <2> HIDE DEF z, K, L4
  <2>7. \A p \in Mortal : L4[p] = L3[p] + One(y = p) - One(x = p)
    BY <2>4, <2>5, <2>6
  <2>8. QED
    BY <2>4, <2>6, <2>7
<1> HIDE DEF m4, L4
<1>24. Usable(m4, x, Mode)
  BY <1>7, <1>20, <1>23 DEF Keeps
<1>25. /\ L5 \in Ledgers /\ Covers(m5, L5, Mode) /\ m5.used = m4.used
  BY <1>7, <1>23, <1>24, Counts
<1>26. \A p \in Mortal : L5[p] = L4[p] + One(x = p)
  BY <1>23, PlusMinus
<1> HIDE DEF m5, L5
<1>27. ASSUME NEW p \in Mortal PROVE L5[p] = Ledger[p] + One(y = p) /\ L5[p] >= 0
  <2>1. /\ L5[p] = L4[p] + One(x = p) /\ L4[p] = L3[p] + One(y = p) - One(x = p)
        /\ L3[p] = L2[p] - One(x = p) /\ L2[p] = Ledger[p] + One(x = p)
    BY <1>16, <1>19, <1>23, <1>26
  <2>2. Ledger[p] \in Nat /\ One(x = p) \in Nat /\ One(y = p) \in Nat
    BY <1>3, <1>9
  <2>3. QED
    BY <2>1, <2>2
<1>28. y \in Mortal => L5[y] >= 1
  <2> SUFFICES ASSUME y \in Mortal PROVE L5[y] >= 1
    OBVIOUS
  <2>1. L5[y] = Ledger[y] + One(y = y) /\ Ledger[y] \in Nat
    BY <1>3, <1>27
  <2>2. One(y = y) = 1
    BY DEF One
  <2>3. QED
    BY <2>1, <2>2
<1>29. /\ L6 \in Ledgers /\ Covers(m6, L6, Mode) /\ m6.used = m5.used
  <2>1. \A p \in Mortal : L5[p] >= 0
    BY <1>27
  <2>2. L5 \in Ledgers /\ Covers(m5, L5, Mode)
    BY <1>25
  <2>3. y \in Object
    BY <1>8
  <2>4. QED
    BY <1>28, <2>1, <2>2, <2>3, Releases
<1>30. \A p \in Mortal : L6[p] = L5[p] - One(y = p)
  BY <1>25, PlusMinus
<1> HIDE DEF m6, L6
<1>31. \A p \in Mortal : Ledger[p] <= L6[p]
  <2> SUFFICES ASSUME NEW p \in Mortal PROVE Ledger[p] <= L6[p]
    OBVIOUS
  <2>1. L6[p] = L5[p] - One(y = p) /\ L5[p] = Ledger[p] + One(y = p)
    BY <1>27, <1>30
  <2>2. Ledger[p] \in Nat /\ One(y = p) \in Nat
    BY <1>3, <1>9
  <2>3. QED
    BY <2>1, <2>2
<1>32. Covers(m6, Ledger, Mode)
  <2>1. Covers(m6, L6, Mode) /\ L6 \in Ledgers
    BY <1>29
  <2>2. QED
    BY <1>2, <1>31, <2>1, CoversLess
<1>33. m6.used = mem.used
  BY <1>11, <1>14, <1>18, <1>23, <1>25, <1>29
<1>34. QED
  BY <1>1, <1>32, <1>33

(* SWAP_ARRAY_ELEMENTS: each of the two elements is released from its place
   and counted for the other. *)
LEMMA SwapArrayElementsKept ==
    ASSUME Shape, SwapArrayElements
    PROVE  Kept
<1> DEFINE a == Peek(2)
           b == Peek(1)
           c == Peek(0)
           s == <<b, c>>
<1>1. Has(3) /\ globals' = globals /\ 3 \in Nat
  BY DEF SwapArrayElements
<1>2. PICK i \in DOMAIN mem.items[a] : \E j \in DOMAIN mem.items[a] :
         Finish(DecrefAll(IF i = j THEN mem ELSE Swapped(mem, a, i, j), s), Append(Rest(3), a))
  BY DEF SwapArrayElements
<1>3. PICK j \in DOMAIN mem.items[a] :
         Finish(DecrefAll(IF i = j THEN mem ELSE Swapped(mem, a, i, j), s), Append(Rest(3), a))
  BY <1>2
<1> DEFINE m == IF i = j THEN mem ELSE Swapped(mem, a, i, j)
           n == DecrefAll(m, s)
           P == Popped(3)
           K == Plus(P, a)
<1>4. Finish(n, Append(Rest(3), a))
  BY <1>3
<1>5. /\ Referred(a) /\ Referred(b) /\ Referred(c)
      /\ P \in Ledgers /\ Ledger \in Ledgers
      /\ \A o \in Mortal : /\ P[o] = Ledger[o] - One(a = o) - One(b = o) - One(c = o)
                           /\ P[o] \in Nat /\ Ledger[o] \in Nat
                           /\ One(a = o) \in Nat /\ One(b = o) \in Nat /\ One(c = o) \in Nat
  BY <1>1, PoppedThree
<1>6. /\ a \in Object /\ b \in Object /\ c \in Object /\ a \in mem.used \cup Immortal
  BY <1>5 DEF Referred
<1>7. Covers(m, Ledger, Mode) /\ m.used = mem.used
  <2>1. Covers(mem, Ledger, Mode)
    BY Opening DEF Ledger
  <2>2. Covers(Swapped(mem, a, i, j), Ledger, Mode) /\ Swapped(mem, a, i, j).used = mem.used
    <3>1. Referred(a)
      BY <1>5
    <3> HIDE DEF a
    <3>2. QED
      BY <3>1, SwappedCovers
  <2>3. QED
    BY <2>1, <2>2
<1> HIDE DEF a, b, c, m, P
<1>8. s \in Seq(Object) /\ \A o \in Mortal : Occurrences(s, o) = One(b = o) + One(c = o)
  BY <1>6, OccurrencesTwo
<1> HIDE DEF s
<1>9. K \in Ledgers /\ \A o \in Mortal : K[o] = P[o] + One(a = o)
  BY <1>5, PlusMinus
<1> HIDE DEF K
<1>10. ASSUME NEW o \in Mortal
       PROVE  /\ Ledger[o] >= Occurrences(s, o) /\ K[o] <= Ledger[o] - Occurrences(s, o)
              /\ K[o] >= P[o] + One(a = o)
  <2>1. /\ P[o] = Ledger[o] - One(a = o) - One(b = o) - One(c = o)
        /\ P[o] \in Nat /\ Ledger[o] \in Nat
        /\ One(a = o) \in Nat /\ One(b = o) \in Nat /\ One(c = o) \in Nat
    BY <1>5
  <2>2. Occurrences(s, o) = One(b = o) + One(c = o) /\ K[o] = P[o] + One(a = o)
    BY <1>8, <1>9
  <2>3. QED
    BY <2>1, <2>2
<1>11. Covers(n, K, Mode) /\ n.used = m.used
  <2>1. Ledger \in Ledgers
    BY <1>5
  <2>2. QED
    BY <1>7, <1>8, <1>9, <1>10, <2>1, ReleaseAll, SMTT(30)
<1> HIDE DEF n
<1>12. /\ a \in n.used \cup Immortal /\ mem.used \subseteq n.used
       /\ \A o \in Mortal : K[o] >= Popped(3)[o] + One(a = o)
  BY <1>6, <1>7, <1>10, <1>11 DEF P
<1>13. QED
  BY <1>1, <1>4, <1>6, <1>9, <1>11, <1>12, MoveKept

(* COMPARE_AND_SWAP: the elements change places or stay; the array that was
   popped is never released. *)
LEMMA CompareAndSwapKept ==
    ASSUME Shape, CompareAndSwap
    PROVE  Kept
<1> DEFINE a == Peek(2)
           b == Peek(1)
           c == Peek(0)
           s == <<b, c>>
           P == Popped(3)
<1>1. Has(3) /\ globals' = globals /\ 3 \in Nat
  BY DEF CompareAndSwap
<1>2. /\ Referred(a) /\ Referred(b) /\ Referred(c)
      /\ P \in Ledgers /\ Ledger \in Ledgers
      /\ \A o \in Mortal : /\ P[o] = Ledger[o] - One(a = o) - One(b = o) - One(c = o)
                           /\ P[o] \in Nat /\ Ledger[o] \in Nat
                           /\ One(a = o) \in Nat /\ One(b = o) \in Nat /\ One(c = o) \in Nat
  BY <1>1, PoppedThree
<1>3. a \in Object /\ b \in Object /\ c \in Object
  BY <1>2 DEF Referred
<1>4. ASSUME NEW i \in DOMAIN mem.items[a], NEW j \in DOMAIN mem.items[a],
             NEW m \in {mem, Swapped(mem, a, i, j)}, Finish(DecrefAll(m, s), Rest(3))
      PROVE  Kept
  <2> DEFINE n == DecrefAll(m, s)
  <2>1. Finish(n, Rest(3))
    BY <1>4
  <2>2. Covers(m, Ledger, Mode) /\ m.used = mem.used
    <3>1. Covers(mem, Ledger, Mode)
      BY Opening DEF Ledger
    <3>2. Covers(Swapped(mem, a, i, j), Ledger, Mode) /\ Swapped(mem, a, i, j).used = mem.used
      <4>1. Referred(a)
        BY <1>2
      <4> HIDE DEF a
      <4>2. QED
        BY <4>1, SwappedCovers
    <3>3. QED
      BY <3>1, <3>2
  <2> HIDE DEF a, b, c, P
  <2>3. s \in Seq(Object) /\ \A o \in Mortal : Occurrences(s, o) = One(b = o) + One(c = o)
    BY <1>3, OccurrencesTwo
  <2> HIDE DEF s
  <2>4. ASSUME NEW o \in Mortal
        PROVE  Ledger[o] >= Occurrences(s, o) /\ P[o] <= Ledger[o] - Occurrences(s, o)
    <3>1. /\ P[o] = Ledger[o] - One(a = o) - One(b = o) - One(c = o)
          /\ P[o] \in Nat /\ Ledger[o] \in Nat
          /\ One(a = o) \in Nat /\ One(b = o) \in Nat /\ One(c = o) \in Nat
      BY <1>2
    <3>2. Occurrences(s, o) = One(b = o) + One(c = o)
      BY <2>3
    <3>3. QED
      BY <3>1, <3>2
  <2>5. Covers(n, P, Mode) /\ n.used = m.used
    <3>1. Ledger \in Ledgers /\ P \in Ledgers
      BY <1>2
    <3>2. QED
      BY <2>2, <2>3, <2>4, <3>1, ReleaseAll
  <2> HIDE DEF n
  <2>6. Covers(n, Popped(3), Mode) /\ mem.used \subseteq n.used
    BY <2>2, <2>5 DEF P
  <2>7. QED
    BY <1>1, <2>1, <2>6, DropKept
<1>5. CASE WildAccess
  BY <1>1, <1>5, WildAccessKept
<1>6. QED
  BY <1>4, <1>5 DEF CompareAndSwap

-----------------------------------------------------------------------------
(* Functions.                                                              *)

(* Releasing an object without elements touches no other count... *)
LEMMA DecrefLeaf ==
    ASSUME NEW m, MemoryOK(m), NEW x \in Object, m.items[x] = <<>>,
           NEW o \in Mortal, o # x
    PROVE  Decref(m, x).rc[o] = m.rc[o]
<1> DEFINE s == <<x>>
           S == {x} \cap InUse(m)
           R == Released(m, s)
<1>1. IsFiniteSet(DOMAIN s) /\ s \in Seq(Object)
  <2>1. s \in Seq(Object)
    OBVIOUS
  <2> HIDE DEF s
  <2>2. QED
    BY <2>1, SeqFinite
<1>2. \A p \in Mortal : Occurrences(s, p) = One(x = p)
  BY OccurrencesOne
<1> HIDE DEF s
<1>3. ASSUME NEW T \in SUBSET S, NEW p \in Mortal, p # x
      PROVE  Lost(m, s, T, p) = 0
  <2>1. T \in SUBSET InUse(m) /\ T \subseteq Object /\ \A a \in T : m.items[a] = <<>>
    OBVIOUS
  <2>2. Finite(On(m.items, T))
    BY <2>1, ItemsFinite
  <2>3. \A a \in T : DOMAIN m.items[a] = {}
    BY <2>1
  <2>4. Count(On(m.items, T), p) = 0
    BY <2>2, <2>3, CountZero DEF On
  <2>5. Lost(m, s, T, p) = Occurrences(s, p) + Count(On(m.items, T), p)
    BY <1>1, <2>1, LostCount
  <2>6. Occurrences(s, p) = 0
    BY <1>2, <1>3, OneType
  <2>7. QED
    BY <2>4, <2>5, <2>6
<1>4. S \in SUBSET InUse(m) /\ InUse(m) \subseteq Mortal
  BY DEF InUse
<1>5. ASSUME NEW p \in InUse(m), m.rc[p] <= Lost(m, s, S, p) PROVE p \in S
  <2>1. CASE p = x
    BY <2>1
  <2>2. CASE p # x
    <3>1. Lost(m, s, S, p) = 0
      BY <1>3, <1>4, <2>2
    <3>2. m.rc[p] > 0 /\ m.rc[p] \in Nat
      BY <1>4 DEF InUse, MemoryOK, Memories
    <3>3. QED
      BY <1>5, <3>1, <3>2
  <2>3. QED
    BY <2>1, <2>2
<1>6. R \subseteq S
  <2> HIDE DEF S
  <2>1. QED
    BY <1>1, <1>4, <1>5, ReleasedLeast
<1>7. Decref(m, x) = DecrefAll(m, s)
  BY DEF Decref, s
<1>8. DecrefAll(m, s).rc[o] = IF o \in InUse(m) \ R THEN m.rc[o] - Lost(m, s, R, o) ELSE 0
  BY <1>1, DecrefAllShape
<1>9. Lost(m, s, R, o) = 0
  BY <1>3, <1>6
<1>10. m.rc[o] \in Nat
  BY DEF MemoryOK, Memories
<1>11. o \notin R
  BY <1>6
<1> HIDE DEF R, S
<1>12. QED
  BY <1>7, <1>8, <1>9, <1>10, <1>11 DEF InUse

(* ... so the next object of another type is the same. *)
LEMMA NextObjectSame ==
    ASSUME NEW m, MemoryOK(m), NEW x \in Object, NEW kind \in DOMAIN Pool,
           m.items[x] = <<>>, Kind[x] # kind
    PROVE  /\ NextObject(Decref(m, x), kind) = NextObject(m, kind)
           /\ HasFree(Decref(m, x), kind) <=> HasFree(m, kind)
<1> DEFINE n == Decref(m, x)
           P == Pool[kind]
<1>1. ASSUME NEW i \in DOMAIN P PROVE n.rc[P[i]] = m.rc[P[i]]
  <2>1. P[i] \in Mortal /\ P[i] # x
    BY MemoryAssumption DEF Mortal
  <2>2. QED
    BY <2>1, DecrefLeaf
<1>2. P \in Seq(Mortal) /\ DOMAIN P = 1 .. Len(P)
  BY MemoryAssumption DEF Mortal
<1> HIDE DEF n, P
<1>3. {i \in 1 .. Len(P) : n.rc[P[i]] = 0} = {i \in 1 .. Len(P) : m.rc[P[i]] = 0}
  BY <1>1, <1>2
<1>4. FreeSlot(n, kind) = FreeSlot(m, kind)
  BY <1>3 DEF FreeSlot, SelectInSeq, P
<1>5. HasFree(n, kind) <=> HasFree(m, kind)
  BY <1>1 DEF HasFree, P
<1>6. QED
  BY <1>4, <1>5 DEF NextObject, n

(* MAKE_FUNCTION: the code object is released and gives its place on the
   stack to the function, which is left with its own reference only. *)
LEMMA MakeFunctionKept ==
    ASSUME Shape, MakeFunction
    PROVE  Kept
<1> DEFINE c == Peek(0)
           kind == "function"
           f == NextObject(mem, kind)
           m1 == Decref(mem, c)
           m2 == Alloc(m1, kind)
           m3 == Incref(m2, f)
           m4 == Decref(m3, f)
           s == Append(Rest(1), f)
           P == Popped(1)
           K == Plus(P, f)
           L == Plus(K, f)
           M == Minus(L, f)
<1>1. /\ Has(1) /\ Kind[c] = "code" /\ ~ mem.undefined /\ HasFree(mem, kind)
      /\ mem' = m4 /\ frames' = WithStack(frames, s) /\ globals' = globals
      /\ argsSwept' = argsSwept
  BY DEF MakeFunction, CodeOnTop, WithStack
<1>2. Covers(mem, Ledger, Mode) /\ Ledger \in Ledgers /\ MemoryOK(mem)
  BY Opening DEF Ledger
<1>3. c \in Object /\ mem.items[c] = <<>> /\ Kind[c] # kind
  <2>1. c \in Object
    BY <1>1, Operand
  <2>2. Kind[c] # "array" /\ Kind[c] # kind
    BY <1>1
  <2>3. QED
    BY <1>2, <2>1, <2>2 DEF MemoryOK
<1>4. kind \in DOMAIN Pool
  BY MemoryAssumption
<1>5. /\ P \in Ledgers /\ \A o \in Mortal : P[o] \in Nat
      /\ Covers(m1, P, Mode) /\ m1.used = mem.used
  <2> DEFINE r == Args(1)
  <2>1. r = <<c>> /\ r \in Seq(Object) /\ \A o \in Mortal : Occurrences(r, o) = Occurrences(Args(1), o)
    BY <1>1, TopOperands, Operand
  <2>2. m1 = DecrefAll(mem, r)
    BY <2>1 DEF Decref
  <2> HIDE DEF r, m1
  <2>3. Covers(DecrefAll(mem, r), Popped(1), Mode) /\ DecrefAll(mem, r).used = mem.used
    <3>1. Has(1) /\ 1 \in Nat
      BY <1>1
    <3>2. Covers(mem, Ledger, Mode)
      BY <1>2
    <3>3. r \in Seq(Object)
      BY <2>1
    <3>4. \A o \in Mortal : Occurrences(r, o) = Occurrences(Args(1), o)
      BY <2>1
    <3>5. QED
      BY <3>1, <3>2, <3>3, <3>4, OperandsReleased
  <2>4. P \in Ledgers /\ \A o \in Mortal : P[o] \in Nat
    BY <1>1, PoppedLedger
  <2>5. QED
    BY <2>2, <2>3, <2>4
<1>6. MemoryOK(m1) /\ HasFree(m1, kind) /\ NextObject(m1, kind) = f
  <2>1. MemoryOK(m1)
    BY <1>5 DEF Covers
  <2> HIDE DEF kind
  <2>2. QED
    BY <1>1, <1>2, <1>3, <1>4, <2>1, NextObjectSame
<1> HIDE DEF m1, P
<1>7. IsNew(m1, m2, f) /\ Kind[f] = "function"
  <2> HIDE DEF f
  <2>1. IsNew(m1, m2, NextObject(m1, kind)) /\ Kind[NextObject(m1, kind)] = kind
    <3> HIDE DEF kind
    <3>1. /\ IsNew(m1, Alloc(m1, kind), NextObject(m1, kind))
          /\ Alloc(m1, kind).items = [m1.items EXCEPT ![NextObject(m1, kind)] = <<>>]
          /\ Kind[NextObject(m1, kind)] = kind
      BY <1>4, <1>6, AllocBalance
    <3>2. QED
      BY <3>1
  <2>2. QED
    BY <1>6, <2>1
<1> HIDE DEF f, m2
<1>8. K \in Ledgers /\ \A o \in Mortal : K[o] = P[o] + One(f = o)
  BY <1>5, PlusMinus
<1> HIDE DEF K
<1>9. /\ Covers(m2, K, Mode) /\ Usable(m2, f, Mode) /\ f \in Object
      /\ m1.used \subseteq m2.used
  <2>1. \A o \in Mortal : K[o] <= P[o] + One(o = f)
    <3> SUFFICES ASSUME NEW o \in Mortal PROVE K[o] <= P[o] + One(o = f)
      OBVIOUS
    <3>1. One(f = o) = One(o = f) /\ One(o = f) \in Nat
      BY DEF One
    <3>2. K[o] = P[o] + One(f = o) /\ P[o] \in Nat
      BY <1>5, <1>8
    <3>3. QED
      BY <3>1, <3>2
  <2>2. /\ Covers(m2, P, Mode)
        /\ Usable(m2, f, Mode)
        /\ f \in Object
        /\ m1.used \subseteq m2.used
        /\ \A J \in Ledgers :
              (\A p \in Mortal : J[p] <= P[p] + One(p = f)) /\ Kind[f] = "function"
                 => Covers(m2, J, Mode)
    BY <1>5, <1>7, CoversNew
  <2>3. QED
    BY <1>7, <1>8, <2>1, <2>2
<1>10. L \in Ledgers /\ Covers(m3, L, Mode) /\ m3.used = m2.used
  BY <1>8, <1>9, Counts
<1>11. \A o \in Mortal : L[o] = K[o] + One(f = o)
  BY <1>8, PlusMinus
<1> HIDE DEF L, m3
<1>12. ASSUME NEW o \in Mortal
       PROVE  /\ L[o] = P[o] + One(f = o) + One(f = o) /\ K[o] = P[o] + One(f = o)
              /\ P[o] \in Nat /\ One(f = o) \in Nat /\ L[o] >= 0
              /\ f = o => L[o] >= 1
  <2>1. L[o] = K[o] + One(f = o) /\ K[o] = P[o] + One(f = o) /\ P[o] \in Nat
    BY <1>5, <1>8, <1>11
  <2>2. One(f = o) \in Nat /\ (f = o => One(f = o) = 1)
    BY OneType
  <2>3. QED
    BY <2>1, <2>2
<1>13. M \in Ledgers /\ Covers(m4, M, Mode) /\ m4.used = m3.used
  <2>1. f \in Mortal => L[f] >= 1
    BY <1>12
  <2>2. \A o \in Mortal : L[o] >= 0
    BY <1>12
  <2>3. QED
    BY <1>9, <1>10, <2>1, <2>2, Releases
<1>14. \A o \in Mortal : M[o] = L[o] - One(f = o)
  BY <1>10, PlusMinus
<1> HIDE DEF M, m4
<1>15. Rest(1) \in Seq(Object) /\ KnownSeq(mem, Rest(1))
  BY <1>1, Operand
<1>16. /\ s \in Seq(Object)
       /\ \A o \in Mortal : Occurrences(s, o) = Occurrences(Rest(1), o) + One(f = o)
  BY <1>9, <1>15, OccurrencesAppend
<1>17. mem.used \subseteq m4.used /\ f \in m4.used \cup Immortal
  BY <1>5, <1>9, <1>10, <1>13 DEF Usable
<1>18. KnownSeq(m4, s) /\ KnownSeq(m4, globals) /\ globals \in [Globals -> Object]
  <2>1. KnownSeq(mem, globals) /\ globals \in [Globals -> Object]
    BY DEF Shape, MachineOK
  <2>2. KnownSeq(m4, Rest(1)) /\ KnownSeq(m4, globals)
    BY <1>15, <1>17, <2>1, KnownMore
  <2>3. \A i \in DOMAIN s : s[i] = f \/ (i \in DOMAIN Rest(1) /\ s[i] = Rest(1)[i])
    BY <1>15
  <2> HIDE DEF s
  <2>4. QED
    BY <1>17, <2>1, <2>2, <2>3 DEF KnownSeq
<1> HIDE DEF s
<1>19. ASSUME NEW o \in Mortal
       PROVE  Held(frames, globals)[o] - Occurrences(Stack, o) + Occurrences(s, o) <= M[o]
  <2>1. /\ P[o] = Held(frames, globals)[o] - Occurrences(Stack, o) + Occurrences(Rest(1), o)
        /\ Held(frames, globals)[o] \in Nat /\ Occurrences(Stack, o) \in Nat
        /\ Occurrences(Rest(1), o) \in Nat
    BY <1>1, PoppedLedger DEF P, Ledger
  <2>2. /\ L[o] = P[o] + One(f = o) + One(f = o) /\ One(f = o) \in Nat /\ P[o] \in Nat
        /\ M[o] = L[o] - One(f = o)
    BY <1>12, <1>14
  <2>3. Occurrences(s, o) = Occurrences(Rest(1), o) + One(f = o)
    BY <1>16
  <2>4. QED
    BY <2>1, <2>2, <2>3
<1>20. QED
  BY <1>1, <1>13, <1>16, <1>17, <1>18, <1>19, StackKept

(* The operands below the top. *)
LEMMA RestAppend ==
    ASSUME Shape, NEW k \in Nat, Has(k + 1)
    PROVE  /\ Rest(k) = Append(Rest(k + 1), Peek(k))
           /\ Has(k)
           /\ \A o \in Mortal :
                 /\ Occurrences(Rest(k), o) = Occurrences(Rest(k + 1), o) + One(Peek(k) = o)
                 /\ Occurrences(Rest(k + 1), o) \in Nat
<1> DEFINE s == Stack
           l == Len(s)
           j == l - k
<1>1. s \in Seq(Object) /\ l \in Nat /\ k + 1 <= l
  <2>1. frames[Len(frames)] \in FrameType
    BY Opening
  <2>2. s \in Seq(Object)
    BY <2>1 DEF Stack, Frame, FrameType
  <2>3. QED
    BY <2>2 DEF Has
<1>2. Rest(k) = SubSeq(s, 1, j) /\ Rest(k + 1) = SubSeq(s, 1, l - (k + 1)) /\ Peek(k) = s[j]
  BY DEF Rest, Peek
<1>3. l - (k + 1) = j - 1 /\ j \in 1 .. Len(s) /\ Has(k)
  BY <1>1 DEF Has
<1> HIDE DEF s, l, j
<1>4. SubSeq(s, 1, j) = Append(SubSeq(s, 1, j - 1), s[j])
  BY <1>1, <1>3
<1>5. Rest(k) = Append(Rest(k + 1), Peek(k))
  BY <1>2, <1>3, <1>4
<1>6. Has(k + 1) /\ k + 1 \in Nat
  OBVIOUS
<1>7. Rest(k + 1) \in Seq(Object)
  BY <1>6, Operand
<1>8. Peek(k) \in Object
  BY <1>1, <1>2, <1>3
<1>9. \A o \in Mortal :
         /\ Occurrences(Rest(k), o) = Occurrences(Rest(k + 1), o) + One(Peek(k) = o)
         /\ Occurrences(Rest(k + 1), o) \in Nat
  <2> DEFINE r == Rest(k + 1)
             x == Peek(k)
  <2>1. IsFiniteSet(DOMAIN r) /\ r \in Seq(Object) /\ x \in Object /\ Rest(k) = Append(r, x)
    BY <1>5, <1>7, <1>8, SeqFinite
  <2> HIDE DEF r, x
  <2>2. \A o \in Mortal : Occurrences(Append(r, x), o) = Occurrences(r, o) + One(x = o)
    BY <2>1, OccurrencesAppend
  <2>3. \A o \in Mortal : Occurrences(r, o) \in Nat
    BY <2>1, OccurrencesType
  <2>4. QED
    BY <2>1, <2>2, <2>3 DEF r, x
<1>10. QED
  BY <1>3, <1>5, <1>9

(* The operands of a call are the callee, a null and the arguments. *)
LEMMA CallOperands ==
    ASSUME Shape, NEW n \in Nat, Has(n + 2)
    PROVE  /\ Has(n) /\ n + 2 \in Nat
           /\ Referred(Peek(n)) /\ Referred(Callee(n))
           /\ \A i \in 1 .. n : Referred(Args(n)[i])
           /\ \A o \in Mortal :
                 /\ Occurrences(Rest(n), o) = Occurrences(Rest(n + 2), o)
                                              + One(Callee(n) = o) + One(Peek(n) = o)
                 /\ Occurrences(Args(n + 2), o) = Occurrences(Args(n), o)
                                              + One(Callee(n) = o) + One(Peek(n) = o)
                 /\ Occurrences(Stack, o) = Occurrences(Rest(n), o) + Occurrences(Args(n), o)
                 /\ Occurrences(Args(n), o) \in Nat /\ Occurrences(Rest(n), o) \in Nat
                 /\ One(Callee(n) = o) \in Nat /\ One(Peek(n) = o) \in Nat
<1> DEFINE k == n + 1
           j == n + 2
<1>1. k \in Nat /\ k + 1 = j /\ j \in Nat /\ n \in Nat /\ n + 1 = k
  OBVIOUS
<1>2. Len(Stack) \in Nat
  <2>1. frames[Len(frames)] \in FrameType
    BY Opening
  <2>2. QED
    BY <2>1 DEF Stack, Frame, FrameType
<1>3. Has(n) /\ Has(k) /\ Has(j) /\ \A i \in 0 .. n : Has(i + 1)
  BY <1>2 DEF Has
<1>4. Callee(n) = Peek(k)
  BY DEF Callee
<1> HIDE DEF k, j
<1>5. \A o \in Mortal :
         /\ Occurrences(Rest(n), o) = Occurrences(Rest(k), o) + One(Peek(n) = o)
         /\ Occurrences(Rest(k), o) \in Nat
  <2>1. Has(n + 1)
    BY <1>1, <1>3
  <2>2. \A o \in Mortal :
           /\ Occurrences(Rest(n), o) = Occurrences(Rest(n + 1), o) + One(Peek(n) = o)
           /\ Occurrences(Rest(n + 1), o) \in Nat
    BY <2>1, RestAppend
  <2>3. QED
    BY <1>1, <2>2
<1>6. \A o \in Mortal :
         /\ Occurrences(Rest(k), o) = Occurrences(Rest(j), o) + One(Peek(k) = o)
         /\ Occurrences(Rest(j), o) \in Nat
  <2>1. Has(k + 1)
    BY <1>1, <1>3
  <2>2. \A o \in Mortal :
           /\ Occurrences(Rest(k), o) = Occurrences(Rest(k + 1), o) + One(Peek(k) = o)
           /\ Occurrences(Rest(k + 1), o) \in Nat
    BY <1>1, <2>1, RestAppend
  <2>3. QED
    BY <1>1, <2>2
<1>7. Referred(Peek(n)) /\ Referred(Peek(k))
  <2>1. Has(n + 1) /\ Has(k + 1)
    BY <1>1, <1>3
  <2>2. QED
    BY <1>1, <2>1, OperandReferred
<1>8. ASSUME NEW i \in 1 .. n PROVE Referred(Args(n)[i])
  <2> DEFINE e == n - i
  <2>1. e \in Nat /\ e \in 0 .. n
    OBVIOUS
  <2>2. Args(n)[i] = Peek(e)
    BY <1>3, Operand
  <2> HIDE DEF e
  <2>3. Has(e + 1)
    BY <1>3, <2>1
  <2>4. QED
    BY <2>1, <2>2, <2>3, OperandReferred
<1>9. ASSUME NEW o \in Mortal
      PROVE  /\ Occurrences(Rest(n), o) = Occurrences(Rest(j), o)
                                          + One(Peek(k) = o) + One(Peek(n) = o)
             /\ Occurrences(Args(j), o) = Occurrences(Args(n), o)
                                          + One(Peek(k) = o) + One(Peek(n) = o)
             /\ Occurrences(Stack, o) = Occurrences(Rest(n), o) + Occurrences(Args(n), o)
             /\ Occurrences(Args(n), o) \in Nat /\ Occurrences(Rest(n), o) \in Nat
             /\ One(Peek(k) = o) \in Nat /\ One(Peek(n) = o) \in Nat
  <2>1. /\ Occurrences(Rest(n), o) = Occurrences(Rest(k), o) + One(Peek(n) = o)
        /\ Occurrences(Rest(k), o) = Occurrences(Rest(j), o) + One(Peek(k) = o)
        /\ Occurrences(Rest(j), o) \in Nat
    BY <1>5, <1>6
  <2>2. /\ Occurrences(Stack, o) = Occurrences(Rest(n), o) + Occurrences(Args(n), o)
        /\ Occurrences(Args(n), o) \in Nat /\ Occurrences(Rest(n), o) \in Nat
    BY <1>3, Operand
  <2>3. /\ Occurrences(Stack, o) = Occurrences(Rest(j), o) + Occurrences(Args(j), o)
        /\ Occurrences(Args(j), o) \in Nat
    BY <1>1, <1>3, Operand
  <2>4. One(Peek(k) = o) \in Nat /\ One(Peek(n) = o) \in Nat
    BY OneType
  <2> DEFINE rn == Occurrences(Rest(n), o)
             rj == Occurrences(Rest(j), o)
             an == Occurrences(Args(n), o)
             aj == Occurrences(Args(j), o)
             x == One(Peek(k) = o)
             y == One(Peek(n) = o)
  <2>5. rn = rj + x + y
    BY <2>1, <2>4
  <2>6. rn + an = rj + aj
    BY <2>2, <2>3
  <2>7. rn \in Nat /\ rj \in Nat /\ an \in Nat /\ aj \in Nat /\ x \in Nat /\ y \in Nat
    BY <2>1, <2>2, <2>3, <2>4
  <2> HIDE DEF rn, rj, an, aj, x, y
  <2>8. aj = an + x + y
    BY <2>5, <2>6, <2>7
  <2>9. QED
    BY <2>2, <2>4, <2>5, <2>8 DEF rn, rj, an, aj, x, y
<1>10. QED
  BY <1>1, <1>3, <1>4, <1>7, <1>8, <1>9 DEF j

(* CALL_FUNCTION of a built-in: its result is none or new, and the callee
   and the arguments are released when it has returned. *)
LEMMA CallNativeKept ==
    ASSUME Shape, NEW n \in Nat, CallNative(n)
    PROVE  Kept
<1> DEFINE p == <<Peek(n), Callee(n)>>
           s == p \o Args(n)
<1>1. Has(n + 2) /\ globals' = globals
  BY DEF CallNative
<1>2. Has(n) /\ n + 2 \in Nat /\ Referred(Peek(n)) /\ Referred(Callee(n))
  BY <1>1, CallOperands
<1>3. p \in Seq(Object) /\ \A o \in Mortal : Occurrences(p, o) = One(Peek(n) = o) + One(Callee(n) = o)
  <2>1. Peek(n) \in Object /\ Callee(n) \in Object
    BY <1>2 DEF Referred
  <2>2. QED
    BY <2>1, OccurrencesTwo
<1> HIDE DEF p
<1>4. Args(n) \in Seq(Object)
  BY <1>2, Operand
<1>5. s \in Seq(Object)
      /\ \A o \in Mortal : Occurrences(s, o) = Occurrences(p, o) + Occurrences(Args(n), o)
  BY <1>3, <1>4, OccurrencesConcat
<1> HIDE DEF s
<1>6. ASSUME NEW o \in Mortal PROVE Occurrences(s, o) = Occurrences(Args(n + 2), o)
  <2>1. /\ Occurrences(Args(n + 2), o) = Occurrences(Args(n), o)
                                         + One(Callee(n) = o) + One(Peek(n) = o)
        /\ Occurrences(Args(n), o) \in Nat
        /\ One(Callee(n) = o) \in Nat /\ One(Peek(n) = o) \in Nat
    BY <1>1, CallOperands
  <2>2. Occurrences(s, o) = One(Peek(n) = o) + One(Callee(n) = o) + Occurrences(Args(n), o)
    BY <1>3, <1>5
  <2>3. QED
    BY <2>1, <2>2
<1>7. Covers(mem, Ledger, Mode) /\ Ledger \in Ledgers /\ MemoryOK(mem)
  BY Opening DEF Ledger
<1>8. ASSUME FinishPush(DecrefAll(mem, s), Rest(n + 2), NoneObject) PROVE Kept
  <2>1. NoneObject \in Object /\ Usable(mem, NoneObject, Mode)
    BY MemoryAssumption DEF Usable
  <2>2. mem.used \subseteq mem.used
    OBVIOUS
  <2>3. QED
    BY <1>1, <1>2, <1>5, <1>6, <1>7, <1>8, <2>1, <2>2, ResultKept
<1>9. ASSUME NEW kind \in DOMAIN Pool, HasFree(mem, kind),
             FinishPush(DecrefAll(Incref(Alloc(mem, kind), NextObject(mem, kind)), s),
                        Rest(n + 2), NextObject(mem, kind))
      PROVE  Kept
  <2> DEFINE x == NextObject(mem, kind)
             m1 == Alloc(mem, kind)
             m2 == Incref(m1, x)
             L == Plus(Ledger, x)
  <2>1. FinishPush(DecrefAll(m2, s), Rest(n + 2), x)
    BY <1>9
  <2>2. IsNew(mem, m1, x)
    BY <1>7, <1>9, AllocBalance
  <2> HIDE DEF x, m1
  <2>3. /\ Covers(m1, Ledger, Mode) /\ Usable(m1, x, Mode) /\ x \in Object
        /\ mem.used \subseteq m1.used
    BY <1>7, <2>2, CoversNew
  <2>4. /\ L \in Ledgers /\ Covers(m2, L, Mode) /\ m2.used = m1.used /\ Keeps(m1, m2, Mode)
    BY <1>7, <2>3, Counts
  <2>5. \A o \in Mortal : Ledger[o] <= L[o]
    <3> SUFFICES ASSUME NEW o \in Mortal PROVE Ledger[o] <= L[o]
      OBVIOUS
    <3>1. L[o] = Ledger[o] + One(x = o) /\ One(x = o) \in Nat /\ Ledger[o] \in Int
      BY <1>7, PlusMinus
    <3> HIDE DEF L
    <3>2. QED
      BY <3>1
  <2> HIDE DEF L, m2
  <2>6. Covers(m2, Ledger, Mode)
    BY <1>7, <2>4, <2>5, CoversLess
  <2>7. Usable(m2, x, Mode) /\ mem.used \subseteq m2.used
    BY <2>3, <2>4 DEF Keeps
  <2>8. QED
    BY <1>1, <1>2, <1>5, <1>6, <2>1, <2>3, <2>6, <2>7, ResultKept
<1>10. QED
  BY <1>8, <1>9 DEF CallNative, s, p

(* The frames of a call: the caller waits with the arguments, and there is  *)
(* a new activation.                                                        *)
LEMMA CallFrames ==
    ASSUME Shape, Len(frames) < MaxDepth, NEW m, mem.used \subseteq m.used,
           NEW g \in FrameType, FrameKnown(m, g), Len(g.args) <= MaxArgs,
           NEW h \in FrameType, FrameKnown(m, h), h.args = <<>>,
           NEW fs, fs = Append([frames EXCEPT ![Len(frames)] = g], h)
    PROVE  /\ FramesOK(fs)
           /\ \A k \in DOMAIN fs : FrameKnown(m, fs[k])
           /\ \A o \in Mortal :
                 Held(fs, globals)[o] = Held(frames, globals)[o]
                                        - Occurrences(FrameObjects(Frame), o)
                                        + Occurrences(FrameObjects(g), o)
                                        + Occurrences(FrameObjects(h), o)
<1> DEFINE n == Len(frames)
           gs == [frames EXCEPT ![n] = g]
<1>1. /\ frames \in Seq(FrameType) /\ n \in DOMAIN frames
      /\ globals \in [Globals -> Object]
      /\ n \in 1 .. MaxDepth /\ \A k \in DOMAIN frames : Len(frames[k].args) <= MaxArgs
      /\ \A k \in DOMAIN frames : FrameKnown(mem, frames[k])
  BY Opening DEF Shape, MachineOK, FramesOK
<1>2. /\ gs \in Seq(FrameType) /\ Len(gs) = n /\ DOMAIN gs = DOMAIN frames
      /\ gs[n] = g /\ \A k \in DOMAIN frames \ {n} : gs[k] = frames[k]
  BY <1>1
<1>3. ASSUME NEW o \in Mortal
      PROVE  Held(gs, globals)[o]
                = Held(frames, globals)[o] - Occurrences(FrameObjects(frames[n]), o)
                                           + Occurrences(FrameObjects(g), o)
  <2>1. frames \in Seq(FrameType) /\ globals \in [Globals -> Object] /\ n \in DOMAIN frames
    BY <1>1
  <2> HIDE DEF n
  <2>2. /\ [frames EXCEPT ![n] = g] \in Seq(FrameType)
        /\ Held([frames EXCEPT ![n] = g], globals)[o]
              = Held(frames, globals)[o] - Occurrences(FrameObjects(frames[n]), o)
                                         + Occurrences(FrameObjects(g), o)
        /\ Held(frames, globals)[o] >= Occurrences(FrameObjects(frames[n]), o)
    BY <2>1, HeldUpdate
  <2>3. QED
    BY <2>2
<1>4. fs = Append(gs, h)
  OBVIOUS
<1> HIDE DEF gs
<1>5. /\ fs \in Seq(FrameType) /\ Len(fs) = n + 1
      /\ fs[n + 1] = h /\ \A k \in DOMAIN frames : fs[k] = gs[k]
      /\ \A k \in DOMAIN fs : k = n + 1 \/ k \in DOMAIN frames
  <2>1. DOMAIN frames = 1 .. n /\ n \in Nat
    BY <1>1
  <2>2. /\ Append(gs, h) \in Seq(FrameType) /\ Len(Append(gs, h)) = Len(gs) + 1
        /\ Append(gs, h)[Len(gs) + 1] = h
        /\ DOMAIN Append(gs, h) = 1 .. Len(gs) + 1
        /\ \A k \in 1 .. Len(gs) : Append(gs, h)[k] = gs[k]
    <3>1. gs \in Seq(FrameType) /\ h \in FrameType
      BY <1>2
    <3>2. QED
      BY <3>1
  <2>3. /\ fs \in Seq(FrameType) /\ Len(fs) = Len(gs) + 1 /\ fs[Len(gs) + 1] = h
        /\ DOMAIN fs = 1 .. Len(gs) + 1 /\ \A k \in 1 .. Len(gs) : fs[k] = gs[k]
    BY <1>4, <2>2
  <2>4. Len(gs) = n
    BY <1>2
  <2> HIDE DEF n
  <2>5. QED
    BY <2>1, <2>3, <2>4
<1>6. ASSUME NEW o \in Mortal
      PROVE  Held(fs, globals)[o] = Held(gs, globals)[o] + Occurrences(FrameObjects(h), o)
  <2>1. /\ Append(gs, h) \in Seq(FrameType)
        /\ Held(Append(gs, h), globals)[o]
              = Held(gs, globals)[o] + Occurrences(FrameObjects(h), o)
    BY <1>1, <1>2, HeldPush
  <2>2. QED
    BY <1>4, <2>1
<1>7. ASSUME NEW k \in DOMAIN frames PROVE FrameKnown(m, frames[k])
  <2>1. /\ KnownSeq(mem, frames[k].locals) /\ KnownSeq(mem, frames[k].stack)
        /\ KnownSeq(mem, frames[k].args)
    BY <1>1 DEF FrameKnown
  <2>2. /\ KnownSeq(m, frames[k].locals) /\ KnownSeq(m, frames[k].stack)
        /\ KnownSeq(m, frames[k].args)
    BY <2>1, KnownMore
  <2>3. QED
    BY <2>2 DEF FrameKnown
<1>8. \A k \in DOMAIN fs : FrameKnown(m, fs[k]) /\ Len(fs[k].args) <= MaxArgs
  <2>1. Len(h.args) <= MaxArgs
    BY VMAssumption
  <2>2. \A k \in DOMAIN frames : FrameKnown(m, gs[k]) /\ Len(gs[k].args) <= MaxArgs
    BY <1>1, <1>2, <1>7
  <2>3. QED
    BY <1>5, <2>1, <2>2
<1>9. Len(fs) \in 1 .. MaxDepth
  <2>1. n \in 1 .. MaxDepth /\ n < MaxDepth /\ MaxDepth \in Nat /\ Len(fs) = n + 1
    BY <1>1, <1>5, VMAssumption
  <2> HIDE DEF n
  <2>2. QED
    BY <2>1
<1>10. FramesOK(fs)
  BY <1>5, <1>8, <1>9 DEF FramesOK
<1>11. ASSUME NEW o \in Mortal
       PROVE  Held(fs, globals)[o] = Held(frames, globals)[o]
                                     - Occurrences(FrameObjects(frames[n]), o)
                                     + Occurrences(FrameObjects(g), o)
                                     + Occurrences(FrameObjects(h), o)
  <2> DEFINE x == Held(fs, globals)[o]
             y == Held(gs, globals)[o]
             z == Held(frames, globals)[o] - Occurrences(FrameObjects(frames[n]), o)
                                           + Occurrences(FrameObjects(g), o)
  <2>1. y = z /\ x = y + Occurrences(FrameObjects(h), o)
    BY <1>3, <1>6
  <2>2. x = z + Occurrences(FrameObjects(h), o)
    <3> HIDE DEF x, y, z
    <3>1. QED
      BY <2>1
  <2>3. QED
    BY <2>2
<1>12. QED
  BY <1>8, <1>10, <1>11 DEF Frame

(* CALL_FUNCTION of a function: the callee is released; the counts of the
   arguments pass to the call that waits, and the locals get their own. *)
LEMMA CallKept ==
    ASSUME Shape, NEW n \in 0 .. MaxArgs, Call(n)
    PROVE  Kept
<1> DEFINE f == Frame
           args == Args(n)
           locals == [i \in Locals |-> IF i <= n THEN args[i] ELSE NoneObject]
           s == <<Peek(n), Callee(n)>>
           m1 == DecrefAll(mem, s)
           m2 == IncrefAll(m1, locals)
           r == Rest(n + 2)
           g == [f EXCEPT !.stack = r, !.args = args]
           h == NewFrame(locals)
           fs == Append([frames EXCEPT ![Len(frames)] = g], h)
           L1 == [o \in Mortal |-> Ledger[o] - Occurrences(s, o)]
           L2 == [o \in Mortal |-> L1[o] + Occurrences(locals, o)]
<1>1. /\ Has(n + 2) /\ Len(frames) < MaxDepth /\ ~ mem.undefined
      /\ mem' = m2 /\ globals' = globals /\ argsSwept' = argsSwept
      /\ frames' = Append([frames EXCEPT ![Len(frames)] = [@ EXCEPT !.stack = r, !.args = args]],
                          NewFrame(locals))
  BY DEF Call, Ready
<1>2. n \in Nat /\ n <= MaxArgs
  BY VMAssumption
<1>3. /\ f \in FrameType /\ FrameKnown(mem, f) /\ f = frames[Len(frames)]
      /\ frames \in Seq(FrameType) /\ Len(frames) \in DOMAIN frames
      /\ f.args = <<>>
  BY Opening DEF Shape, MachineOK, FramesOK, Frame
<1>4. frames' = fs
  <2>1. [f EXCEPT !.stack = r, !.args = args] = g
    OBVIOUS
  <2>2. [frames EXCEPT ![Len(frames)] = [@ EXCEPT !.stack = r, !.args = args]]
           = [frames EXCEPT ![Len(frames)] = g]
    <3> HIDE DEF r, args
    <3>1. QED
      BY <1>3
  <2>3. QED
    BY <1>1, <2>2, Zenon
<1>5. Covers(mem, Ledger, Mode) /\ Ledger \in Ledgers /\ MemoryOK(mem)
  BY Opening DEF Ledger
<1>6. /\ Has(n) /\ n + 2 \in Nat
      /\ Referred(Peek(n)) /\ Referred(Callee(n))
      /\ \A i \in 1 .. n : Referred(args[i])
  BY <1>1, <1>2, CallOperands
<1>7. s \in Seq(Object)
      /\ \A o \in Mortal : Occurrences(s, o) = One(Peek(n) = o) + One(Callee(n) = o)
  <2>1. Peek(n) \in Object /\ Callee(n) \in Object
    BY <1>6 DEF Referred
  <2>2. QED
    BY <2>1, OccurrencesTwo
<1> HIDE DEF s
<1>8. /\ args \in Seq(Object) /\ Len(args) = n /\ KnownSeq(mem, args)
      /\ r \in Seq(Object) /\ KnownSeq(mem, r)
  <2>1. /\ args \in Seq(Object) /\ Len(args) = n /\ KnownSeq(mem, args)
    BY <1>2, <1>6, Operand
  <2>2. r \in Seq(Object) /\ KnownSeq(mem, r)
    BY <1>1, <1>6, Operand
  <2>3. QED
    BY <2>1, <2>2
<1>9. ASSUME NEW o \in Mortal
      PROVE  /\ Occurrences(Stack, o)
                   = Occurrences(r, o) + Occurrences(args, o) + Occurrences(s, o)
             /\ Occurrences(r, o) \in Nat /\ Occurrences(args, o) \in Nat
             /\ Occurrences(s, o) \in Nat
             /\ Ledger[o] \in Nat /\ Ledger[o] >= Occurrences(s, o)
  <2>1. /\ Occurrences(Rest(n), o) = Occurrences(r, o) + One(Callee(n) = o) + One(Peek(n) = o)
        /\ Occurrences(Stack, o) = Occurrences(Rest(n), o) + Occurrences(args, o)
        /\ Occurrences(args, o) \in Nat
        /\ One(Callee(n) = o) \in Nat /\ One(Peek(n) = o) \in Nat
    BY <1>1, <1>2, CallOperands
  <2>2. /\ Ledger[o] \in Nat /\ Ledger[o] >= Occurrences(Args(n + 2), o)
        /\ Occurrences(r, o) \in Nat
    BY <1>1, <1>6, PoppedLedger
  <2>3. Occurrences(Args(n + 2), o) = Occurrences(args, o)
                                      + One(Callee(n) = o) + One(Peek(n) = o)
    BY <1>1, <1>2, CallOperands
  <2>4. Occurrences(s, o) = One(Peek(n) = o) + One(Callee(n) = o)
    BY <1>7
  <2> DEFINE x == One(Callee(n) = o)
             y == One(Peek(n) = o)
             a == Occurrences(args, o)
             b == Occurrences(r, o)
             c == Occurrences(Rest(n), o)
             d == Occurrences(Stack, o)
             e == Occurrences(s, o)
             l == Ledger[o]
  <2>5. /\ c = b + x + y /\ d = c + a /\ e = y + x
    BY <2>1, <2>4
  <2>6. l >= a + x + y
    BY <2>2, <2>3
  <2>7. x \in Nat /\ y \in Nat /\ a \in Nat /\ b \in Nat /\ l \in Nat
    BY <2>1, <2>2
  <2> HIDE DEF x, y, a, b, c, d, e, l
  <2>8. d = b + a + e /\ e \in Nat /\ l >= e
    BY <2>5, <2>6, <2>7
  <2>9. QED
    BY <2>7, <2>8 DEF x, y, a, b, c, d, e, l
<1> HIDE DEF args, r
<1>10. /\ locals \in Seq(Object) /\ Len(locals) = LocalCount /\ DOMAIN locals = Locals
       /\ \A i \in Locals : locals[i] = NoneObject \/ (i \in 1 .. n /\ locals[i] = args[i])
  <2>1. LocalCount \in Nat /\ Locals = 1 .. LocalCount /\ NoneObject \in Object
    BY VMAssumption, MemoryAssumption DEF Locals
  <2>2. \A i \in Locals : (IF i <= n THEN args[i] ELSE NoneObject) \in Object
    BY <1>2, <1>8, <2>1
  <2>3. QED
    BY <2>1, <2>2
<1> HIDE DEF locals
<1>11. \A o \in Mortal : Occurrences(locals, o) \in Nat
  <2>1. IsFiniteSet(DOMAIN locals)
    BY <1>10, SeqFinite
  <2>2. QED
    BY <2>1, OccurrencesType
<1>12. L1 \in Ledgers /\ \A o \in Mortal : L1[o] = Ledger[o] - Occurrences(s, o) /\ L1[o] >= 0
  <2>1. \A o \in Mortal : Ledger[o] - Occurrences(s, o) \in Int
    BY <1>9
  <2>2. \A o \in Mortal : Ledger[o] - Occurrences(s, o) >= 0
    BY <1>9
  <2>3. QED
    BY <2>1, <2>2 DEF Ledgers
<1> HIDE DEF L1
<1>13. L2 \in Ledgers /\ \A o \in Mortal : L2[o] = L1[o] + Occurrences(locals, o)
  <2>1. \A o \in Mortal : L1[o] + Occurrences(locals, o) \in Int
    BY <1>11, <1>12 DEF Ledgers
  <2>2. QED
    BY <2>1 DEF Ledgers
<1> HIDE DEF L2
<1>14. Covers(m1, L1, Mode) /\ m1.used = mem.used /\ Keeps(mem, m1, Mode)
  <2>1. \A o \in Mortal : Ledger[o] >= Occurrences(s, o)
    BY <1>9
  <2>2. \A o \in Mortal : L1[o] <= Ledger[o] - Occurrences(s, o)
    <3> SUFFICES ASSUME NEW o \in Mortal PROVE L1[o] <= Ledger[o] - Occurrences(s, o)
      OBVIOUS
    <3>1. L1[o] = Ledger[o] - Occurrences(s, o) /\ L1[o] \in Int
      BY <1>12 DEF Ledgers
    <3>2. QED
      BY <3>1
  <2>3. \A o \in Mortal : L1[o] >= 0
    BY <1>12
  <2>4. L1 \in Ledgers /\ Ledger \in Ledgers /\ Covers(mem, Ledger, Mode)
    BY <1>5, <1>12
  <2>5. QED
    BY <1>7, <2>1, <2>2, <2>3, <2>4, ReleaseAll
<1> HIDE DEF m1
<1>15. \A i \in DOMAIN locals : Usable(m1, locals[i], Mode)
  <2> SUFFICES ASSUME NEW i \in Locals PROVE Usable(m1, locals[i], Mode)
    BY <1>10
  <2>1. CASE locals[i] = NoneObject
    BY <2>1, MemoryAssumption DEF Usable
  <2>2. CASE i \in 1 .. n /\ locals[i] = args[i]
    <3>1. Referred(args[i])
      BY <1>6, <2>2
    <3>2. QED
      BY <1>14, <2>2, <3>1 DEF Referred, Keeps
  <2>3. QED
    BY <1>10, <2>1, <2>2
<1>16. Covers(m2, L2, Mode) /\ m2.used = m1.used
  <2>1. \A o \in Mortal : L2[o] <= L1[o] + Occurrences(locals, o)
    <3> SUFFICES ASSUME NEW o \in Mortal PROVE L2[o] <= L1[o] + Occurrences(locals, o)
      OBVIOUS
    <3>1. L2[o] = L1[o] + Occurrences(locals, o) /\ L2[o] \in Int
      BY <1>13 DEF Ledgers
    <3>2. QED
      BY <3>1
  <2>2. QED
    BY <1>10, <1>12, <1>13, <1>14, <1>15, <2>1, CountAll
<1> HIDE DEF m2
<1>17. mem.used \subseteq m2.used
  BY <1>14, <1>16
<1>18. /\ g \in FrameType /\ g.locals = f.locals /\ g.stack = r /\ g.args = args
       /\ h \in FrameType /\ h.locals = locals /\ h.stack = <<>> /\ h.args = <<>>
  BY <1>3, <1>8, <1>10 DEF FrameType, NewFrame
<1> HIDE DEF g, h
<1>19. FrameKnown(m2, g) /\ Len(g.args) <= MaxArgs
  <2>1. KnownSeq(mem, f.locals)
    BY <1>3 DEF FrameKnown
  <2>2. KnownSeq(m2, f.locals) /\ KnownSeq(m2, r) /\ KnownSeq(m2, args)
    BY <1>8, <1>17, <2>1, KnownMore
  <2>3. QED
    BY <1>2, <1>8, <1>18, <2>2 DEF FrameKnown
<1>20. FrameKnown(m2, h)
  <2>1. KnownSeq(m2, locals)
    BY <1>10, <1>15, <1>16 DEF KnownSeq, Usable
  <2>2. KnownSeq(m2, <<>>)
    BY DEF KnownSeq
  <2>3. QED
    BY <1>18, <2>1, <2>2 DEF FrameKnown
<1> HIDE DEF fs
<1>21. /\ FramesOK(fs)
       /\ \A k \in DOMAIN fs : FrameKnown(m2, fs[k])
       /\ \A o \in Mortal :
             Held(fs, globals)[o] = Held(frames, globals)[o]
                                    - Occurrences(FrameObjects(Frame), o)
                                    + Occurrences(FrameObjects(g), o)
                                    + Occurrences(FrameObjects(h), o)
  BY <1>1, <1>17, <1>18, <1>19, <1>20, CallFrames, ZenonT(30) DEF fs
<1>22. MachineOK(m2, fs, globals)
  <2>1. KnownSeq(mem, globals) /\ globals \in [Globals -> Object]
    BY DEF Shape, MachineOK
  <2>2. KnownSeq(m2, globals)
    BY <1>17, <2>1, KnownMore
  <2>3. QED
    BY <1>16, <1>21, <2>1, <2>2 DEF MachineOK, Covers
<1>23. ASSUME NEW o \in Mortal PROVE Held(fs, globals)[o] <= L2[o]
  <2>1. /\ Occurrences(FrameObjects(f), o)
              = Occurrences(f.locals, o) + Occurrences(f.stack, o) + Occurrences(f.args, o)
        /\ Occurrences(f.locals, o) \in Nat
    BY <1>3, FrameCount
  <2>2. Occurrences(FrameObjects(g), o)
           = Occurrences(g.locals, o) + Occurrences(g.stack, o) + Occurrences(g.args, o)
    BY <1>18, FrameCount
  <2>3. Occurrences(FrameObjects(h), o)
           = Occurrences(h.locals, o) + Occurrences(h.stack, o) + Occurrences(h.args, o)
    BY <1>18, FrameCount
  <2>4. Occurrences(<<>>, o) = 0
    BY OccurrencesNone
  <2> DEFINE hf == Held(fs, globals)[o]
             l == Ledger[o]
             ff == Occurrences(FrameObjects(f), o)
             gg == Occurrences(FrameObjects(g), o)
             hh == Occurrences(FrameObjects(h), o)
             fl == Occurrences(f.locals, o)
             st == Occurrences(Stack, o)
             rr == Occurrences(r, o)
             aa == Occurrences(args, o)
             ll == Occurrences(locals, o)
             ss == Occurrences(s, o)
             k1 == L1[o]
             k2 == L2[o]
  <2>5. hf = l - ff + gg + hh
    BY <1>21 DEF Ledger
  <2>6. ff = fl + st + 0
    BY <1>3, <2>1, <2>4 DEF Stack
  <2>7. gg = fl + rr + aa
    BY <1>18, <2>2
  <2>8. hh = ll + 0 + 0
    BY <1>18, <2>3, <2>4
  <2>9. st = rr + aa + ss /\ k1 = l - ss /\ k2 = k1 + ll
    BY <1>9, <1>12, <1>13
  <2>10. rr \in Nat /\ aa \in Nat /\ ss \in Nat /\ l \in Nat /\ ll \in Nat /\ fl \in Nat
    BY <1>9, <1>11, <2>1
  <2> HIDE DEF hf, l, ff, gg, hh, fl, st, rr, aa, ll, ss, k1, k2
  <2>11. hf <= k2
    BY <2>5, <2>6, <2>7, <2>8, <2>9, <2>10
  <2>12. QED
    BY <2>11 DEF hf, k2
<1>24. QED
  BY <1>1, <1>4, <1>13, <1>16, <1>22, <1>23, Closing

(* The frames of a return: the running activation goes, and its caller      *)
(* continues as g.                                                          *)
LEMMA ReturnFrames ==
    ASSUME Shape, Len(frames) > 1, NEW m, mem.used \subseteq m.used,
           NEW g \in FrameType, FrameKnown(m, g), g.args = <<>>,
           NEW fs, fs = Append(SubSeq(frames, 1, Len(frames) - 2), g)
    PROVE  /\ FramesOK(fs)
           /\ \A k \in DOMAIN fs : FrameKnown(m, fs[k])
           /\ frames[Len(frames) - 1] \in FrameType
           /\ FrameKnown(mem, frames[Len(frames) - 1])
           /\ \A o \in Mortal :
                 /\ Held(fs, globals)[o] = Held(frames, globals)[o]
                                           - Occurrences(FrameObjects(Frame), o)
                                           - Occurrences(FrameObjects(frames[Len(frames) - 1]), o)
                                           + Occurrences(FrameObjects(g), o)
                 /\ Held(frames, globals)[o]
                       >= Occurrences(FrameObjects(Frame), o)
                          + Occurrences(FrameObjects(frames[Len(frames) - 1]), o)
<1> DEFINE n == Len(frames)
           front == SubSeq(frames, 1, n - 1)
           c == frames[n - 1]
           rest == SubSeq(frames, 1, n - 2)
<1>1. /\ frames \in Seq(FrameType) /\ n \in Nat /\ n \in 1 .. MaxDepth /\ n > 1
      /\ globals \in [Globals -> Object]
      /\ \A k \in DOMAIN frames : Len(frames[k].args) <= MaxArgs
      /\ \A k \in DOMAIN frames : FrameKnown(mem, frames[k])
  BY Opening DEF Shape, MachineOK, FramesOK
<1>2. DOMAIN frames = 1 .. n
  BY <1>1
<1>3. n - 1 \in 1 .. n /\ n - 2 \in Nat /\ n - 2 = (n - 1) - 1
  <2>1. n \in Nat /\ n > 1
    BY <1>1
  <2> HIDE DEF n
  <2>2. QED
    BY <2>1
<1>4. c \in FrameType /\ FrameKnown(mem, c)
  <2> DEFINE j == n - 1
  <2>1. j \in DOMAIN frames
    BY <1>2, <1>3
  <2> HIDE DEF j
  <2>2. frames[j] \in FrameType /\ FrameKnown(mem, frames[j])
    <3>1. frames \in Seq(FrameType) /\ \A k \in DOMAIN frames : FrameKnown(mem, frames[k])
      BY <1>1
    <3>2. QED
      BY <2>1, <3>1
  <2>3. QED
    BY <2>2 DEF j
<1> HIDE DEF c
<1>5. /\ front \in Seq(FrameType) /\ Len(front) = n - 1
      /\ \A k \in 1 .. n - 1 : front[k] = frames[k]
  <2>1. frames \in Seq(FrameType) /\ n - 1 \in 1 .. Len(frames)
    BY <1>1, <1>3
  <2> DEFINE j == n - 1
  <2> HIDE DEF n
  <2> HIDE DEF j
  <2>2. /\ SubSeq(frames, 1, j) \in Seq(FrameType) /\ Len(SubSeq(frames, 1, j)) = j
        /\ \A k \in 1 .. j : SubSeq(frames, 1, j)[k] = frames[k]
    <3>1. j \in 1 .. Len(frames)
      BY <2>1 DEF j
    <3>2. QED
      BY <2>1, <3>1
  <2>3. QED
    BY <2>2 DEF j
<1>6. /\ rest \in Seq(FrameType) /\ Len(rest) = n - 2
      /\ \A k \in 1 .. n - 2 : rest[k] = frames[k]
      /\ rest = SubSeq(front, 1, Len(front) - 1)
  <2> DEFINE j == n - 2
  <2>1. frames \in Seq(FrameType) /\ j \in 0 .. Len(frames) - 2 /\ Len(frames) - 2 = j
    BY <1>1, <1>3
  <2>2. Len(front) - 1 = j
    BY <1>3, <1>5
  <2> HIDE DEF n
  <2> HIDE DEF j
  <2>3. /\ SubSeq(frames, 1, j) \in Seq(FrameType) /\ Len(SubSeq(frames, 1, j)) = j
        /\ \A k \in 1 .. j : SubSeq(frames, 1, j)[k] = frames[k]
    BY <2>1
  <2>4. SubSeq(front, 1, j) = SubSeq(frames, 1, j)
    <3>1. /\ front \in Seq(FrameType) /\ Len(front) = j + 1
          /\ \A k \in 1 .. j : front[k] = frames[k]
      BY <1>3, <1>5 DEF j
    <3> HIDE DEF front
    <3>2. QED
      BY <2>1, <3>1
  <2>5. QED
    BY <2>2, <2>3, <2>4 DEF j
<1>7. front # <<>> /\ front[Len(front)] = c
  <2> DEFINE j == n - 1
  <2>1. front \in Seq(FrameType) /\ Len(front) = j /\ \A k \in 1 .. j : front[k] = frames[k]
    BY <1>5
  <2>2. j \in 1 .. j
    BY <1>1
  <2>3. c = frames[j]
    BY DEF c
  <2> HIDE DEF j, front
  <2>4. QED
    BY <2>1, <2>2, <2>3
<1>8. n - 1 >= 1
  BY <1>1
<1> HIDE DEF rest
<1>9. ASSUME NEW o \in Mortal
      PROVE  /\ Held(frames, globals)[o] = Held(front, globals)[o]
                                           + Occurrences(FrameObjects(Frame), o)
             /\ Held(front, globals)[o] = Held(rest, globals)[o]
                                          + Occurrences(FrameObjects(c), o)
             /\ Held(Append(rest, g), globals)[o] = Held(rest, globals)[o]
                                                    + Occurrences(FrameObjects(g), o)
  <2>1. Held(frames, globals)[o] = Held(front, globals)[o]
                                   + Occurrences(FrameObjects(Frame), o)
    <3>1. frames \in Seq(FrameType) /\ frames # <<>>
      BY <1>1
    <3>2. QED
      BY <1>1, <3>1, HeldPop DEF Frame
  <2> HIDE DEF front
  <2>2. /\ Held(front, globals)[o] = Held(SubSeq(front, 1, Len(front) - 1), globals)[o]
                                    + Occurrences(FrameObjects(front[Len(front)]), o)
    BY <1>1, <1>5, <1>7, HeldPop
  <2>3. Held(front, globals)[o] = Held(rest, globals)[o] + Occurrences(FrameObjects(c), o)
    BY <1>6, <1>7, <2>2
  <2>4. Held(Append(rest, g), globals)[o] = Held(rest, globals)[o]
                                            + Occurrences(FrameObjects(g), o)
    BY <1>1, <1>6, HeldPush
  <2>5. QED
    BY <2>1, <2>3, <2>4
<1>10. fs = Append(rest, g)
  BY DEF rest
<1>11. ASSUME NEW o \in Mortal
       PROVE  /\ Held(fs, globals)[o] = Held(frames, globals)[o]
                                        - Occurrences(FrameObjects(Frame), o)
                                        - Occurrences(FrameObjects(c), o)
                                        + Occurrences(FrameObjects(g), o)
              /\ Held(frames, globals)[o] >= Occurrences(FrameObjects(Frame), o)
                                             + Occurrences(FrameObjects(c), o)
  <2> DEFINE x == Held(fs, globals)[o]
             y == Held(frames, globals)[o]
             z == Held(front, globals)[o]
             w == Held(rest, globals)[o]
             a == Occurrences(FrameObjects(Frame), o)
             b == Occurrences(FrameObjects(c), o)
             d == Occurrences(FrameObjects(g), o)
  <2>1. y = z + a /\ z = w + b /\ x = w + d
    BY <1>9, <1>10
  <2>2. w \in Nat
    BY <1>1, <1>6, HeldType
  <2>3. a \in Nat /\ b \in Nat /\ d \in Nat
    <3>1. Frame \in FrameType
      BY <1>1 DEF Frame
    <3>2. QED
      BY <1>4, <3>1, FrameCount, SeqFinite, OccurrencesType
  <2> HIDE DEF x, y, z, w, a, b, d
  <2>4. x = y - a - b + d /\ y >= a + b
    BY <2>1, <2>2, <2>3
  <2>5. QED
    BY <2>4 DEF x, y, a, b, d
<1>12. /\ fs \in Seq(FrameType) /\ Len(fs) = n - 1 /\ fs[n - 1] = g
       /\ DOMAIN fs = 1 .. n - 1 /\ \A k \in 1 .. n - 2 : fs[k] = frames[k]
  <2>1. /\ Append(rest, g) \in Seq(FrameType) /\ Len(Append(rest, g)) = Len(rest) + 1
        /\ Append(rest, g)[Len(rest) + 1] = g
        /\ DOMAIN Append(rest, g) = 1 .. Len(rest) + 1
        /\ \A k \in 1 .. Len(rest) : Append(rest, g)[k] = rest[k]
    <3>1. rest \in Seq(FrameType) /\ g \in FrameType
      BY <1>6
    <3>2. QED
      BY <3>1
  <2>2. Len(rest) = n - 2 /\ (n - 2) + 1 = n - 1 /\ \A k \in 1 .. n - 2 : rest[k] = frames[k]
    BY <1>1, <1>6
  <2> HIDE DEF n
  <2>3. QED
    BY <1>10, <2>1, <2>2
<1>13. ASSUME NEW k \in DOMAIN fs
       PROVE  FrameKnown(m, fs[k]) /\ Len(fs[k].args) <= MaxArgs
  <2>1. CASE k = n - 1
    BY <1>12, <2>1, VMAssumption
  <2>2. CASE k # n - 1
    <3>1. k \in 1 .. n - 2 /\ k \in 1 .. n
      <4>1. k \in 1 .. n - 1 /\ n \in Nat
        BY <1>1, <1>12
      <4> HIDE DEF n
      <4>2. QED
        BY <2>2, <4>1
    <3>2. fs[k] = frames[k] /\ k \in DOMAIN frames
      BY <1>2, <1>12, <3>1
    <3>3. /\ KnownSeq(mem, frames[k].locals) /\ KnownSeq(mem, frames[k].stack)
          /\ KnownSeq(mem, frames[k].args)
      BY <1>1, <3>2 DEF FrameKnown
    <3>4. /\ KnownSeq(m, frames[k].locals) /\ KnownSeq(m, frames[k].stack)
          /\ KnownSeq(m, frames[k].args)
      BY <3>3, KnownMore
    <3>5. QED
      BY <1>1, <3>2, <3>4 DEF FrameKnown
  <2>3. QED
    BY <2>1, <2>2
<1>14. Len(fs) \in 1 .. MaxDepth
  <2>1. n \in Nat /\ n \in 1 .. MaxDepth /\ n > 1 /\ Len(fs) = n - 1 /\ MaxDepth \in Nat
    BY <1>1, <1>12, VMAssumption
  <2> HIDE DEF n
  <2>2. QED
    BY <2>1
<1>15. FramesOK(fs)
  BY <1>12, <1>13, <1>14 DEF FramesOK
<1>16. QED
  BY <1>4, <1>11, <1>13, <1>15 DEF c

(* The end of an activation releases all that it held and the arguments of  *)
(* the call, and gives the caller the result.                               *)
LEMMA FinishReturnKept ==
    ASSUME Shape, NEW m, NEW stack \in Seq(Object), NEW result \in Object,
           FinishReturn(m, stack, result), globals' = globals,
           mem.used \subseteq m.used, KnownSeq(m, stack), Usable(m, result, Mode),
           NEW L \in Ledgers, Covers(m, L, Mode),
           \A o \in Mortal :
              L[o] >= Ledger[o] - Occurrences(Stack, o) + Occurrences(stack, o)
    PROVE  Kept
<1> DEFINE n == Len(frames)
           c == frames[n - 1]
           f == Frame
           s == stack \o f.locals
           m1 == DecrefAll(m, s)
           m2 == DecrefAll(m1, c.args)
           m3 == Incref(m2, result)
           cs == Append(c.stack, result)
           g == [c EXCEPT !.stack = cs, !.args = <<>>]
           fs == Append(SubSeq(frames, 1, n - 2), g)
           K1 == [o \in Mortal |-> L[o] - Occurrences(s, o)]
           K2 == [o \in Mortal |-> K1[o] - Occurrences(c.args, o)]
<1>1. /\ n > 1 /\ ~ mem.undefined /\ mem' = m3 /\ argsSwept' = argsSwept
      /\ frames' = Append(SubSeq(frames, 1, n - 2),
                          [c EXCEPT !.stack = Append(@, result), !.args = <<>>])
  BY DEF FinishReturn, Ready
<1>2. /\ frames \in Seq(FrameType) /\ globals \in [Globals -> Object]
      /\ f \in FrameType /\ f.args = <<>> /\ c \in FrameType
  <2>1. frames \in Seq(FrameType) /\ globals \in [Globals -> Object] /\ n \in 1 .. MaxDepth
        /\ frames[n].args = <<>>
    BY DEF Shape, MachineOK, FramesOK
  <2>2. frames[n] \in FrameType
    BY <2>1
  <2> DEFINE j == n - 1
  <2>3. j \in DOMAIN frames
    BY <1>1, <2>1
  <2> HIDE DEF j
  <2>4. frames[j] \in FrameType
    BY <2>1, <2>3
  <2>5. QED
    BY <2>1, <2>2, <2>4 DEF Frame, j
<1>3. frames' = fs
  BY <1>1
<1> HIDE DEF c, f
<1>4. /\ f.locals \in Seq(Object) /\ s \in Seq(Object)
      /\ c.args \in Seq(Object) /\ c.stack \in Seq(Object) /\ cs \in Seq(Object)
  <2>1. f.locals \in Seq(Object)
    BY <1>2 DEF FrameType
  <2>2. c.args \in Seq(Object) /\ c.stack \in Seq(Object)
    BY <1>2 DEF FrameType
  <2>3. QED
    BY <2>1, <2>2
<1>5. /\ g \in FrameType /\ g.locals = c.locals /\ g.stack = cs /\ g.args = <<>>
  <2> HIDE DEF cs
  <2>1. QED
    BY <1>2, <1>4 DEF FrameType
<1> HIDE DEF g
<1>6. ASSUME NEW o \in Mortal
      PROVE  /\ Occurrences(s, o) = Occurrences(stack, o) + Occurrences(f.locals, o)
             /\ Occurrences(stack, o) \in Nat /\ Occurrences(f.locals, o) \in Nat
             /\ Occurrences(cs, o) = Occurrences(c.stack, o) + One(result = o)
             /\ Occurrences(c.stack, o) \in Nat /\ Occurrences(c.locals, o) \in Nat
             /\ Occurrences(c.args, o) \in Nat
             /\ One(result = o) \in Nat
  <2>1. /\ Occurrences(s, o) = Occurrences(stack, o) + Occurrences(f.locals, o)
        /\ Occurrences(stack, o) \in Nat /\ Occurrences(f.locals, o) \in Nat
    BY <1>4, OccurrencesConcat
  <2>2. Occurrences(cs, o) = Occurrences(c.stack, o) + One(result = o)
    BY <1>4, OccurrencesAppend
  <2>3. /\ Occurrences(c.stack, o) \in Nat /\ Occurrences(c.locals, o) \in Nat
        /\ Occurrences(c.args, o) \in Nat
    BY <1>2, FrameCount
  <2>4. One(result = o) \in Nat
    BY DEF One
  <2>5. QED
    BY <2>1, <2>2, <2>3, <2>4
<1> HIDE DEF s, cs
<1>7. ASSUME NEW o \in Mortal
      PROVE  /\ Occurrences(FrameObjects(f), o) = Occurrences(f.locals, o) + Occurrences(Stack, o)
             /\ Occurrences(FrameObjects(c), o)
                   = Occurrences(c.locals, o) + Occurrences(c.stack, o) + Occurrences(c.args, o)
             /\ Occurrences(FrameObjects(g), o) = Occurrences(c.locals, o) + Occurrences(cs, o)
             /\ Occurrences(Stack, o) \in Nat /\ Ledger[o] \in Nat /\ L[o] \in Int
             /\ Ledger[o] >= Occurrences(FrameObjects(f), o) + Occurrences(FrameObjects(c), o)
  <2>1. Occurrences(<<>>, o) = 0
    BY OccurrencesNone
  <2>2. /\ Occurrences(FrameObjects(f), o)
              = Occurrences(f.locals, o) + Occurrences(f.stack, o) + Occurrences(f.args, o)
        /\ Occurrences(f.stack, o) \in Nat /\ Occurrences(f.locals, o) \in Nat
    BY <1>2, FrameCount
  <2>3. Occurrences(FrameObjects(c), o)
              = Occurrences(c.locals, o) + Occurrences(c.stack, o) + Occurrences(c.args, o)
        /\ Occurrences(c.locals, o) \in Nat
    BY <1>2, FrameCount
  <2>4. Occurrences(FrameObjects(g), o)
              = Occurrences(g.locals, o) + Occurrences(g.stack, o) + Occurrences(g.args, o)
        /\ Occurrences(g.stack, o) \in Nat
    BY <1>5, FrameCount
  <2>5. /\ Held(frames, globals)[o]
              >= Occurrences(FrameObjects(f), o) + Occurrences(FrameObjects(c), o)
        /\ Held(frames, globals)[o] \in Nat
    <3> DEFINE h == NewFrame(<<>>)
               hs == Append(SubSeq(frames, 1, n - 2), h)
    <3>1. h \in FrameType /\ h.args = <<>> /\ FrameKnown(mem, h)
      BY DEF NewFrame, FrameType, FrameKnown, KnownSeq
    <3> HIDE DEF h
    <3>2. hs = Append(SubSeq(frames, 1, Len(frames) - 2), h) /\ Len(frames) > 1
      BY <1>1
    <3> HIDE DEF hs
    <3>3. Held(frames, globals)[o]
             >= Occurrences(FrameObjects(Frame), o)
                + Occurrences(FrameObjects(frames[Len(frames) - 1]), o)
      BY <3>1, <3>2, ReturnFrames
    <3>4. Held(frames, globals)[o] \in Nat
      BY <1>2, HeldType
    <3>5. QED
      BY <3>3, <3>4 DEF f, c
  <2>7. Stack = f.stack
    BY DEF Stack, f
  <2>9. L[o] \in Int
    BY DEF Ledgers
  <2>12. Ledger[o] >= Occurrences(FrameObjects(f), o) + Occurrences(FrameObjects(c), o)
         /\ Ledger[o] \in Nat
    BY <2>5 DEF Ledger
  <2>13. /\ Occurrences(FrameObjects(f), o) = Occurrences(f.locals, o) + Occurrences(Stack, o)
         /\ Occurrences(FrameObjects(g), o) = Occurrences(c.locals, o) + Occurrences(cs, o)
    <3>1. Occurrences(f.args, o) = 0 /\ Occurrences(g.args, o) = 0
      BY <1>2, <1>5, <2>1
    <3>2. Occurrences(cs, o) \in Nat /\ Occurrences(Stack, o) \in Nat
      BY <1>5, <2>2, <2>4, <2>7
    <3>3. Occurrences(FrameObjects(f), o)
            = Occurrences(f.locals, o) + Occurrences(Stack, o) + Occurrences(f.args, o)
      BY <2>2, <2>7
    <3>4. Occurrences(FrameObjects(g), o)
            = Occurrences(c.locals, o) + Occurrences(cs, o) + Occurrences(g.args, o)
      BY <1>5, <2>4
    <3>5. QED
      BY <2>2, <2>3, <3>1, <3>2, <3>3, <3>4
  <2>14. QED
    BY <2>2, <2>3, <2>7, <2>9, <2>12, <2>13
<1>8. ASSUME NEW o \in Mortal
      PROVE  /\ L[o] - Occurrences(s, o) \in Nat
             /\ L[o] - Occurrences(s, o) - Occurrences(c.args, o) \in Nat
             /\ Ledger[o] - Occurrences(FrameObjects(f), o) - Occurrences(FrameObjects(c), o)
                   + Occurrences(FrameObjects(g), o)
                   <= L[o] - Occurrences(s, o) - Occurrences(c.args, o) + One(result = o)
  <2> DEFINE l == Ledger[o]
             k == L[o]
             ss == Occurrences(s, o)
             sk == Occurrences(stack, o)
             st == Occurrences(Stack, o)
             fl == Occurrences(f.locals, o)
             ff == Occurrences(FrameObjects(f), o)
             cc == Occurrences(FrameObjects(c), o)
             gg == Occurrences(FrameObjects(g), o)
             cl == Occurrences(c.locals, o)
             ck == Occurrences(c.stack, o)
             ca == Occurrences(c.args, o)
             cp == Occurrences(cs, o)
             one == One(result = o)
  <2>1. k >= l - st + sk
    OBVIOUS
  <2>2. /\ ss = sk + fl /\ cp = ck + one
        /\ sk \in Nat /\ fl \in Nat /\ ck \in Nat /\ cl \in Nat /\ ca \in Nat /\ one \in Nat
    BY <1>6
  <2>3. /\ ff = fl + st /\ cc = cl + ck + ca /\ gg = cl + cp
        /\ st \in Nat /\ l \in Nat /\ k \in Int /\ l >= ff + cc
    BY <1>7
  <2> HIDE DEF l, k, ss, sk, st, fl, ff, cc, gg, cl, ck, ca, cp, one
  <2>4. k - ss \in Nat /\ k - ss - ca \in Nat /\ l - ff - cc + gg <= k - ss - ca + one
    BY <2>1, <2>2, <2>3
  <2>5. QED
    BY <2>4 DEF l, k, ss, ff, cc, gg, ca, one
<1>9. K1 \in Ledgers /\ \A o \in Mortal : K1[o] = L[o] - Occurrences(s, o) /\ K1[o] >= 0
  <2>1. \A o \in Mortal : L[o] - Occurrences(s, o) \in Int /\ L[o] - Occurrences(s, o) >= 0
    BY <1>8
  <2>2. QED
    BY <2>1 DEF Ledgers
<1>10. K2 \in Ledgers /\ \A o \in Mortal : K2[o] = K1[o] - Occurrences(c.args, o) /\ K2[o] >= 0
  <2>1. \A o \in Mortal : K1[o] - Occurrences(c.args, o) \in Int
                          /\ K1[o] - Occurrences(c.args, o) >= 0
    BY <1>8
  <2>2. QED
    BY <2>1 DEF Ledgers
<1> HIDE DEF K1, K2
<1>11. Covers(m1, K1, Mode) /\ m1.used = m.used /\ Keeps(m, m1, Mode)
  <2>1. \A o \in Mortal : L[o] >= Occurrences(s, o)
    <3> SUFFICES ASSUME NEW o \in Mortal PROVE L[o] >= Occurrences(s, o)
      OBVIOUS
    <3>1. L[o] - Occurrences(s, o) \in Nat /\ L[o] \in Int /\ Occurrences(s, o) \in Nat
      <4>1. L[o] - Occurrences(s, o) \in Nat /\ L[o] \in Int
        BY <1>7, <1>8
      <4>2. Occurrences(s, o) \in Nat
        BY <1>4, SeqFinite, OccurrencesType
      <4>3. QED
        BY <4>1, <4>2
    <3>2. QED
      BY <3>1
  <2>2. \A o \in Mortal : K1[o] <= L[o] - Occurrences(s, o)
    <3> SUFFICES ASSUME NEW o \in Mortal PROVE K1[o] <= L[o] - Occurrences(s, o)
      OBVIOUS
    <3>1. K1[o] = L[o] - Occurrences(s, o) /\ K1[o] \in Int
      BY <1>9 DEF Ledgers
    <3>2. QED
      BY <3>1
  <2>3. \A o \in Mortal : K1[o] >= 0
    BY <1>9
  <2>4. K1 \in Ledgers
    BY <1>9
  <2>5. QED
    BY <1>4, <2>1, <2>2, <2>3, <2>4, ReleaseAll
<1> HIDE DEF m1
<1>12. Covers(m2, K2, Mode) /\ m2.used = m1.used /\ Keeps(m1, m2, Mode)
  <2>1. \A o \in Mortal : K1[o] >= Occurrences(c.args, o)
    <3> SUFFICES ASSUME NEW o \in Mortal PROVE K1[o] >= Occurrences(c.args, o)
      OBVIOUS
    <3>1. K2[o] = K1[o] - Occurrences(c.args, o) /\ K2[o] >= 0
      BY <1>10
    <3>2. K1[o] \in Int /\ Occurrences(c.args, o) \in Nat
      BY <1>6, <1>9 DEF Ledgers
    <3>3. QED
      BY <3>1, <3>2
  <2>2. \A o \in Mortal : K2[o] <= K1[o] - Occurrences(c.args, o)
    <3> SUFFICES ASSUME NEW o \in Mortal PROVE K2[o] <= K1[o] - Occurrences(c.args, o)
      OBVIOUS
    <3>1. K2[o] = K1[o] - Occurrences(c.args, o) /\ K2[o] \in Int
      BY <1>10 DEF Ledgers
    <3>2. QED
      BY <3>1
  <2>3. \A o \in Mortal : K2[o] >= 0
    BY <1>10
  <2>4. K1 \in Ledgers /\ K2 \in Ledgers
    BY <1>9, <1>10
  <2>5. QED
    BY <1>4, <1>11, <2>1, <2>2, <2>3, <2>4, ReleaseAll
<1> HIDE DEF m2
<1>13. Usable(m2, result, Mode)
  BY <1>11, <1>12 DEF Keeps
<1>14. /\ Plus(K2, result) \in Ledgers /\ Covers(m3, Plus(K2, result), Mode)
       /\ m3.used = m2.used
  BY <1>10, <1>12, <1>13, Counts
<1> HIDE DEF m3
<1>15. m.used = m3.used /\ mem.used \subseteq m3.used
  BY <1>11, <1>12, <1>14
<1>16. FrameKnown(mem, c) /\ n > 1
  <2> DEFINE j == n - 1
  <2>1. n \in Nat /\ DOMAIN frames = 1 .. n
    BY <1>2
  <2>2. j \in DOMAIN frames
    BY <1>1, <2>1
  <2> HIDE DEF j
  <2>3. FrameKnown(mem, frames[j])
    BY <2>2 DEF Shape, MachineOK
  <2>4. QED
    BY <1>1, <2>3 DEF c, j
<1>17. FrameKnown(m3, g)
  <2>1. KnownSeq(mem, c.locals) /\ KnownSeq(mem, c.stack)
    BY <1>16 DEF FrameKnown
  <2>2. KnownSeq(m3, c.locals) /\ KnownSeq(m3, c.stack)
    BY <1>15, <2>1, KnownMore
  <2>3. result \in m3.used \cup Immortal
    BY <1>12, <1>13, <1>14 DEF Usable
  <2>4. KnownSeq(m3, cs)
    <3>1. \A i \in DOMAIN cs : cs[i] = result \/ (i \in DOMAIN c.stack /\ cs[i] = c.stack[i])
      BY <1>4 DEF cs
    <3>2. QED
      BY <2>2, <2>3, <3>1 DEF KnownSeq
  <2>5. KnownSeq(m3, <<>>)
    BY DEF KnownSeq
  <2>6. QED
    BY <1>5, <2>2, <2>4, <2>5 DEF FrameKnown
<1>18. fs = Append(SubSeq(frames, 1, n - 2), g)
  OBVIOUS
<1> HIDE DEF fs
<1>19. /\ FramesOK(fs)
       /\ \A k \in DOMAIN fs : FrameKnown(m3, fs[k])
       /\ \A o \in Mortal :
             Held(fs, globals)[o] = Held(frames, globals)[o]
                                    - Occurrences(FrameObjects(Frame), o)
                                    - Occurrences(FrameObjects(frames[Len(frames) - 1]), o)
                                    + Occurrences(FrameObjects(g), o)
  BY <1>5, <1>15, <1>16, <1>17, <1>18, ReturnFrames
<1>20. MachineOK(m3, fs, globals)
  <2>1. KnownSeq(mem, globals)
    BY DEF Shape, MachineOK
  <2>2. KnownSeq(m3, globals)
    BY <1>15, <2>1, KnownMore
  <2>3. QED
    BY <1>2, <1>14, <1>19, <2>2 DEF MachineOK, Covers
<1>21. ASSUME NEW o \in Mortal PROVE Held(fs, globals)[o] <= Plus(K2, result)[o]
  <2>1. Held(fs, globals)[o] = Ledger[o] - Occurrences(FrameObjects(f), o)
                                         - Occurrences(FrameObjects(c), o)
                                         + Occurrences(FrameObjects(g), o)
    BY <1>19 DEF Ledger, f, c
  <2>2. Plus(K2, result)[o] = L[o] - Occurrences(s, o) - Occurrences(c.args, o) + One(result = o)
    <3>1. Plus(K2, result)[o] = K2[o] + One(result = o)
      BY <1>10, PlusMinus
    <3>2. K2[o] = K1[o] - Occurrences(c.args, o) /\ K1[o] = L[o] - Occurrences(s, o)
      BY <1>9, <1>10
    <3>3. QED
      BY <3>1, <3>2
  <2>3. QED
    BY <1>8, <2>1, <2>2
<1>22. QED
  BY <1>1, <1>3, <1>14, <1>20, <1>21, Closing

(* The end of the code of an activation: it returns none. *)
LEMMA ReturnNoneKept ==
    ASSUME Shape, ReturnNone
    PROVE  Kept
<1>1. FinishReturn(mem, Stack, NoneObject)
  BY DEF ReturnNone
<1>2. globals' = globals
  BY <1>1 DEF FinishReturn
<1>3. /\ NoneObject \in Object /\ Usable(mem, NoneObject, Mode)
  BY MemoryAssumption DEF Usable
<1>4. Stack \in Seq(Object) /\ KnownSeq(mem, Stack)
  <2>1. frames[Len(frames)] \in FrameType /\ FrameKnown(mem, frames[Len(frames)])
    BY Opening DEF Shape, MachineOK
  <2>2. QED
    BY <2>1 DEF FrameType, FrameKnown, Stack, Frame
<1>5. Ledger \in Ledgers /\ Covers(mem, Ledger, Mode)
  BY Opening DEF Ledger
<1>6. \A o \in Mortal : Ledger[o] >= Ledger[o] - Occurrences(Stack, o) + Occurrences(Stack, o)
  <2> SUFFICES ASSUME NEW o \in Mortal
               PROVE  Ledger[o] >= Ledger[o] - Occurrences(Stack, o) + Occurrences(Stack, o)
    OBVIOUS
  <2>1. Ledger[o] \in Int /\ Occurrences(Stack, o) \in Nat
    BY <1>4, <1>5, SeqFinite, OccurrencesType DEF Ledgers
  <2>2. QED
    BY <2>1
<1>7. QED
  BY <1>1, <1>2, <1>3, <1>4, <1>5, <1>6, FinishReturnKept

(* RETURN_VALUE counts its operand three times, and the caller has it only  *)
(* once more than the running activation had.                               *)
LEMMA ReturnValueKept ==
    ASSUME Shape, ReturnValue
    PROVE  Kept
<1> DEFINE x == Peek(0)
           m1 == Incref(mem, x)
           m2 == Incref(m1, x)
           m3 == Incref(m2, x)
           L1 == Plus(Ledger, x)
           L2 == Plus(L1, x)
           L3 == Plus(L2, x)
           r == Rest(1)
<1>1. Has(1) /\ FinishReturn(m3, r, x)
  BY DEF ReturnValue
<1>2. globals' = globals
  BY <1>1 DEF FinishReturn
<1>3. x \in Object /\ Usable(mem, x, Mode)
  <2>1. Has(0 + 1)
    BY <1>1
  <2>2. Referred(Peek(0))
    BY <2>1, OperandReferred
  <2>3. QED
    BY <2>2 DEF Referred
<1>4. Ledger \in Ledgers /\ Covers(mem, Ledger, Mode)
  BY Opening DEF Ledger
<1>5. r \in Seq(Object) /\ KnownSeq(mem, r)
  <2>1. 1 \in Nat
    OBVIOUS
  <2>2. QED
    BY <1>1, <2>1, Operand
<1>6. \A o \in Mortal : Ledger[o] - Occurrences(Stack, o) + Occurrences(r, o) <= Ledger[o]
  <2> SUFFICES ASSUME NEW o \in Mortal
               PROVE  Ledger[o] - Occurrences(Stack, o) + Occurrences(r, o) <= Ledger[o]
    OBVIOUS
  <2>1. /\ Popped(1)[o] = Ledger[o] - Occurrences(Args(1), o)
        /\ Popped(1)[o] = Ledger[o] - Occurrences(Stack, o) + Occurrences(r, o)
        /\ Ledger[o] \in Nat /\ Occurrences(Args(1), o) \in Nat
    BY <1>1, PoppedLedger
  <2>2. Ledger[o] - Occurrences(Args(1), o) <= Ledger[o]
    BY <2>1
  <2>3. QED
    BY <2>1, <2>2
<1> HIDE DEF x, r
<1>7. L1 \in Ledgers /\ Covers(m1, L1, Mode) /\ m1.used = mem.used /\ Keeps(mem, m1, Mode)
  BY <1>3, <1>4, Counts
<1>8. Usable(m1, x, Mode)
  BY <1>3, <1>7 DEF Keeps
<1> HIDE DEF L1, m1
<1>9. L2 \in Ledgers /\ Covers(m2, L2, Mode) /\ m2.used = m1.used /\ Keeps(m1, m2, Mode)
  BY <1>3, <1>7, <1>8, Counts
<1>10. Usable(m2, x, Mode)
  BY <1>3, <1>8, <1>9 DEF Keeps
<1> HIDE DEF L2, m2
<1>11. L3 \in Ledgers /\ Covers(m3, L3, Mode) /\ m3.used = m2.used /\ Keeps(m2, m3, Mode)
  BY <1>3, <1>9, <1>10, Counts
<1>12. Usable(m3, x, Mode)
  BY <1>3, <1>10, <1>11 DEF Keeps
<1> HIDE DEF L3, m3
<1>13. KnownSeq(m3, r) /\ mem.used \subseteq m3.used
  <2>1. mem.used \subseteq m3.used
    BY <1>7, <1>9, <1>11
  <2>2. QED
    BY <1>5, <2>1, KnownMore
<1>14. \A o \in Mortal : L3[o] >= Ledger[o] - Occurrences(Stack, o) + Occurrences(r, o)
  <2> SUFFICES ASSUME NEW o \in Mortal
               PROVE  L3[o] >= Ledger[o] - Occurrences(Stack, o) + Occurrences(r, o)
    OBVIOUS
  <2>1. L1[o] = Ledger[o] + One(x = o) /\ Ledger[o] \in Int /\ One(x = o) \in Nat
    BY <1>4, PlusMinus DEF L1
  <2>2. L2[o] = L1[o] + One(x = o)
    BY <1>7, PlusMinus DEF L2
  <2>3. L3[o] = L2[o] + One(x = o)
    BY <1>9, PlusMinus DEF L3
  <2> DEFINE a == Ledger[o] - Occurrences(Stack, o) + Occurrences(r, o)
  <2>4. a <= Ledger[o]
    BY <1>6
  <2>5. a \in Int
    <3>1. Occurrences(Stack, o) \in Nat /\ Occurrences(r, o) \in Nat
      BY <1>1, PoppedLedger DEF r
    <3>2. QED
      BY <2>1, <3>1
  <2> HIDE DEF a
  <2>6. L3[o] >= a
    BY <2>1, <2>2, <2>3, <2>4, <2>5
  <2>7. QED
    BY <2>6 DEF a
<1>15. FinishReturn(m3, r, x)
  BY <1>1 DEF m3, m2, m1, r, x
<1>16. QED
  BY <1>2, <1>3, <1>5, <1>11, <1>12, <1>13, <1>14, <1>15, FinishReturnKept

-----------------------------------------------------------------------------
(* Collections.                                                            *)

(* The recursive function of FlattenSeq, up to n. *)
Chain(q, n, f) == f = [i \in 1 .. n |-> IF i = 1 THEN q[i] ELSE f[i - 1] \o q[i]]

(* There is such a function for every sequence of sequences. *)
LEMMA ChainExists ==
    ASSUME NEW S, NEW q \in Seq(Seq(S)), NEW n \in 1 .. Len(q)
    PROVE  \E f : Chain(q, n, f)
<1> DEFINE Bad == {i \in Nat : i \in 1 .. Len(q) /\ ~ \E f : Chain(q, i, f)}
<1> SUFFICES ASSUME Bad # {} PROVE FALSE
  OBVIOUS
<1>1. PICK k \in Bad : \A j \in Bad : k <= j
  <2>1. Bad \in SUBSET Nat
    OBVIOUS
  <2> HIDE DEF Bad
  <2>2. QED
    BY <2>1, LeastNat
<1>2. CASE k = 1
  <2> DEFINE f == [i \in 1 .. 1 |-> q[i]]
  <2>1. f = [i \in 1 .. 1 |-> IF i = 1 THEN q[i] ELSE f[i - 1] \o q[i]]
    <3>1. \A i \in 1 .. 1 : i = 1
      OBVIOUS
    <3>2. QED
      BY <3>1
  <2>2. Chain(q, 1, f)
    BY <2>1 DEF Chain
  <2>3. QED
    BY <1>2, <2>2
<1>3. CASE k # 1
  <2>1. k \in Nat /\ k - 1 \in 1 .. Len(q) /\ k - 1 \in Nat /\ ~ k <= k - 1
    BY <1>3
  <2>2. k - 1 \notin Bad
    BY <1>1, <2>1
  <2>3. PICK f : Chain(q, k - 1, f)
    BY <2>1, <2>2
  <2> DEFINE Next1(h, i) == IF i = 1 THEN q[i] ELSE h[i - 1] \o q[i]
             g == [i \in 1 .. k |-> IF i = k THEN f[k - 1] \o q[k] ELSE f[i]]
  <2>4. \A i \in 1 .. k - 1 : f[i] = Next1(f, i)
    BY <2>3 DEF Chain
  <2>5. \A i \in 1 .. k - 1 : i \in 1 .. k /\ i # k
    BY <2>1
  <2>6. \A i \in 1 .. k - 1 : g[i] = f[i]
    BY <2>5
  <2>7. g[k] = f[k - 1] \o q[k]
    <3>1. k \in 1 .. k
      OBVIOUS
    <3>2. QED
      BY <3>1
  <2>8. g = [i \in 1 .. k |-> g[i]]
    OBVIOUS
  <2> HIDE DEF g
  <2>9. \A i \in 1 .. k : g[i] = Next1(g, i)
    <3> SUFFICES ASSUME NEW i \in 1 .. k PROVE g[i] = Next1(g, i)
      OBVIOUS
    <3>1. CASE i = k
      <4>1. g[k - 1] = f[k - 1]
        BY <2>1, <2>6
      <4>2. QED
        BY <1>3, <2>7, <3>1, <4>1
    <3>2. CASE i = 1
      <4>1. 1 \in 1 .. k - 1
        BY <2>1
      <4>2. g[1] = f[1] /\ f[1] = q[1]
        BY <2>4, <2>6, <4>1
      <4>3. QED
        BY <3>2, <4>2
    <3>3. CASE i # k /\ i # 1
      <4>1. i \in 1 .. k - 1 /\ i - 1 \in 1 .. k - 1
        BY <2>1, <3>3
      <4>2. g[i] = f[i] /\ g[i - 1] = f[i - 1]
        BY <2>6, <4>1
      <4>3. f[i] = f[i - 1] \o q[i]
        BY <2>4, <3>3, <4>1
      <4>4. QED
        BY <3>3, <4>2, <4>3
    <3>4. QED
      BY <3>1, <3>2, <3>3
  <2>10. g = [i \in 1 .. k |-> Next1(g, i)]
    BY <2>8, <2>9
  <2>11. Chain(q, k, g)
    BY <2>10 DEF Chain
  <2>12. QED
    BY <2>11
<1>4. QED
  BY <1>2, <1>3

(* FlattenSeq has the elements of all the sequences, and no others. *)
LEMMA FlattenElements ==
    ASSUME NEW S, NEW q \in Seq(Seq(S))
    PROVE  /\ FlattenSeq(q) \in Seq(S)
           /\ \A k \in DOMAIN q : \A i \in DOMAIN q[k] :
                 \E j \in DOMAIN FlattenSeq(q) : FlattenSeq(q)[j] = q[k][i]
           /\ \A j \in DOMAIN FlattenSeq(q) :
                 \E k \in DOMAIN q : \E i \in DOMAIN q[k] : FlattenSeq(q)[j] = q[k][i]
<1> DEFINE n == Len(q)
<1>1. CASE n = 0
  <2> DEFINE r == FlattenSeq(q)
  <2>1. q = <<>> /\ r = q
    BY <1>1 DEF FlattenSeq
  <2> HIDE DEF r
  <2>2. DOMAIN q = {} /\ r \in Seq(S) /\ DOMAIN r = {}
    BY <2>1
  <2>3. QED
    BY <2>2 DEF r
<1>2. CASE n # 0
  <2> DEFINE f == CHOOSE h : h = [i \in 1 .. n |-> IF i = 1 THEN q[i] ELSE h[i - 1] \o q[i]]
             All(i) == /\ f[i] \in Seq(S)
                       /\ \A k \in 1 .. i : \A p \in DOMAIN q[k] :
                             \E j \in DOMAIN f[i] : f[i][j] = q[k][p]
                       /\ \A j \in DOMAIN f[i] :
                             \E k \in 1 .. i : \E p \in DOMAIN q[k] : f[i][j] = q[k][p]
             Bad == {i \in Nat : i \in 1 .. n /\ ~ All(i)}
  <2>1. FlattenSeq(q) = f[n]
    BY <1>2 DEF FlattenSeq
  <2>2. n \in 1 .. n /\ DOMAIN q = 1 .. n /\ n \in Nat
    BY <1>2
  <2>3. f = [i \in 1 .. n |-> IF i = 1 THEN q[i] ELSE f[i - 1] \o q[i]]
    <3>1. \E h : h = [i \in 1 .. n |-> IF i = 1 THEN q[i] ELSE h[i - 1] \o q[i]]
      BY <2>2, ChainExists DEF Chain
    <3>2. QED
      BY <3>1
  <2> HIDE DEF f
  <2>4. \A i \in 1 .. n : f[i] = IF i = 1 THEN q[i] ELSE f[i - 1] \o q[i]
    BY <2>3
  <2>5. \A i \in 1 .. n : q[i] \in Seq(S)
    BY <2>2
  <2> HIDE DEF n
  <2>6. Bad = {}
    <3> SUFFICES ASSUME Bad # {} PROVE FALSE
      OBVIOUS
    <3>1. PICK k \in Bad : \A j \in Bad : k <= j
      <4>1. Bad \in SUBSET Nat
        OBVIOUS
      <4> HIDE DEF Bad
      <4>2. QED
        BY <4>1, LeastNat
    <3>2. k \in Nat /\ k \in 1 .. n /\ ~ All(k)
      OBVIOUS
    <3>3. CASE k = 1
      <4>1. f[1] = q[1] /\ q[1] \in Seq(S) /\ \A j \in 1 .. 1 : j = 1
        BY <2>4, <2>5, <3>2, <3>3
      <4>2. All(1)
        BY <4>1
      <4>3. QED
        BY <3>2, <3>3, <4>2
    <3>4. CASE k # 1
      <4>1. k - 1 \in 1 .. n /\ k - 1 \in Nat /\ ~ k <= k - 1
        BY <2>2, <3>2, <3>4
      <4>2. All(k - 1)
        BY <3>1, <4>1
      <4> DEFINE a == f[k - 1]
                 b == q[k]
                 c == a \o b
      <4>3. f[k] = c
        BY <2>4, <3>2, <3>4
      <4>4. /\ a \in Seq(S) /\ b \in Seq(S)
        BY <2>5, <3>2, <4>2
      <4>5. /\ \A l \in 1 .. k - 1 : \A p \in DOMAIN q[l] : \E j \in DOMAIN a : a[j] = q[l][p]
            /\ \A j \in DOMAIN a : \E l \in 1 .. k - 1 : \E p \in DOMAIN q[l] : a[j] = q[l][p]
        BY <4>2
      <4>6. /\ c \in Seq(S)
            /\ \A j \in DOMAIN a : j \in DOMAIN c /\ c[j] = a[j]
            /\ \A j \in DOMAIN b : j + Len(a) \in DOMAIN c /\ c[j + Len(a)] = b[j]
            /\ \A j \in DOMAIN c : (j \in DOMAIN a /\ c[j] = a[j])
                                   \/ (j - Len(a) \in DOMAIN b /\ c[j] = b[j - Len(a)])
        <5> HIDE DEF a, b
        <5>1. QED
          BY <4>4
      <4> HIDE DEF a, c
      <4>7. \A l \in 1 .. k : l \in 1 .. k - 1 \/ l = k
        BY <3>2
      <4>8. k \in 1 .. k /\ \A l \in 1 .. k - 1 : l \in 1 .. k
        BY <3>2
      <4>9. ASSUME NEW l \in 1 .. k, NEW p \in DOMAIN q[l]
            PROVE  \E j \in DOMAIN c : c[j] = q[l][p]
        <5>1. CASE l = k
          BY <4>6, <5>1
        <5>2. CASE l \in 1 .. k - 1
          <6>1. PICK j \in DOMAIN a : a[j] = q[l][p]
            BY <4>5, <5>2
          <6>2. QED
            BY <4>6, <6>1
        <5>3. QED
          BY <4>7, <5>1, <5>2
      <4>10. ASSUME NEW j \in DOMAIN c
             PROVE  \E l \in 1 .. k : \E p \in DOMAIN q[l] : c[j] = q[l][p]
        <5>1. CASE j \in DOMAIN a /\ c[j] = a[j]
          <6>1. PICK l \in 1 .. k - 1 : \E p \in DOMAIN q[l] : a[j] = q[l][p]
            BY <4>5, <5>1
          <6>2. QED
            BY <4>8, <5>1, <6>1
        <5>2. CASE j - Len(a) \in DOMAIN b /\ c[j] = b[j - Len(a)]
          BY <4>8, <5>2
        <5>3. QED
          BY <4>6, <5>1, <5>2
      <4>11. All(k)
        BY <4>3, <4>6, <4>9, <4>10
      <4>12. QED
        BY <3>2, <4>11
    <3>5. QED
      BY <3>3, <3>4
  <2>7. All(n)
    BY <2>2, <2>6
  <2> DEFINE r == FlattenSeq(q)
             g == f[n]
  <2>8. r = g /\ DOMAIN q = 1 .. n
    BY <2>1, <2>2
  <2>9. /\ g \in Seq(S)
        /\ \A k \in 1 .. n : \A p \in DOMAIN q[k] :
              \E j \in DOMAIN g : g[j] = q[k][p]
        /\ \A j \in DOMAIN g :
              \E k \in 1 .. n : \E p \in DOMAIN q[k] : g[j] = q[k][p]
    BY <2>7
  <2> HIDE DEF r, g
  <2>10. /\ r \in Seq(S)
         /\ \A k \in DOMAIN q : \A p \in DOMAIN q[k] : \E j \in DOMAIN r : r[j] = q[k][p]
         /\ \A j \in DOMAIN r : \E k \in DOMAIN q : \E p \in DOMAIN q[k] : r[j] = q[k][p]
    <3>1. r \in Seq(S)
      BY <2>8, <2>9
    <3>2. ASSUME NEW k \in DOMAIN q, NEW p \in DOMAIN q[k]
          PROVE  \E j \in DOMAIN r : r[j] = q[k][p]
      <4>1. k \in 1 .. n
        BY <2>8
      <4>2. PICK j \in DOMAIN g : g[j] = q[k][p]
        BY <2>9, <4>1
      <4>3. QED
        BY <2>8, <4>2
    <3>3. ASSUME NEW j \in DOMAIN r
          PROVE  \E k \in DOMAIN q : \E p \in DOMAIN q[k] : r[j] = q[k][p]
      <4>1. j \in DOMAIN g
        BY <2>8
      <4>2. PICK k \in 1 .. n : \E p \in DOMAIN q[k] : g[j] = q[k][p]
        BY <2>9, <4>1
      <4>3. k \in DOMAIN q /\ \E p \in DOMAIN q[k] : r[j] = q[k][p]
        BY <2>8, <4>2
      <4>4. QED
        BY <4>3
    <3>4. QED
      BY <3>1, <3>2, <3>3
  <2>11. QED
    BY <2>10, Zenon DEF r
<1>3. QED
  BY <1>1, <1>2

(* vm_collect_roots puts every root into its buffer. *)
RootsFit == Len(AllRoots) <= RootsCapacity

(* A global, a local or an operand is o. *)
Rooted(o) ==
    \/ \E g \in Globals : globals[g] = o
    \/ \E k \in DOMAIN frames : \/ \E i \in DOMAIN frames[k].locals : frames[k].locals[i] = o
                                \/ \E i \in DOMAIN frames[k].stack : frames[k].stack[i] = o

(* The elements of two sequences in a row. *)
LEMMA ConcatElements ==
    ASSUME NEW S, NEW s \in Seq(S), NEW t \in Seq(S)
    PROVE  /\ s \o t \in Seq(S)
           /\ \A i \in DOMAIN s : i \in DOMAIN (s \o t) /\ (s \o t)[i] = s[i]
           /\ \A i \in DOMAIN t : i + Len(s) \in DOMAIN (s \o t) /\ (s \o t)[i + Len(s)] = t[i]
           /\ \A j \in DOMAIN (s \o t) : \/ \E i \in DOMAIN s : (s \o t)[j] = s[i]
                                         \/ \E i \in DOMAIN t : (s \o t)[j] = t[i]
<1> DEFINE c == s \o t
<1>1. /\ c \in Seq(S)
      /\ \A i \in DOMAIN s : i \in DOMAIN c /\ c[i] = s[i]
      /\ \A i \in DOMAIN t : i + Len(s) \in DOMAIN c /\ c[i + Len(s)] = t[i]
      /\ \A j \in DOMAIN c : (j \in DOMAIN s /\ c[j] = s[j])
                             \/ (j - Len(s) \in DOMAIN t /\ c[j] = t[j - Len(s)])
  OBVIOUS
<1> HIDE DEF c
<1>2. \A j \in DOMAIN c : \/ \E i \in DOMAIN s : c[j] = s[i]
                          \/ \E i \in DOMAIN t : c[j] = t[i]
  BY <1>1
<1>3. QED
  BY <1>1, <1>2 DEF c

(* All the roots are globals, locals, operands or none. *)
LEMMA RootElements ==
    ASSUME Shape
    PROVE  /\ AllRoots \in Seq(Object)
           /\ \A o : Rooted(o) => \E j \in DOMAIN AllRoots : AllRoots[j] = o
           /\ \A j \in DOMAIN AllRoots : AllRoots[j] = NoneObject \/ Rooted(AllRoots[j])
<1> DEFINE q == [k \in DOMAIN frames |-> frames[k].locals \o frames[k].stack]
           nones == <<NoneObject, NoneObject, NoneObject>>
           r == FlattenSeq(q)
           gn == globals \o nones
           all == gn \o r
<1>1. /\ frames \in Seq(FrameType) /\ globals \in [Globals -> Object]
  BY Opening
<1>2. globals \in Seq(Object) /\ DOMAIN globals = Globals
  BY <1>1, VMAssumption DEF Globals
<1>3. nones \in Seq(Object) /\ \A i \in DOMAIN nones : nones[i] = NoneObject
  BY MemoryAssumption
<1>4. ASSUME NEW k \in DOMAIN frames
      PROVE  /\ frames[k].locals \in Seq(Object) /\ frames[k].stack \in Seq(Object)
             /\ frames[k].locals \o frames[k].stack \in Seq(Object)
             /\ \A o : (\/ \E i \in DOMAIN frames[k].locals : frames[k].locals[i] = o
                       \/ \E i \in DOMAIN frames[k].stack : frames[k].stack[i] = o)
                      <=> \E i \in DOMAIN (frames[k].locals \o frames[k].stack) :
                             (frames[k].locals \o frames[k].stack)[i] = o
  <2>1. frames[k] \in FrameType
    BY <1>1
  <2>2. frames[k].locals \in Seq(Object) /\ frames[k].stack \in Seq(Object)
    BY <2>1 DEF FrameType
  <2> DEFINE l == frames[k].locals
             s == frames[k].stack
             c == l \o s
  <2> HIDE DEF l, s
  <2>3. l \in Seq(Object) /\ s \in Seq(Object)
    BY <2>2 DEF l, s
  <2>4. /\ c \in Seq(Object)
        /\ \A i \in DOMAIN l : i \in DOMAIN c /\ c[i] = l[i]
        /\ \A i \in DOMAIN s : i + Len(l) \in DOMAIN c /\ c[i + Len(l)] = s[i]
        /\ \A j \in DOMAIN c : \/ \E i \in DOMAIN l : c[j] = l[i]
                               \/ \E i \in DOMAIN s : c[j] = s[i]
    BY <2>3, ConcatElements, SMTT(30)
  <2> HIDE DEF c
  <2>5. \A o : ((\E i \in DOMAIN l : l[i] = o) \/ (\E i \in DOMAIN s : s[i] = o))
               <=> \E i \in DOMAIN c : c[i] = o
    BY <2>4
  <2>6. QED
    BY <2>2, <2>4, <2>5 DEF c, l, s
<1>5. /\ q \in Seq(Seq(Object)) /\ DOMAIN q = DOMAIN frames
      /\ \A k \in DOMAIN frames : q[k] = frames[k].locals \o frames[k].stack
  <2> DEFINE F(k) == frames[k].locals \o frames[k].stack
  <2>1. DOMAIN frames = 1 .. Len(frames) /\ Len(frames) \in Nat
    BY <1>1
  <2>2. \A k \in DOMAIN frames : F(k) \in Seq(Object)
    BY <1>4
  <2> HIDE DEF F
  <2>3. [k \in DOMAIN frames |-> F(k)] \in Seq(Seq(Object))
    BY <2>1, <2>2
  <2>4. QED
    BY <2>3 DEF F
<1>6. AllRoots = all
  BY DEF AllRoots
<1> HIDE DEF q, nones
<1>7. /\ r \in Seq(Object)
      /\ \A k \in DOMAIN q : \A i \in DOMAIN q[k] : \E j \in DOMAIN r : r[j] = q[k][i]
      /\ \A j \in DOMAIN r : \E k \in DOMAIN q : \E i \in DOMAIN q[k] : r[j] = q[k][i]
  BY <1>5, FlattenElements
<1> HIDE DEF r
<1>8. /\ gn \in Seq(Object)
      /\ \A i \in DOMAIN globals : i \in DOMAIN gn /\ gn[i] = globals[i]
      /\ \A j \in DOMAIN gn : \/ \E i \in DOMAIN globals : gn[j] = globals[i]
                              \/ \E i \in DOMAIN nones : gn[j] = nones[i]
  BY <1>2, <1>3, ConcatElements
<1> HIDE DEF gn
<1>9. /\ all \in Seq(Object)
      /\ \A i \in DOMAIN gn : i \in DOMAIN all /\ all[i] = gn[i]
      /\ \A i \in DOMAIN r : i + Len(gn) \in DOMAIN all /\ all[i + Len(gn)] = r[i]
      /\ \A j \in DOMAIN all : \/ \E i \in DOMAIN gn : all[j] = gn[i]
                               \/ \E i \in DOMAIN r : all[j] = r[i]
  <2>1. gn \in Seq(Object) /\ r \in Seq(Object)
    BY <1>7, <1>8
  <2>2. QED
    BY <2>1, ConcatElements
<1> HIDE DEF all
<1>10. ASSUME NEW k \in DOMAIN frames, NEW o,
              \/ \E i \in DOMAIN frames[k].locals : frames[k].locals[i] = o
              \/ \E i \in DOMAIN frames[k].stack : frames[k].stack[i] = o
       PROVE  \E i \in DOMAIN q[k] : q[k][i] = o
  <2> DEFINE c == frames[k].locals \o frames[k].stack
  <2>1. \E i \in DOMAIN c : c[i] = o
    BY <1>4, <1>10
  <2>2. q[k] = c
    BY <1>5
  <2> HIDE DEF c
  <2>3. QED
    BY <2>1, <2>2
<1>11. ASSUME NEW o, Rooted(o) PROVE \E j \in DOMAIN all : all[j] = o
  <2>1. CASE \E g \in Globals : globals[g] = o
    <3>1. PICK g \in Globals : globals[g] = o
      BY <2>1
    <3>2. g \in DOMAIN gn /\ gn[g] = o
      BY <1>2, <1>8, <3>1
    <3>3. QED
      BY <1>9, <3>2
  <2>2. ASSUME NEW k \in DOMAIN frames,
               \/ \E i \in DOMAIN frames[k].locals : frames[k].locals[i] = o
               \/ \E i \in DOMAIN frames[k].stack : frames[k].stack[i] = o
        PROVE  \E j \in DOMAIN all : all[j] = o
    <3>1. PICK i \in DOMAIN q[k] : q[k][i] = o
      BY <1>10, <2>2
    <3>2. PICK j \in DOMAIN r : r[j] = o
      BY <1>5, <1>7, <3>1
    <3>3. QED
      BY <1>9, <3>2
  <2>3. QED
    BY <1>11, <2>1, <2>2 DEF Rooted
<1>12. ASSUME NEW j \in DOMAIN all PROVE all[j] = NoneObject \/ Rooted(all[j])
  <2>1. ASSUME NEW i \in DOMAIN gn, all[j] = gn[i] PROVE all[j] = NoneObject \/ Rooted(all[j])
    BY <1>2, <1>3, <1>8, <2>1 DEF Rooted
  <2>2. ASSUME NEW i \in DOMAIN r, all[j] = r[i] PROVE Rooted(all[j])
    <3>1. PICK k \in DOMAIN q : \E p \in DOMAIN q[k] : r[i] = q[k][p]
      BY <1>7
    <3>2. PICK p \in DOMAIN q[k] : r[i] = q[k][p]
      BY <3>1
    <3>3. k \in DOMAIN frames
      BY <1>5
    <3>4. \/ \E x \in DOMAIN frames[k].locals : frames[k].locals[x] = q[k][p]
          \/ \E x \in DOMAIN frames[k].stack : frames[k].stack[x] = q[k][p]
      BY <1>4, <1>5, <3>3
    <3>5. QED
      BY <2>2, <3>2, <3>3, <3>4 DEF Rooted
  <2>3. QED
    BY <1>9, <2>1, <2>2
<1>13. QED
  BY <1>6, <1>9, <1>11, <1>12

(* The roots of a collection are objects, and all of them if they fit. *)
LEMMA RootsRange ==
    ASSUME Shape
    PROVE  /\ Range(Roots) \in SUBSET Object
           /\ RootsFit => \A o : Rooted(o) => o \in Range(Roots)
<1> DEFINE all == AllRoots
           c == RootsCapacity
<1>1. /\ all \in Seq(Object) /\ c \in Nat
      /\ \A o : Rooted(o) => \E j \in DOMAIN all : all[j] = o
  BY RootElements, VMAssumption
<1>2. Roots = SubSeq(all, 1, IF Len(all) < c THEN Len(all) ELSE c)
  BY DEF Roots
<1>3. RootsFit <=> Len(all) <= c
  BY DEF RootsFit
<1> HIDE DEF all, c
<1>4. Roots \in Seq(Object) /\ (RootsFit => Roots = all)
  <2>1. CASE Len(all) < c
    <3>1. SubSeq(all, 1, Len(all)) = all
      BY <1>1
    <3>2. QED
      BY <1>1, <1>2, <2>1, <3>1
  <2>2. CASE ~ Len(all) < c
    <3>1. SubSeq(all, 1, c) \in Seq(Object)
      BY <1>1, <2>2
    <3>2. RootsFit => c = Len(all)
      BY <1>1, <1>3, <2>2
    <3>3. SubSeq(all, 1, Len(all)) = all
      BY <1>1
    <3>4. QED
      BY <1>2, <2>2, <3>1, <3>2, <3>3
  <2>3. QED
    BY <2>1, <2>2
<1>5. Range(Roots) \in SUBSET Object
  BY <1>4 DEF Range
<1>6. ASSUME RootsFit, NEW o, Rooted(o) PROVE o \in Range(Roots)
  BY <1>1, <1>4, <1>6 DEF Range
<1>7. QED
  BY <1>5, <1>6

(* What the machine holds is a root or an argument of a pending call. *)
LEMMA HeldSource ==
    ASSUME Shape, NEW o \in Mortal, Ledger[o] # 0
    PROVE  Rooted(o) \/ o \in PendingArgs
<1>1. frames \in Seq(FrameType) /\ globals \in [Globals -> Object]
  BY Opening
<1>2. /\ Ledger[o] = Occurrences(globals, o) + Count(Objects(frames), o)
      /\ Occurrences(globals, o) \in Nat /\ Count(Objects(frames), o) \in Nat
  BY <1>1, HeldType DEF Ledger
<1>3. CASE Occurrences(globals, o) # 0
  <2>1. IsFiniteSet(DOMAIN globals) /\ DOMAIN globals = Globals
    <3>1. DOMAIN globals = 1 .. GlobalCount /\ GlobalCount \in Nat
      BY <1>1, VMAssumption DEF Globals
    <3>2. QED
      BY <3>1, FS_Interval DEF Globals
  <2>2. \E g \in Globals : globals[g] = o
    BY <1>3, <2>1, OccurrencesZero
  <2>3. QED
    BY <2>2 DEF Rooted
<1>4. CASE Count(Objects(frames), o) # 0
  <2>1. /\ Finite(Objects(frames)) /\ DOMAIN Objects(frames) = DOMAIN frames
        /\ \A k \in DOMAIN frames : /\ Objects(frames)[k] = FrameObjects(frames[k])
                                    /\ frames[k] \in FrameType
    BY <1>1, ObjectsFinite
  <2>2. PICK k \in DOMAIN frames : \E i \in DOMAIN Objects(frames)[k] : Objects(frames)[k][i] = o
    BY <1>4, <2>1, CountZero
  <2> DEFINE f == frames[k]
             s == FrameObjects(f)
  <2>3. f \in FrameType /\ \E i \in DOMAIN s : s[i] = o
    <3>1. Objects(frames)[k] = s /\ f \in FrameType
      BY <2>1
    <3> HIDE DEF s
    <3>2. QED
      BY <2>2, <3>1
  <2> HIDE DEF f
  <2>4. /\ s \in Seq(Object)
        /\ Occurrences(s, o) = Occurrences(f.locals, o) + Occurrences(f.stack, o)
                               + Occurrences(f.args, o)
    BY <2>3, FrameCount
  <2> HIDE DEF s
  <2>5. Occurrences(s, o) # 0
    <3>1. IsFiniteSet(DOMAIN s)
      BY <2>4, SeqFinite
    <3>2. QED
      BY <2>3, <3>1, OccurrencesZero
  <2>6. /\ IsFiniteSet(DOMAIN f.locals) /\ IsFiniteSet(DOMAIN f.stack)
        /\ IsFiniteSet(DOMAIN f.args)
    <3>1. f.locals \in Seq(Object) /\ f.stack \in Seq(Object) /\ f.args \in Seq(Object)
      BY <2>3 DEF FrameType
    <3>2. QED
      BY <3>1, SeqFinite
  <2>7. CASE Occurrences(f.locals, o) # 0
    <3>1. \E i \in DOMAIN f.locals : f.locals[i] = o
      BY <2>6, <2>7, OccurrencesZero
    <3>2. QED
      BY <3>1 DEF Rooted, f
  <2>8. CASE Occurrences(f.stack, o) # 0
    <3>1. \E i \in DOMAIN f.stack : f.stack[i] = o
      BY <2>6, <2>8, OccurrencesZero
    <3>2. QED
      BY <3>1 DEF Rooted, f
  <2>9. CASE Occurrences(f.args, o) # 0
    <3>1. \E i \in DOMAIN f.args : f.args[i] = o
      BY <2>6, <2>9, OccurrencesZero
    <3>2. o \in Range(f.args)
      BY <3>1 DEF Range
    <3>3. QED
      BY <3>2 DEF PendingArgs, f
  <2>10. QED
    BY <2>4, <2>5, <2>7, <2>8, <2>9
<1>5. QED
  BY <1>2, <1>3, <1>4

(* A collection clears slots and moves nothing. *)
LEMMA CollectShape ==
    ASSUME Shape, CollectGarbage
    PROVE  Shape'
<1> DEFINE roots == Range(Roots) \cup Immortal
           n == Sweep(mem, roots)
<1>1. /\ mem' = n /\ frames' = frames /\ globals' = globals
      /\ argsSwept' = (argsSwept \/ \E o \in PendingArgs \ Immortal : n.rc[o] = 0)
  BY DEF CollectGarbage
<1>2. MemoryOK(mem) /\ roots \in SUBSET Object /\ argsSwept \in BOOLEAN
  BY RootsRange, MemoryAssumption DEF Shape, MachineOK
<1> HIDE DEF roots
<1>3. MemoryOK(n) /\ n.used = mem.used
  BY <1>2, SweepBalance
<1> HIDE DEF n
<1>4. argsSwept' \in BOOLEAN
  BY <1>1, <1>2
<1>5. KnownSeq(n, globals) /\ \A k \in DOMAIN frames : FrameKnown(n, frames[k])
  BY <1>3 DEF Shape, MachineOK, FrameKnown, KnownSeq
<1>6. MachineOK(n, frames, globals)
  BY <1>3, <1>5 DEF Shape, MachineOK
<1>7. QED
  BY <1>1, <1>4, <1>6 DEF Shape

(* A collection that has all the roots, and sweeps no argument of a pending *)
(* call, keeps the counts of what the machine holds.                        *)
LEMMA CollectKept ==
    ASSUME Shape, CollectGarbage, RootsFit
    PROVE  Kept
<1> DEFINE roots == Range(Roots) \cup Immortal
           n == Sweep(mem, roots)
           marked == ReachableFrom(roots, Edges(mem))
<1>1. /\ mem' = n /\ frames' = frames /\ globals' = globals /\ ~ mem.undefined
      /\ argsSwept' = (argsSwept \/ \E o \in PendingArgs \ Immortal : n.rc[o] = 0)
  BY DEF CollectGarbage
<1>2. MemoryOK(mem) /\ roots \in SUBSET Object
  BY RootsRange, MemoryAssumption DEF Shape, MachineOK
<1>3. \A o : Rooted(o) => o \in roots
  BY RootsRange
<1> HIDE DEF roots
<1>4. roots \subseteq marked
  <2>1. Edges(mem) \in [Object -> SUBSET Object]
    BY <1>2, EdgesType
  <2>2. QED
    BY <1>2, <2>1, ReachableClosed DEF Closed
<1>5. /\ MemoryOK(n) /\ InUse(n) = InUse(mem) \cap marked
      /\ \A o \in Mortal \cap marked : Balance(n, o) >= Balance(mem, o)
      /\ \A o \in Mortal \ marked : Balance(n, o) = 0 /\ n.rc[o] = 0
      /\ \A o \in Object : n.buffer[o] = mem.buffer[o] \/ n.buffer[o] = "null"
  BY <1>2, SweepBalance
<1> HIDE DEF marked, n
<1>6. ASSUME Counted, Settled', NEW o \in Mortal
      PROVE  /\ Balance(n, o) >= Ledger[o]
             /\ o \in InUse(n) /\ Kind[o] # "function" => Balance(n, o) > Ledger[o]
  <2>1. ~ argsSwept' /\ Settled
    BY <1>1, <1>6 DEF Settled
  <2>2. /\ Balance(mem, o) >= Ledger[o]
        /\ o \in InUse(mem) /\ Kind[o] # "function" => Balance(mem, o) > Ledger[o]
    BY <1>6, <2>1 DEF Counted, Covers, Ledger
  <2>3. Balance(mem, o) \in Int /\ Balance(n, o) \in Int /\ Ledger[o] \in Nat
    BY <1>2, <1>5, BalanceType, Opening DEF Ledger
  <2>4. CASE o \in marked
    <3>1. Balance(n, o) >= Balance(mem, o) /\ (o \in InUse(n) => o \in InUse(mem))
      BY <1>5, <2>4
    <3>2. QED
      BY <2>2, <2>3, <3>1
  <2>5. CASE o \notin marked
    <3>1. n.rc[o] = 0 /\ Balance(n, o) = 0 /\ o \notin InUse(n)
      BY <1>5, <2>5
    <3>2. o \notin PendingArgs
      BY <1>1, <2>1, <3>1 DEF Mortal
    <3>3. ~ Rooted(o)
      BY <1>3, <1>4, <2>5
    <3>4. Ledger[o] = 0
      BY <3>2, <3>3, HeldSource
    <3>5. QED
      BY <3>1, <3>4
  <2>6. QED
    BY <2>4, <2>5
<1>7. ASSUME Counted, Settled' PROVE Covers(n, Ledger, "counts")
  <2>1. Clean(mem)
    BY <1>1, <1>7 DEF Settled, Counted, Covers
  <2>2. Clean(n)
    BY <1>5, <2>1 DEF Clean, Mortal
  <2>3. QED
    BY <1>5, <1>6, <1>7, <2>2 DEF Covers
<1>8. Counted => Counted'
  BY <1>1, <1>7 DEF Counted, Ledger
<1>9. Shape'
  BY CollectShape
<1>10. QED
  BY <1>8, <1>9 DEF Kept

(* The converse: what is a root is held. *)
LEMMA RootedReferred ==
    ASSUME Shape, NEW o, Rooted(o)
    PROVE  Referred(o)
<1>1. CASE \E g \in Globals : globals[g] = o
  BY <1>1, GlobalReferred
<1>2. ASSUME NEW k \in DOMAIN frames,
             \/ \E i \in DOMAIN frames[k].locals : frames[k].locals[i] = o
             \/ \E i \in DOMAIN frames[k].stack : frames[k].stack[i] = o
      PROVE  Referred(o)
  <2> DEFINE f == frames[k]
  <2>1. /\ frames \in Seq(FrameType) /\ globals \in [Globals -> Object]
        /\ f \in FrameType /\ FrameKnown(mem, f)
    BY Opening DEF Shape, MachineOK
  <2>2. o \in mem.used \cup Immortal
    BY <1>2, <2>1 DEF FrameKnown, KnownSeq
  <2>3. ASSUME o \in Mortal PROVE Ledger[o] >= 1
    <3>1. f.locals \in Seq(Object) /\ f.stack \in Seq(Object) /\ f.args \in Seq(Object)
      BY <2>1 DEF FrameType
    <3>2. IsFiniteSet(DOMAIN f.locals) /\ IsFiniteSet(DOMAIN f.stack)
      BY <3>1, SeqFinite
    <3>3. Occurrences(f.locals, o) # 0 \/ Occurrences(f.stack, o) # 0
      BY <1>2, <3>2, OccurrencesZero
    <3>4. /\ Occurrences(FrameObjects(f), o)
                = Occurrences(f.locals, o) + Occurrences(f.stack, o) + Occurrences(f.args, o)
          /\ Occurrences(f.locals, o) \in Nat /\ Occurrences(f.stack, o) \in Nat
          /\ Occurrences(f.args, o) \in Nat
      BY <2>1, FrameCount
    <3>5. Held(frames, globals)[o] >= Occurrences(FrameObjects(frames[k]), o)
      BY <2>1, <2>3, HeldUpdate
    <3>6. Ledger[o] \in Nat
      BY <2>3, Opening DEF Ledger
    <3>7. Ledger[o] >= Occurrences(FrameObjects(f), o)
      BY <3>5 DEF Ledger
    <3> HIDE DEF f
    <3>8. QED
      BY <3>3, <3>4, <3>6, <3>7
  <2>4. QED
    BY <2>2, <2>3, OwedReferred
<1>3. QED
  BY <1>1, <1>2 DEF Rooted

-----------------------------------------------------------------------------
(* The invariant holds at first, and every step keeps it.                  *)

(* The main activation is empty, and the globals are none. *)
LEMMA InitKept ==
    ASSUME Init
    PROVE  Shape /\ Counted
<1> DEFINE f == NewFrame(<<>>)
<1>1. /\ mem = EmptyMemory /\ frames = <<f>> /\ argsSwept = FALSE
      /\ globals = [g \in Globals |-> NoneObject]
  BY DEF Init
<1>2. f \in FrameType /\ f.locals = <<>> /\ f.stack = <<>> /\ f.args = <<>>
  BY DEF NewFrame, FrameType
<1> HIDE DEF f
<1>3. /\ MemoryOK(mem) /\ \A o \in Mortal : Balance(mem, o) = 0
  BY <1>1, EmptyMemoryOK
<1>4. FramesOK(frames)
  <2>1. /\ frames \in Seq(FrameType) /\ Len(frames) = 1 /\ DOMAIN frames = {1} /\ frames[1] = f
    BY <1>1, <1>2
  <2>2. Len(f.args) <= MaxArgs
    BY <1>2, VMAssumption
  <2>3. 1 \in 1 .. MaxDepth
    BY VMAssumption
  <2>4. QED
    BY <1>2, <2>1, <2>2, <2>3 DEF FramesOK
<1>5. globals \in [Globals -> Object] /\ KnownSeq(mem, globals)
  BY <1>1, MemoryAssumption DEF KnownSeq
<1>6. ASSUME NEW k \in DOMAIN frames PROVE FrameKnown(mem, frames[k])
  <2>1. frames[k] = f
    BY <1>1
  <2>2. QED
    BY <1>2, <2>1 DEF FrameKnown, KnownSeq
<1>7. Shape
  BY <1>1, <1>3, <1>4, <1>5, <1>6 DEF Shape, MachineOK
<1>8. ASSUME NEW o \in Mortal PROVE Ledger[o] = 0 /\ o \notin InUse(mem)
  <2>1. mem.rc[o] = 0
    BY <1>1 DEF EmptyMemory
  <2>2. ~ Rooted(o)
    <3>1. \A g \in Globals : globals[g] # o
      BY <1>1, MemoryAssumption DEF Mortal
    <3>2. \A k \in DOMAIN frames : frames[k] = f
      BY <1>1
    <3>3. QED
      BY <1>2, <3>1, <3>2 DEF Rooted
  <2>3. o \notin PendingArgs
    <3>1. \A k \in DOMAIN frames : Range(frames[k].args) = {}
      <4>1. \A k \in DOMAIN frames : frames[k] = f
        BY <1>1
      <4>2. QED
        BY <1>2, <4>1 DEF Range
    <3>2. QED
      BY <3>1 DEF PendingArgs
  <2>4. Ledger[o] = 0
    BY <1>7, <2>2, <2>3, HeldSource
  <2>5. QED
    BY <2>1, <2>4 DEF InUse
<1>9. Counted
  <2>1. \A o \in Mortal : Balance(mem, o) >= Ledger[o] /\ o \notin InUse(mem)
    BY <1>3, <1>8
  <2>2. Clean(mem)
    BY <1>1 DEF EmptyMemory, Clean, Mortal
  <2>3. QED
    BY <1>3, <2>1, <2>2 DEF Counted, Covers, Ledger
<1>10. QED
  BY <1>7, <1>9

(* Every instruction keeps Shape and Counted; so does a collection whose
   roots fit their buffer. *)
LEMMA StepKept ==
    ASSUME Shape, [Next]_vars, CollectGarbage => RootsFit
    PROVE  Kept
<1>1. CASE \E o \in Immortal : LoadImmortal(o)
  BY <1>1, LoadImmortalKept
<1>2. CASE \E kind \in {"int", "float", "code"} \cap DOMAIN Pool : LoadConst(kind)
  BY <1>2, LoadConstKept
<1>3. CASE \E i \in Locals : LoadFast(i) \/ StoreFast(i)
  BY <1>3, LoadFastKept, StoreFastKept
<1>4. CASE \E g \in Globals : LoadGlobal(g) \/ StoreGlobal(g)
  BY <1>4, LoadGlobalKept, StoreGlobalKept
<1>5. CASE PopTop \/ BinaryOp \/ UnaryOp
  BY <1>5, PopTopKept, OperatorKept
<1>6. CASE BuildEmptyArray
  BY <1>6, BuildEmptyArrayKept
<1>7. CASE \E n \in 1 .. MaxItems : BuildArray(n)
  <2>1. 1 .. MaxItems \subseteq Nat
    BY VMAssumption
  <2>2. QED
    BY <1>7, <2>1, BuildArrayKept
<1>8. CASE LoadSubscr \/ StoreSubscr \/ DelSubscr
  BY <1>8, LoadSubscrKept, StoreSubscrKept, DelSubscrKept
<1>9. CASE SwapArrayElements \/ CompareAndSwap
  BY <1>9, SwapArrayElementsKept, CompareAndSwapKept
<1>10. CASE MakeFunction
  BY <1>10, MakeFunctionKept
<1>11. CASE \E n \in 0 .. MaxArgs : Call(n) \/ CallNative(n)
  <2>1. 0 .. MaxArgs \subseteq Nat
    BY VMAssumption
  <2>2. QED
    BY <1>11, <2>1, CallKept, CallNativeKept
<1>12. CASE ReturnValue \/ ReturnNone
  BY <1>12, ReturnValueKept, ReturnNoneKept
<1>13. CASE CollectGarbage
  BY <1>13, CollectKept
<1>14. CASE UNCHANGED vars
  BY <1>14 DEF vars, Kept, Shape, Counted, Settled
<1>15. QED
  BY <1>1, <1>2, <1>3, <1>4, <1>5, <1>6, <1>7, <1>8, <1>9, <1>10, <1>11, <1>12, <1>13,
     <1>14 DEF Next

(* The shape is kept whether the roots fit or not. *)
LEMMA ShapeStep ==
    ASSUME Shape, [Next]_vars
    PROVE  Shape'
<1>1. CASE CollectGarbage
  BY <1>1, CollectShape
<1>2. CASE ~ CollectGarbage
  BY <1>2, StepKept DEF Kept
<1>3. QED
  BY <1>1, <1>2

(* What a machine of the right shape, whose counts are right, promises. *)
LEMMA ShapeType == Shape => TypeOK
<1> SUFFICES ASSUME Shape PROVE TypeOK
  OBVIOUS
<1>1. /\ MemoryOK(mem) /\ globals \in [Globals -> Object] /\ argsSwept \in BOOLEAN
      /\ FramesOK(frames)
  BY DEF Shape, MachineOK
<1>2. \A k \in DOMAIN frames : FrameOK(frames[k])
  <2> SUFFICES ASSUME NEW k \in DOMAIN frames PROVE FrameOK(frames[k])
    OBVIOUS
  <2>1. frames[k] \in FrameType /\ Len(frames[k].args) <= MaxArgs
    BY <1>1 DEF FramesOK
  <2>2. QED
    BY <2>1 DEF FrameType, FrameOK
<1>3. QED
  BY <1>1, <1>2 DEF TypeOK, FramesOK, FrameType

(* The properties follow from the invariant. *)
LEMMA CountedProperties ==
    Shape /\ Counted => CountsCover /\ CountsLeak /\ ReachableUntilSwept
<1> SUFFICES ASSUME Shape, Counted, Settled
             PROVE  /\ \A o \in Mortal : mem.rc[o] >= Refs(o)
                    /\ \A o \in InUse(mem) : Kind[o] # "function" => mem.rc[o] > Refs(o)
                    /\ ReachableFrom(Range(AllRoots), Edges(mem)) \subseteq InUse(mem) \cup Immortal
  BY DEF CountsCover, CountsLeak, ReachableUntilSwept, ReachableInUse, Settled
<1>1. /\ MemoryOK(mem) /\ frames \in Seq(FrameType) /\ globals \in [Globals -> Object]
      /\ Covers(mem, Ledger, "counts") /\ Ledger \in Ledgers
  BY Opening DEF Counted, Ledger
<1>2. ASSUME NEW o \in Mortal
      PROVE  /\ mem.rc[o] >= Refs(o)
             /\ o \in InUse(mem) /\ Kind[o] # "function" => mem.rc[o] > Refs(o)
  <2>1. Refs(o) = Ledger[o] + ItemRefs(mem, o)
    BY DEF Refs, Ledger, Held, Objects
  <2>2. /\ Balance(mem, o) >= Ledger[o]
        /\ o \in InUse(mem) /\ Kind[o] # "function" => Balance(mem, o) > Ledger[o]
    BY <1>1 DEF Covers
  <2>3. /\ mem.rc[o] = Balance(mem, o) + ItemRefs(mem, o)
        /\ mem.rc[o] \in Nat /\ ItemRefs(mem, o) \in Nat
        /\ Balance(mem, o) \in Int /\ Ledger[o] \in Int
    BY <1>1, BalanceType DEF Ledgers
  <2> DEFINE l == Ledger[o]
             i == ItemRefs(mem, o)
             b == Balance(mem, o)
             c == mem.rc[o]
             r == Refs(o)
  <2>4. r = l + i /\ b >= l /\ c = b + i /\ c \in Nat /\ i \in Nat /\ b \in Int /\ l \in Int
    BY <2>1, <2>2, <2>3
  <2>5. o \in InUse(mem) /\ Kind[o] # "function" => b > l
    BY <2>2
  <2> HIDE DEF l, i, b, c, r
  <2>6. c >= r /\ (b > l => c > r)
    BY <2>4
  <2>7. QED
    BY <2>5, <2>6 DEF b, l, c, r
<1>3. \A o \in InUse(mem) : Kind[o] # "function" => mem.rc[o] > Refs(o)
  BY <1>2 DEF InUse
<1>4. Range(AllRoots) \subseteq InUse(mem) \cup Immortal
  <2> SUFFICES ASSUME NEW o \in Range(AllRoots), o \notin Immortal PROVE o \in InUse(mem)
    OBVIOUS
  <2>1. o = NoneObject \/ Rooted(o)
    BY RootElements DEF Range
  <2>2. Rooted(o) /\ o \in Mortal
    BY <2>1, RootElements, MemoryAssumption DEF Mortal, Range
  <2>3. Referred(o)
    BY <2>2, RootedReferred
  <2>4. Mode = "counts"
    BY DEF Mode
  <2>5. QED
    BY <2>3, <2>4 DEF Referred
<1>5. ASSUME NEW a \in InUse(mem) \cup Immortal
      PROVE  Edges(mem)[a] \subseteq InUse(mem) \cup Immortal
  <2>1. a \in Object /\ Edges(mem)[a] = Range(mem.items[a])
    BY MemoryAssumption DEF InUse, Mortal, Edges
  <2>2. CASE a \in Immortal
    <3>1. mem.items[a] = <<>>
      BY <1>1, <2>1, <2>2, MemoryAssumption DEF MemoryOK
    <3>2. QED
      BY <2>1, <3>1 DEF Range
  <2>3. CASE a \in InUse(mem)
    <3> SUFFICES ASSUME NEW i \in DOMAIN mem.items[a]
                 PROVE  mem.items[a][i] \in InUse(mem) \cup Immortal
      BY <2>1 DEF Range
    <3> DEFINE x == mem.items[a][i]
    <3>1. x \in Mortal => Ledger[x] >= 0
      BY Opening DEF Ledger
    <3>2. QED
      BY <1>1, <2>1, <2>3, <3>1, ElementUsable
  <2>4. QED
    BY <2>2, <2>3
<1>6. Closed(Range(AllRoots), Edges(mem), InUse(mem) \cup Immortal)
  BY <1>4, <1>5 DEF Closed
<1>7. InUse(mem) \cup Immortal \in SUBSET Object
  BY MemoryAssumption DEF InUse, Mortal
<1>8. QED
  BY <1>2, <1>3, <1>6, <1>7, ReachableLeast

-----------------------------------------------------------------------------
(* The theorems.                                                           *)

(* In every state the memory and the machine have their types: the caller   *)
(* waits with its arguments only while the callee runs, and globals, stacks, *)
(* locals and arrays refer only to slots that a pool has given out (the      *)
(* lemmas above: Shape).  Nothing is assumed about the roots buffer.        *)
THEOREM TypeCorrect == Spec => []TypeOK
<1>1. Init => Shape
  BY InitKept
<1>2. Shape /\ [Next]_vars => Shape'
  BY ShapeStep
<1>3. QED
  BY <1>1, <1>2, ShapeType, PTL DEF Spec

(* As long as vm_collect_roots finds room for every root, the counts stay    *)
(* right under every instruction and every collection.                      *)
LEMMA Invariance == Spec /\ []RootsFit => [](Shape /\ Counted)
<1>1. Init => Shape /\ Counted
  BY InitKept
<1>2. Shape /\ Counted /\ RootsFit /\ [Next]_vars => (Shape /\ Counted)'
  BY StepKept DEF Kept
<1>3. QED
  BY <1>1, <1>2, PTL DEF Spec

(* No instruction takes the count of an object below the number of          *)
(* references to it from globals, locals, stacks, pending calls and arrays, *)
(* unless undefined behaviour has happened or a collection has swept an     *)
(* argument of a pending call.                                              *)
THEOREM NothingFreedEarly == Spec /\ []RootsFit => []CountsCover
<1>1. Shape /\ Counted => CountsCover
  BY CountedProperties
<1>2. QED
  BY <1>1, Invariance, PTL

(* Under the same conditions every object but a function has at least one   *)
(* count too many, so that counting alone never frees what an instruction   *)
(* has made.                                                                *)
THEOREM NothingFreedByCounting == Spec /\ []RootsFit => []CountsLeak
<1>1. Shape /\ Counted => CountsLeak
  BY CountedProperties
<1>2. QED
  BY <1>1, Invariance, PTL

(* Under the same conditions what can be reached from globals, locals and   *)
(* stacks is in use: the machine never meets a slot that has been freed.    *)
(* Without the proviso on pending calls it does, which a run shows.         *)
THEOREM NothingDangles == Spec /\ []RootsFit => []ReachableUntilSwept
<1>1. Shape /\ Counted => ReachableUntilSwept
  BY CountedProperties
<1>2. QED
  BY <1>1, Invariance, PTL

(* Under the same conditions no object points to a freed buffer, although    *)
(* object_decref leaves one behind whenever it frees an array, a float or a *)
(* native function (object.c:157): counting alone frees functions only.  So *)
(* neither a recycled slot nor a sweep frees a buffer for the second time.  *)
THEOREM NothingFreedTwice == Spec /\ []RootsFit => []NoStaleBuffer
<1>1. Shape /\ Counted => NoStaleBuffer
  BY DEF Counted, Covers, Clean, NoStaleBuffer
<1>2. QED
  BY <1>1, Invariance, PTL
=============================================================================
