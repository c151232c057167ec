----------------------------- MODULE Memory_proofs -----------------------------
(***************************************************************************)
(* What the operations of module Memory do to the balance of an object:    *)
(* its ref_count less the references that arrays in use hold.  Whatever is *)
(* left is for the references from outside the memory.                     *)
(***************************************************************************)
EXTENDS Memory, Integers, FiniteSetTheorems, SequenceTheorems, WellFoundedInduction, TLAPS

-----------------------------------------------------------------------------
(* Counting.                                                               *)

One(b) == IF b THEN 1 ELSE 0

(* A family of finitely many finite sequences.                              *)
Finite(F) == IsFiniteSet(DOMAIN F) /\ \A k \in DOMAIN F : IsFiniteSet(DOMAIN F[k])
On(F, D) == [k \in D |-> F[k]]

(* Occurrences of an object in a sequence are finitely many.                *)
LEMMA OccurrencesType ==
    ASSUME NEW s, IsFiniteSet(DOMAIN s), NEW o
    PROVE  /\ IsFiniteSet({i \in DOMAIN s : s[i] = o})
           /\ Occurrences(s, o) \in Nat
<1>1. IsFiniteSet({i \in DOMAIN s : s[i] = o})
  BY FS_Subset
<1>2. QED
  BY <1>1, FS_CardinalityType DEF Occurrences

(* A sequence has a finite domain. *)
LEMMA SeqFinite ==
    ASSUME NEW S, NEW s \in Seq(S)
    PROVE  IsFiniteSet(DOMAIN s)
<1>1. DOMAIN s = 1 .. Len(s) /\ Len(s) \in Nat
  OBVIOUS
<1>2. QED
  BY <1>1, FS_Interval

(* An object occurs in a sequence if and only if it is in its range. *)
LEMMA OccurrencesZero ==
    ASSUME NEW s, IsFiniteSet(DOMAIN s), NEW o
    PROVE  Occurrences(s, o) = 0 <=> \A i \in DOMAIN s : s[i] # o
<1>1. IsFiniteSet({i \in DOMAIN s : s[i] = o})
  BY OccurrencesType
<1>2. QED
  BY <1>1, FS_EmptySet DEF Occurrences

(* A place of o is a key and an index under which o is found. *)
LEMMA InPlaces ==
    ASSUME NEW F, NEW o, NEW p
    PROVE  p \in Places(F, o) <=>
              \E k \in DOMAIN F : \E i \in DOMAIN F[k] : p = <<k, i>> /\ F[k][i] = o
  BY DEF Places

(* The places of an object in a family are finitely many. *)
LEMMA PlacesFinite ==
    ASSUME NEW F, Finite(F), NEW o
    PROVE  IsFiniteSet(Places(F, o)) /\ Count(F, o) \in Nat
<1> DEFINE At(k) == {k} \X {i \in DOMAIN F[k] : F[k][i] = o}
           Sets == {At(k) : k \in DOMAIN F}
<1>1. IsFiniteSet(Sets)
  <2>1. IsFiniteSet(DOMAIN F)
    BY DEF Finite
  <2>2. [k \in DOMAIN F |-> At(k)] \in Surjection(DOMAIN F, Sets)
    BY DEF Surjection
  <2>3. QED
    BY <2>1, <2>2, FS_Surjection
<1>2. ASSUME NEW T \in Sets PROVE IsFiniteSet(T)
  <2>1. PICK k \in DOMAIN F : T = At(k)
    OBVIOUS
  <2>2. IsFiniteSet(DOMAIN F[k])
    BY DEF Finite
  <2>3. IsFiniteSet({i \in DOMAIN F[k] : F[k][i] = o})
    BY <2>2, FS_Subset
  <2>4. IsFiniteSet({k})
    BY FS_Singleton
  <2>5. QED
    BY <2>1, <2>3, <2>4, FS_Product
<1>3. IsFiniteSet(UNION Sets)
  BY <1>1, <1>2, FS_UNION
<1>4. Places(F, o) = UNION Sets
  BY DEF Places
<1>5. QED
  BY <1>3, <1>4, FS_CardinalityType DEF Count

(* The count in one sequence. *)
LEMMA CountOne ==
    ASSUME NEW F, NEW k \in DOMAIN F, IsFiniteSet(DOMAIN F[k]), NEW o
    PROVE  Count(On(F, {k}), o) = Occurrences(F[k], o)
<1> DEFINE I == {i \in DOMAIN F[k] : F[k][i] = o}
<1>1. IsFiniteSet(I) /\ Cardinality(I) \in Nat
  BY OccurrencesType, FS_CardinalityType
<1>2. IsFiniteSet({k}) /\ Cardinality({k}) = 1
  BY FS_Singleton
<1>3. Cardinality({k} \X I) = 1 * Cardinality(I)
  BY <1>1, <1>2, FS_Product
<1>4. Places(On(F, {k}), o) = {k} \X I
  BY DEF Places, On
<1>5. Occurrences(F[k], o) = Cardinality(I)
  BY DEF Occurrences
<1>6. Count(On(F, {k}), o) = Cardinality({k} \X I)
  BY <1>4 DEF Count
<1>7. QED
  <2> HIDE DEF I
  <2> QED
    BY <1>1, <1>3, <1>5, <1>6

(* What is counted under two sets of keys without a common key. *)
LEMMA CountSplit ==
    ASSUME NEW F, Finite(F), NEW A \in SUBSET DOMAIN F, NEW B \in SUBSET DOMAIN F,
           A \cap B = {}, NEW o
    PROVE  Count(On(F, A \cup B), o) = Count(On(F, A), o) + Count(On(F, B), o)
<1>1. ASSUME NEW D \in SUBSET DOMAIN F PROVE Finite(On(F, D))
  BY FS_Subset DEF Finite, On
<1>2. /\ IsFiniteSet(Places(On(F, A), o)) /\ Count(On(F, A), o) \in Nat
      /\ IsFiniteSet(Places(On(F, B), o)) /\ Count(On(F, B), o) \in Nat
  BY <1>1, PlacesFinite
<1>3. Places(On(F, A \cup B), o) = Places(On(F, A), o) \cup Places(On(F, B), o)
  <2>1. ASSUME NEW p
        PROVE  p \in Places(On(F, A \cup B), o) <=>
                  p \in Places(On(F, A), o) \cup Places(On(F, B), o)
    BY InPlaces DEF On
  <2>2. QED
    BY <2>1
<1>4. Places(On(F, A), o) \cap Places(On(F, B), o) = {}
  BY InPlaces DEF On
<1>5. Cardinality({}) = 0
  BY FS_EmptySet
<1>6. QED
  <2> DEFINE P == Places(On(F, A), o)
             Q == Places(On(F, B), o)
  <2>1. Cardinality(P \cup Q) = Cardinality(P) + Cardinality(Q) - 0
    <3> HIDE DEF P, Q
    <3>1. IsFiniteSet(P) /\ IsFiniteSet(Q) /\ P \cap Q = {}
      BY <1>2, <1>4 DEF P, Q
    <3>2. QED
      BY <3>1, <1>5, FS_Union
  <2>2. Cardinality(P) \in Nat /\ Cardinality(Q) \in Nat
    BY <1>2 DEF Count
  <2>3. Count(On(F, A \cup B), o) = Cardinality(P \cup Q)
    BY <1>3 DEF Count
  <2>4. Count(On(F, A), o) = Cardinality(P) /\ Count(On(F, B), o) = Cardinality(Q)
    BY DEF Count
  <2>5. QED
    <3> HIDE DEF P, Q
    <3> QED
      BY <2>1, <2>2, <2>3, <2>4

(* Families that agree count the same. *)
LEMMA CountAgree ==
    ASSUME NEW F, NEW G, DOMAIN F = DOMAIN G, \A k \in DOMAIN F : F[k] = G[k], NEW o
    PROVE  Count(F, o) = Count(G, o)
<1>1. Places(F, o) = Places(G, o)
  <2>1. ASSUME NEW p PROVE p \in Places(F, o) <=> p \in Places(G, o)
    BY InPlaces
  <2>2. QED
    BY <2>1
<1>2. QED
  BY <1>1 DEF Count

(* A part of a family of finite sequences is one. *)
LEMMA OnFinite ==
    ASSUME NEW F, Finite(F), NEW D \in SUBSET DOMAIN F
    PROVE  Finite(On(F, D))
  BY FS_Subset DEF Finite, On

(* What a part of a family and the rest of it count. *)
LEMMA CountPart ==
    ASSUME NEW F, Finite(F), NEW D \in SUBSET DOMAIN F, NEW o
    PROVE  /\ Count(F, o) = Count(On(F, D), o) + Count(On(F, DOMAIN F \ D), o)
           /\ Count(F, o) \in Nat
           /\ Count(On(F, D), o) \in Nat
           /\ Count(On(F, DOMAIN F \ D), o) \in Nat
<1>1. Count(F, o) = Count(On(F, DOMAIN F), o)
  BY CountAgree DEF On
<1>2. D \cup (DOMAIN F \ D) = DOMAIN F /\ D \cap (DOMAIN F \ D) = {}
  OBVIOUS
<1>3. Count(On(F, D \cup (DOMAIN F \ D)), o)
        = Count(On(F, D), o) + Count(On(F, DOMAIN F \ D), o)
  BY <1>2, CountSplit
<1>4. Finite(On(F, D)) /\ Finite(On(F, DOMAIN F \ D))
  BY OnFinite
<1>5. QED
  BY <1>1, <1>2, <1>3, <1>4, PlacesFinite

(* The count under one key, and under the others. *)
LEMMA CountMember ==
    ASSUME NEW F, Finite(F), NEW k \in DOMAIN F, NEW o
    PROVE  /\ Count(F, o) = Occurrences(F[k], o) + Count(On(F, DOMAIN F \ {k}), o)
           /\ Occurrences(F[k], o) \in Nat
           /\ Count(On(F, DOMAIN F \ {k}), o) \in Nat
<1>1. IsFiniteSet(DOMAIN F[k])
  BY DEF Finite
<1>2. Count(On(F, {k}), o) = Occurrences(F[k], o)
  BY <1>1, CountOne
<1>3. {k} \in SUBSET DOMAIN F
  OBVIOUS
<1>4. QED
  BY <1>2, <1>3, CountPart

(* One sequence of a family changes. *)
LEMMA CountUpdate ==
    ASSUME NEW F, Finite(F), NEW G, Finite(G), DOMAIN G = DOMAIN F,
           NEW k \in DOMAIN F, \A j \in DOMAIN F \ {k} : G[j] = F[j], NEW o
    PROVE  Count(G, o) = Count(F, o) - Occurrences(F[k], o) + Occurrences(G[k], o)
<1>1. Count(F, o) = Occurrences(F[k], o) + Count(On(F, DOMAIN F \ {k}), o)
  BY CountMember
<1>2. Count(G, o) = Occurrences(G[k], o) + Count(On(G, DOMAIN F \ {k}), o)
  BY CountMember
<1>3. On(G, DOMAIN F \ {k}) = On(F, DOMAIN F \ {k})
  BY DEF On
<1>4. Occurrences(F[k], o) \in Nat /\ Occurrences(G[k], o) \in Nat
      /\ Count(On(F, DOMAIN F \ {k}), o) \in Nat
  BY CountMember
<1>5. QED
  BY <1>1, <1>2, <1>3, <1>4

(* A part of a family counts no more than a larger part. *)
LEMMA CountGrows ==
    ASSUME NEW F, Finite(F), NEW D \in SUBSET DOMAIN F, NEW C \in SUBSET D, NEW o
    PROVE  /\ Count(On(F, C), o) <= Count(On(F, D), o)
           /\ Count(On(F, C), o) \in Nat /\ Count(On(F, D), o) \in Nat
<1>1. C \cup (D \ C) = D /\ C \cap (D \ C) = {} /\ C \subseteq DOMAIN F
      /\ D \ C \subseteq DOMAIN F
  OBVIOUS
<1>2. Count(On(F, C \cup (D \ C)), o) = Count(On(F, C), o) + Count(On(F, D \ C), o)
  BY <1>1, CountSplit
<1>3. Count(On(F, C), o) \in Nat /\ Count(On(F, D \ C), o) \in Nat
  BY <1>1, OnFinite, PlacesFinite
<1>4. Count(On(F, D), o) = Count(On(F, C), o) + Count(On(F, D \ C), o)
  BY <1>1, <1>2, Zenon
<1>5. QED
  BY <1>3, <1>4

(* An object that is nowhere counts 0, and any other more. *)
LEMMA CountZero ==
    ASSUME NEW F, Finite(F), NEW o
    PROVE  Count(F, o) = 0 <=> \A k \in DOMAIN F : \A i \in DOMAIN F[k] : F[k][i] # o
<1>1. IsFiniteSet(Places(F, o))
  BY PlacesFinite
<1>2. Count(F, o) = 0 <=> Places(F, o) = {}
  BY <1>1, FS_EmptySet DEF Count
<1>3. ASSUME NEW k \in DOMAIN F, NEW i \in DOMAIN F[k], F[k][i] = o
      PROVE  Places(F, o) # {}
  BY <1>3, InPlaces
<1>4. ASSUME Places(F, o) # {}
      PROVE  \E k \in DOMAIN F : \E i \in DOMAIN F[k] : F[k][i] = o
  <2>1. PICK p : p \in Places(F, o)
    BY <1>4
  <2>2. QED
    BY <2>1, InPlaces
<1>5. QED
  BY <1>2, <1>3, <1>4

-----------------------------------------------------------------------------
(* Occurrences in sequences that are put together.                         *)

(* Occurrences in a concatenation. *)
LEMMA OccurrencesConcat ==
    ASSUME NEW S, NEW s \in Seq(S), NEW t \in Seq(S), NEW o
    PROVE  /\ Occurrences(s \o t, o) = Occurrences(s, o) + Occurrences(t, o)
           /\ Occurrences(s, o) \in Nat /\ Occurrences(t, o) \in Nat
<1> DEFINE I == {i \in DOMAIN s : s[i] = o}
           J == {i \in DOMAIN t : t[i] = o}
           K == {i \in DOMAIN (s \o t) : (s \o t)[i] = o}
           L == {i + Len(s) : i \in J}
           shift == [i \in J |-> i + Len(s)]
<1>1. /\ DOMAIN s = 1 .. Len(s) /\ DOMAIN t = 1 .. Len(t)
      /\ DOMAIN (s \o t) = 1 .. Len(s) + Len(t)
      /\ Len(s) \in Nat /\ Len(t) \in Nat
  OBVIOUS
<1>2. IsFiniteSet(I) /\ IsFiniteSet(J)
  BY SeqFinite, OccurrencesType
<1>3. K = I \cup L
  <2>1. \A i \in 1 .. Len(s) : (s \o t)[i] = s[i]
    OBVIOUS
  <2>2. \A i \in 1 .. Len(t) : (s \o t)[i + Len(s)] = t[i]
    OBVIOUS
  <2>3. ASSUME NEW k \in K, k > Len(s) PROVE k \in L
    <3>1. k - Len(s) \in 1 .. Len(t) /\ k = (k - Len(s)) + Len(s)
      BY <1>1, <2>3
    <3>2. t[k - Len(s)] = o
      BY <2>2, <3>1
    <3>3. QED
      BY <1>1, <3>1, <3>2
  <2>4. ASSUME NEW k \in K, k <= Len(s) PROVE k \in I
    BY <1>1, <2>1, <2>4
  <2>5. ASSUME NEW k \in I PROVE k \in K
    BY <1>1, <2>1
  <2>6. ASSUME NEW k \in L PROVE k \in K
    BY <1>1, <2>2
  <2>7. QED
    <3>1. \A k \in K : k > Len(s) \/ k <= Len(s)
      BY <1>1
    <3> HIDE DEF I, K, L
    <3>2. QED
      BY <3>1, <2>3, <2>4, <2>5, <2>6
<1>4. I \cap L = {}
  BY <1>1
<1>5. IsFiniteSet(L) /\ Cardinality(L) = Cardinality(J)
  <2>1. shift \in Bijection(J, L)
    <3>1. shift \in [J -> L]
      BY <1>1
    <3>2. \A i, j \in J : shift[i] = shift[j] => i = j
      BY <1>1
    <3>3. \A l \in L : \E j \in J : shift[j] = l
      BY <1>1
    <3> HIDE DEF shift, J, L
    <3>4. QED
      BY <3>1, <3>2, <3>3 DEF Bijection, Injection, IsInjective, Surjection
  <2>2. QED
    <3> HIDE DEF shift, J, L
    <3> QED
      BY <1>2, <2>1, FS_Bijection DEF ExistsBijection
<1>6. QED
  <2> HIDE DEF I, J, K, L
  <2>1. Cardinality(I \cup L) = Cardinality(I) + Cardinality(L) - 0
    BY <1>2, <1>4, <1>5, FS_Union, FS_EmptySet
  <2>2. Cardinality(I) \in Nat /\ Cardinality(J) \in Nat
    BY <1>2, FS_CardinalityType
  <2>3. Cardinality(K) = Cardinality(I) + Cardinality(J)
    BY <1>3, <1>5, <2>1, <2>2
  <2>4. QED
    BY <2>2, <2>3 DEF Occurrences, I, J, K

(* Occurrences in a sequence of one. *)
LEMMA OccurrencesOne ==
    ASSUME NEW x, NEW o
    PROVE  Occurrences(<<x>>, o) = One(x = o)
<1>1. CASE x = o
  <2>1. {i \in DOMAIN <<x>> : <<x>>[i] = o} = {1}
    BY <1>1
  <2>2. QED
    BY <1>1, <2>1, FS_Singleton DEF Occurrences, One
<1>2. CASE x # o
  <2>1. {i \in DOMAIN <<x>> : <<x>>[i] = o} = {}
    BY <1>2
  <2>2. QED
    BY <1>2, <2>1, FS_EmptySet DEF Occurrences, One
<1>3. QED
  BY <1>1, <1>2

(* Occurrences in the empty sequence. *)
LEMMA OccurrencesNone ==
    ASSUME NEW o
    PROVE  Occurrences(<<>>, o) = 0
<1>1. {i \in DOMAIN <<>> : <<>>[i] = o} = {}
  OBVIOUS
<1>2. QED
  BY <1>1, FS_EmptySet DEF Occurrences

(* Occurrences after an element was appended. *)
LEMMA OccurrencesAppend ==
    ASSUME NEW S, NEW s \in Seq(S), NEW x \in S, NEW o
    PROVE  Occurrences(Append(s, x), o) = Occurrences(s, o) + One(x = o)
<1>1. Append(s, x) = s \o <<x>> /\ <<x>> \in Seq(S)
  BY AppendIsConcat
<1>2. Occurrences(s \o <<x>>, o) = Occurrences(s, o) + Occurrences(<<x>>, o)
  BY <1>1, OccurrencesConcat
<1>3. QED
  BY <1>1, <1>2, OccurrencesOne

(* A sequence is cut in two. *)
LEMMA OccurrencesCut ==
    ASSUME NEW S, NEW s \in Seq(S), NEW n \in 0 .. Len(s), NEW o
    PROVE  /\ Occurrences(s, o) = Occurrences(SubSeq(s, 1, n), o)
                                  + Occurrences(SubSeq(s, n + 1, Len(s)), o)
           /\ Occurrences(SubSeq(s, 1, n), o) \in Nat
           /\ Occurrences(SubSeq(s, n + 1, Len(s)), o) \in Nat
<1> DEFINE a == SubSeq(s, 1, n)
           b == SubSeq(s, n + 1, Len(s))
<1>1. a \in Seq(S) /\ b \in Seq(S) /\ s = a \o b
  <2>1. Len(s) \in Nat /\ n \in Nat /\ \A i \in 1 .. Len(s) : s[i] \in S
    OBVIOUS
  <2>2. a \in Seq(S)
    BY <2>1, SubSeqProperties
  <2>3. b \in Seq(S)
    BY <2>1, SubSeqProperties
  <2>4. a \o b = SubSeq(s, 1, Len(s))
    <3>1. 1 \in 1 .. Len(s) + 1 /\ n \in 1 - 1 .. Len(s) /\ Len(s) \in n .. Len(s)
      BY <2>1
    <3>2. QED
      BY <3>1, ConcatAdjacentSubSeq
  <2>5. SubSeq(s, 1, Len(s)) = s
    BY SubSeqFull
  <2>6. QED
    BY <2>2, <2>3, <2>4, <2>5
<1>2. QED
  <2> HIDE DEF a, b
  <2>1. Occurrences(a \o b, o) = Occurrences(a, o) + Occurrences(b, o)
        /\ Occurrences(a, o) \in Nat /\ Occurrences(b, o) \in Nat
    BY <1>1, OccurrencesConcat
  <2>2. QED
    BY <1>1, <2>1 DEF a, b

(* One item of a sequence, or of any function, is replaced. *)
LEMMA OccurrencesExcept ==
    ASSUME NEW s, IsFiniteSet(DOMAIN s), NEW i \in DOMAIN s, NEW x, NEW o
    PROVE  Occurrences([s EXCEPT ![i] = x], o)
              = Occurrences(s, o) - One(s[i] = o) + One(x = o)
<1> DEFINE t == [s EXCEPT ![i] = x]
           I == {j \in DOMAIN s \ {i} : s[j] = o}
           S == {j \in DOMAIN s : s[j] = o}
           T == {j \in DOMAIN t : t[j] = o}
<1>1. IsFiniteSet(I) /\ Cardinality(I) \in Nat
  <2>1. IsFiniteSet(I)
    BY FS_Subset
  <2>2. QED
    BY <2>1, FS_CardinalityType
<1>2. i \notin I
  OBVIOUS
<1>3. Cardinality(I \cup {i}) = Cardinality(I) + 1
  <2> HIDE DEF I
  <2> QED
    BY <1>1, <1>2, FS_AddElement
<1>4. S = IF s[i] = o THEN I \cup {i} ELSE I
  OBVIOUS
<1>5. T = IF x = o THEN I \cup {i} ELSE I
  OBVIOUS
<1>6. Cardinality(S) = Cardinality(I) + One(s[i] = o)
  <2> HIDE DEF I, S
  <2> QED
    BY <1>1, <1>3, <1>4 DEF One
<1>7. Cardinality(T) = Cardinality(I) + One(x = o)
  <2> HIDE DEF I, T
  <2> QED
    BY <1>1, <1>3, <1>5 DEF One
<1>8. QED
  <2>1. One(s[i] = o) \in Nat /\ One(x = o) \in Nat
    BY DEF One
  <2>2. Occurrences(s, o) = Cardinality(S) /\ Occurrences(t, o) = Cardinality(T)
    BY DEF Occurrences
  <2> HIDE DEF I, S, T, t
  <2>3. Occurrences(t, o) = Occurrences(s, o) - One(s[i] = o) + One(x = o)
    BY <1>1, <1>6, <1>7, <2>1, <2>2
  <2>4. QED
    BY <2>3 DEF t

-----------------------------------------------------------------------------
(* The references that arrays hold.                                        *)

(* The elements of arrays are finitely many. *)
LEMMA ItemsFinite ==
    ASSUME NEW m, MemoryOK(m)
    PROVE  /\ DOMAIN m.items = Object
           /\ Finite(m.items)
           /\ InUse(m) \subseteq Object
           /\ \A A \in SUBSET Object : Finite(On(m.items, A))
<1>1. DOMAIN m.items = Object
  BY DEF MemoryOK, Memories
<1>2. ASSUME NEW a \in Object PROVE IsFiniteSet(DOMAIN m.items[a])
  <2>1. m.items[a] \in Seq(Object)
    BY DEF MemoryOK, Memories
  <2>2. QED
    BY <2>1, SeqFinite
<1>3. Finite(m.items)
  BY <1>1, <1>2, MemoryAssumption DEF Finite
<1>4. QED
  BY <1>1, <1>3, OnFinite DEF InUse, Mortal

(* What is lost is counted by all of the released objects: others than      *)
(* arrays hold nothing.                                                     *)
LEMMA LostCount ==
    ASSUME NEW m, MemoryOK(m), NEW s, IsFiniteSet(DOMAIN s), NEW S \in SUBSET InUse(m), NEW o
    PROVE  /\ Lost(m, s, S, o) = Occurrences(s, o) + Count(On(m.items, S), o)
           /\ Occurrences(s, o) \in Nat /\ Count(On(m.items, S), o) \in Nat
<1> DEFINE A == {a \in S : Kind[a] = "array" /\ m.buffer[a] # "null"}
<1>1. Lost(m, s, S, o) = Occurrences(s, o) + Count(On(m.items, A), o)
  BY DEF Lost, On
<1>2. /\ A \subseteq Object /\ S \ A \subseteq Object /\ S \subseteq Object
      /\ A \cap (S \ A) = {} /\ A \cup (S \ A) = S
  BY ItemsFinite
<1>3. Count(On(m.items, A \cup (S \ A)), o)
        = Count(On(m.items, A), o) + Count(On(m.items, S \ A), o)
  <2> HIDE DEF A
  <2> QED
    BY <1>2, ItemsFinite, CountSplit
<1>4. Count(On(m.items, S \ A), o) = 0
  <2>1. \A a \in S \ A : DOMAIN m.items[a] = {}
    BY <1>2 DEF MemoryOK, Memories
  <2>2. Finite(On(m.items, S \ A))
    BY <1>2, ItemsFinite
  <2>3. QED
    BY <2>1, <2>2, CountZero DEF On
<1>5. Count(On(m.items, A), o) \in Nat /\ Occurrences(s, o) \in Nat
  <2>1. Finite(On(m.items, A))
    BY <1>2, ItemsFinite
  <2>2. QED
    BY <2>1, PlacesFinite, OccurrencesType
<1>6. Count(On(m.items, S), o) = Count(On(m.items, A), o) + Count(On(m.items, S \ A), o)
  BY <1>2, <1>3, Zenon
<1>7. QED
  <2> HIDE DEF A
  <2> QED
    BY <1>1, <1>4, <1>5, <1>6

(* The more objects are released, the more references go. *)
LEMMA LostGrows ==
    ASSUME NEW m, MemoryOK(m), NEW s, IsFiniteSet(DOMAIN s),
           NEW D \in SUBSET InUse(m), NEW C \in SUBSET D, NEW o
    PROVE  /\ Lost(m, s, C, o) <= Lost(m, s, D, o)
           /\ Lost(m, s, C, o) \in Nat /\ Lost(m, s, D, o) \in Nat
<1>1. C \in SUBSET InUse(m) /\ D \subseteq DOMAIN m.items
  BY ItemsFinite
<1>2. Count(On(m.items, C), o) <= Count(On(m.items, D), o)
  BY <1>1, ItemsFinite, CountGrows
<1>3. QED
  BY <1>1, <1>2, LostCount

-----------------------------------------------------------------------------
(* The released objects are the least fixed point of what a release takes   *)
(* with it.                                                                 *)
LEMMA ReleasedFixed ==
    ASSUME NEW m, MemoryOK(m), NEW s, IsFiniteSet(DOMAIN s)
    PROVE  /\ Released(m, s) \subseteq InUse(m)
           /\ \A o \in InUse(m) :
                 o \in Released(m, s) <=> m.rc[o] <= Lost(m, s, Released(m, s), o)
<1> DEFINE T == {o \in InUse(m) : m.rc[o] <= Lost(m, s, InUse(m), o)}
           Enough(S) == \A o \in T : m.rc[o] <= Lost(m, s, S, o) => o \in S
           R == {o \in T : \A S \in {S \in SUBSET T : Enough(S)} : o \in S}
<1>1. Released(m, s) = R
  BY DEF Released
<1>2. R \subseteq T /\ T \subseteq InUse(m)
  OBVIOUS
<1>3. ASSUME NEW o \in InUse(m) PROVE m.rc[o] \in Nat
  BY DEF InUse, MemoryOK, Memories
<1>4. ASSUME NEW o \in T, m.rc[o] <= Lost(m, s, R, o) PROVE o \in R
  <2>1. ASSUME NEW S \in SUBSET T, Enough(S) PROVE o \in S
    <3>1. R \subseteq S
      BY <2>1
    <3>2. Lost(m, s, R, o) <= Lost(m, s, S, o)
          /\ Lost(m, s, R, o) \in Nat /\ Lost(m, s, S, o) \in Nat
      <4> HIDE DEF R
      <4> QED
        BY <3>1, LostGrows
    <3>3. m.rc[o] <= Lost(m, s, S, o)
      <4> HIDE DEF R
      <4> QED
        BY <1>3, <1>4, <3>2
    <3>4. QED
      BY <2>1, <3>3
  <2>2. QED
    BY <2>1
<1>5. ASSUME NEW o \in R, ~ (m.rc[o] <= Lost(m, s, R, o)) PROVE FALSE
  <2>1. Enough(R \ {o})
    <3> SUFFICES ASSUME NEW p \in T, m.rc[p] <= Lost(m, s, R \ {o}, p)
                 PROVE  p \in R \ {o}
      OBVIOUS
    <3>1. Lost(m, s, R \ {o}, p) <= Lost(m, s, R, p)
          /\ Lost(m, s, R \ {o}, p) \in Nat /\ Lost(m, s, R, p) \in Nat
      <4>1. R \in SUBSET InUse(m) /\ R \ {o} \in SUBSET R
        BY <1>2
      <4> HIDE DEF R
      <4>2. QED
        BY <4>1, LostGrows
    <3>2. m.rc[p] <= Lost(m, s, R, p)
      <4> HIDE DEF R
      <4> QED
        BY <1>3, <3>1
    <3>3. p \in R
      BY <1>4, <3>2
    <3>4. p # o
      <4> HIDE DEF R
      <4> QED
        BY <1>5, <3>2
    <3>5. QED
      BY <3>3, <3>4
  <2>2. R \ {o} \in SUBSET T
    OBVIOUS
  <2>3. o \in R \ {o}
    BY <2>1, <2>2
  <2>4. QED
    BY <2>3
<1>6. ASSUME NEW o \in InUse(m), m.rc[o] <= Lost(m, s, R, o) PROVE o \in R
  <2>1. Lost(m, s, R, o) <= Lost(m, s, InUse(m), o)
        /\ Lost(m, s, R, o) \in Nat /\ Lost(m, s, InUse(m), o) \in Nat
    <3>1. InUse(m) \in SUBSET InUse(m) /\ R \in SUBSET InUse(m)
      BY <1>2
    <3> HIDE DEF R
    <3>2. QED
      BY <3>1, LostGrows
  <2>2. m.rc[o] <= Lost(m, s, InUse(m), o)
    <3> HIDE DEF R
    <3> QED
      BY <1>3, <1>6, <2>1
  <2>3. QED
    BY <1>4, <1>6, <2>2
<1>7. QED
  <2> HIDE DEF R, T
  <2> QED
    BY <1>1, <1>2, <1>5, <1>6

(* Any set that contains what it leaves without references contains what is
   released: nothing is freed without need. *)
LEMMA ReleasedLeast ==
    ASSUME NEW m, MemoryOK(m), NEW s, IsFiniteSet(DOMAIN s), NEW S \in SUBSET InUse(m),
           \A o \in InUse(m) : m.rc[o] <= Lost(m, s, S, o) => o \in S
    PROVE  Released(m, s) \subseteq S
<1> DEFINE T == {o \in InUse(m) : m.rc[o] <= Lost(m, s, InUse(m), o)}
<1>1. ASSUME NEW o \in T, m.rc[o] <= Lost(m, s, S \cap T, o) PROVE o \in S \cap T
  <2>1. Lost(m, s, S \cap T, o) <= Lost(m, s, S, o)
        /\ Lost(m, s, S \cap T, o) \in Nat /\ Lost(m, s, S, o) \in Nat
    <3>1. S \cap T \in SUBSET S
      OBVIOUS
    <3> HIDE DEF T
    <3>2. QED
      BY <3>1, LostGrows
  <2>2. m.rc[o] \in Nat
    BY DEF InUse, MemoryOK, Memories
  <2>3. m.rc[o] <= Lost(m, s, S, o)
    <3> HIDE DEF T
    <3> QED
      BY <1>1, <2>1, <2>2
  <2>4. QED
    BY <2>3
<1>2. S \cap T \in SUBSET T
  OBVIOUS
<1>3. QED
  BY <1>1, <1>2 DEF Released

-----------------------------------------------------------------------------
(* Releasing objects.                                                      *)

(* What a release leaves of the memory. *)
LEMMA DecrefAllShape ==
    ASSUME NEW m, MemoryOK(m), NEW s, IsFiniteSet(DOMAIN s)
    PROVE  /\ DecrefAll(m, s).items = m.items
           /\ DecrefAll(m, s).used = m.used
           /\ DecrefAll(m, s).undefined = m.undefined
           /\ InUse(DecrefAll(m, s)) = InUse(m) \ Released(m, s)
           /\ \A o \in Mortal : DecrefAll(m, s).rc[o] =
                 IF o \in InUse(m) \ Released(m, s)
                 THEN m.rc[o] - Lost(m, s, Released(m, s), o) ELSE 0
           /\ \A o \in InUse(DecrefAll(m, s)) : DecrefAll(m, s).buffer[o] = m.buffer[o]
           /\ \A o \in Object : m.buffer[o] # "null" => DecrefAll(m, s).buffer[o] # "null"
           /\ \A o \in Object : o \notin Released(m, s) \/ m.buffer[o] = "null"
                                  => DecrefAll(m, s).buffer[o] = m.buffer[o]
           /\ MemoryOK(DecrefAll(m, s))
<1> DEFINE R == Released(m, s)
           n == DecrefAll(m, s)
           left(o) == IF o \in InUse(m) \ R THEN m.rc[o] - Lost(m, s, R, o) ELSE 0
<1>1. /\ n.rc = [o \in Mortal |-> left(o)]
      /\ n.items = m.items /\ n.used = m.used /\ n.undefined = m.undefined
      /\ n.buffer = [o \in Object |-> IF o \in R /\ m.buffer[o] # "null"
                                      THEN "freed" ELSE m.buffer[o]]
      /\ n = [m EXCEPT !.rc = n.rc, !.buffer = n.buffer]
  <2>1. m = [rc |-> m.rc, items |-> m.items, buffer |-> m.buffer, used |-> m.used,
             undefined |-> m.undefined]
    BY DEF MemoryOK, Memories
  <2>2. n = [m EXCEPT !.rc = [o \in Mortal |-> left(o)],
                      !.buffer = [o \in Object |-> IF o \in R /\ m.buffer[o] # "null"
                                                  THEN "freed" ELSE m.buffer[o]]]
    BY DEF DecrefAll
  <2> HIDE DEF n, left, R
  <2>3. QED
    BY <2>1, <2>2
<1>2. R \subseteq InUse(m) /\ InUse(m) \subseteq Mortal /\ Mortal \subseteq Object
  BY ReleasedFixed DEF InUse, Mortal
<1>3. ASSUME NEW o \in InUse(m) \ R PROVE left(o) \in Nat /\ left(o) > 0
  <2>1. ~ (m.rc[o] <= Lost(m, s, R, o))
    BY ReleasedFixed
  <2>2. m.rc[o] \in Nat
    BY <1>2 DEF MemoryOK, Memories
  <2>3. Lost(m, s, R, o) \in Nat
    BY <1>2, LostGrows
  <2> HIDE DEF R
  <2>4. QED
    BY <2>1, <2>2, <2>3
<1>4. \A o \in Mortal : left(o) \in Nat /\ (left(o) > 0 <=> o \in InUse(m) \ R)
  <2>1. \A o \in Mortal : o \notin InUse(m) \ R => left(o) = 0
    OBVIOUS
  <2> HIDE DEF left
  <2>2. QED
    BY <1>3, <2>1
<1>5. InUse(n) = InUse(m) \ R
  <2> HIDE DEF left, n, R
  <2> QED
    BY <1>1, <1>2, <1>4 DEF InUse
<1>6. MemoryOK(n)
  <2> HIDE DEF left, n, R
  <2>1. n.rc \in [Mortal -> Nat]
    BY <1>1, <1>4
  <2>2. n.buffer \in [Object -> Buffer]
    BY <1>1 DEF MemoryOK, Memories, Buffer
  <2>3. n \in Memories
    BY <1>1, <2>1, <2>2 DEF MemoryOK, Memories
  <2>4. InUse(n) \subseteq n.used
    BY <1>1, <1>5 DEF MemoryOK, Memories
  <2>5. \A o \in Object : Range(n.items[o]) \subseteq n.used \cup Immortal
    BY <1>1 DEF MemoryOK, Memories
  <2>6. \A o \in Object :
          Kind[o] # "array" \/ n.buffer[o] = "null" \/ o \notin n.used => n.items[o] = <<>>
    <3>1. \A o \in Object : n.buffer[o] = "null" => m.buffer[o] = "null"
      BY <1>1
    <3>2. QED
      BY <1>1, <3>1 DEF MemoryOK, Memories
  <2>7. \A o \in Mortal : n.rc[o] = 0 => n.buffer[o] # "live"
    <3> SUFFICES ASSUME NEW o \in Mortal, n.rc[o] = 0 PROVE n.buffer[o] # "live"
      OBVIOUS
    <3>1. o \notin InUse(m) \ R
      BY <1>1, <1>4
    <3>2. CASE o \in R
      <4>1. n.buffer[o] = IF m.buffer[o] # "null" THEN "freed" ELSE m.buffer[o]
        BY <1>1, <1>2, <3>2
      <4>2. QED
        BY <4>1
    <3>3. CASE o \notin InUse(m)
      <4>1. m.rc[o] = 0
        BY <3>3 DEF InUse, MemoryOK, Memories
      <4>2. m.buffer[o] # "live"
        BY <4>1 DEF MemoryOK, Memories
      <4>3. n.buffer[o] = m.buffer[o] \/ n.buffer[o] = "freed"
        BY <1>1, <1>2
      <4>4. QED
        BY <4>2, <4>3
    <3>4. QED
      BY <3>1, <3>2, <3>3
  <2>8. QED
    BY <2>3, <2>4, <2>5, <2>6, <2>7 DEF MemoryOK, Memories
<1>7. \A o \in InUse(n) : n.buffer[o] = m.buffer[o]
  BY <1>1, <1>2, <1>5
<1>8. \A o \in Object : /\ m.buffer[o] # "null" => n.buffer[o] # "null"
                        /\ o \notin R \/ m.buffer[o] = "null" => n.buffer[o] = m.buffer[o]
  <2> HIDE DEF left, n, R
  <2>1. QED
    BY <1>1
<1>9. QED
  BY <1>1, <1>5, <1>6, <1>7, <1>8

(* The count of an object, less the references in arrays. *)
Balance(m, o) == m.rc[o] - ItemRefs(m, o)

(* The references in arrays in use, as a count over part of items. *)
LEMMA ItemRefsOn ==
    ASSUME NEW m, MemoryOK(m), NEW o
    PROVE  /\ ItemRefs(m, o) = Count(On(m.items, InUse(m)), o)
           /\ ItemRefs(m, o) \in Nat
<1>1. ItemRefs(m, o) = Count(On(m.items, InUse(m)), o)
  BY DEF ItemRefs, On
<1>2. Finite(On(m.items, InUse(m)))
  BY ItemsFinite
<1>3. QED
  BY <1>1, <1>2, PlacesFinite

(* The count of an object is its balance and the references to it in
   arrays. *)
LEMMA BalanceType ==
    ASSUME NEW m, MemoryOK(m), NEW o \in Mortal
    PROVE  /\ m.rc[o] \in Nat /\ ItemRefs(m, o) \in Nat /\ Balance(m, o) \in Int
           /\ m.rc[o] = Balance(m, o) + ItemRefs(m, o)
<1>1. m.rc[o] \in Nat
  BY DEF MemoryOK, Memories
<1>2. QED
  BY <1>1, ItemRefsOn DEF Balance

(* Releasing takes from the balance of each object exactly the references   *)
(* that are released, as long as there are as many.                         *)
LEMMA DecrefAllBalance ==
    ASSUME NEW m, MemoryOK(m), NEW s, IsFiniteSet(DOMAIN s),
           \A o \in Mortal : Balance(m, o) >= Occurrences(s, o)
    PROVE  \A o \in Mortal :
              Balance(DecrefAll(m, s), o) = Balance(m, o) - Occurrences(s, o)
<1> DEFINE R == Released(m, s)
           n == DecrefAll(m, s)
           U == InUse(m)
<1> SUFFICES ASSUME NEW o \in Mortal
             PROVE  Balance(n, o) = Balance(m, o) - Occurrences(s, o)
  OBVIOUS
<1>1. /\ n.items = m.items /\ InUse(n) = U \ R
      /\ n.rc[o] = IF o \in U \ R THEN m.rc[o] - Lost(m, s, R, o) ELSE 0
      /\ MemoryOK(n)
  BY DecrefAllShape
<1>2. R \subseteq U /\ (o \in U => (o \in R <=> m.rc[o] <= Lost(m, s, R, o)))
  BY ReleasedFixed
<1> DEFINE CU == Count(On(m.items, U), o)
           CR == Count(On(m.items, R), o)
           CN == Count(On(m.items, U \ R), o)
<1>3. ItemRefs(m, o) = CU
  BY ItemRefsOn
<1>4. ItemRefs(n, o) = CN
  BY <1>1, ItemRefsOn
<1>5. CU = CR + CN
  <2>1. R \cup (U \ R) = U /\ R \cap (U \ R) = {}
        /\ R \subseteq DOMAIN m.items /\ U \ R \subseteq DOMAIN m.items
    BY <1>2, ItemsFinite
  <2>2. Count(On(m.items, R \cup (U \ R)), o) = CR + CN
    <3> HIDE DEF R, U
    <3> QED
      BY <2>1, ItemsFinite, CountSplit
  <2>3. QED
    BY <2>1, <2>2, Zenon
<1>6. Lost(m, s, R, o) = Occurrences(s, o) + CR /\ Occurrences(s, o) \in Nat /\ CR \in Nat
  BY <1>2, LostCount
<1>7. CN \in Nat
  BY <1>1, <1>4, ItemRefsOn
<1>8. m.rc[o] \in Nat /\ (o \notin U => m.rc[o] = 0)
  BY DEF InUse, MemoryOK, Memories
<1>9. m.rc[o] - CU >= Occurrences(s, o)
  BY <1>3 DEF Balance
<1>10. n.rc[o] - CN = m.rc[o] - CU - Occurrences(s, o)
  <2> HIDE DEF R, n, U, CU, CR, CN
  <2>1. CASE o \in U \ R
    BY <1>1, <1>5, <1>6, <1>7, <1>8, <2>1
  <2>2. CASE o \in R
    <3>1. m.rc[o] <= Occurrences(s, o) + CR /\ n.rc[o] = 0
      BY <1>1, <1>2, <1>6, <2>2
    <3>2. QED
      BY <1>5, <1>6, <1>7, <1>8, <1>9, <3>1
  <2>3. CASE o \notin U
    <3>1. m.rc[o] = 0 /\ n.rc[o] = 0
      BY <1>1, <1>8, <2>3
    <3>2. 0 - CU >= Occurrences(s, o)
      BY <1>9, <3>1
    <3>3. CU = 0 /\ CN = 0 /\ Occurrences(s, o) = 0
      BY <1>5, <1>6, <1>7, <3>2
    <3>4. QED
      BY <3>1, <3>3
  <2>4. o \in U \ R \/ o \in R \/ o \notin U
    OBVIOUS
  <2>5. QED
    BY <2>1, <2>2, <2>3, <2>4, Zenon
<1>11. QED
  BY <1>3, <1>4, <1>10 DEF Balance

-----------------------------------------------------------------------------
(* Counting objects.                                                       *)

(* A memory that is like another but for its counts. *)
LEMMA RecountShape ==
    ASSUME NEW m, MemoryOK(m), NEW rc \in [Mortal -> Nat],
           \A o \in Mortal : rc[o] >= m.rc[o] /\ (rc[o] > 0 => o \in m.used)
    PROVE  MemoryOK([m EXCEPT !.rc = rc])
<1> DEFINE n == [m EXCEPT !.rc = rc]
<1>1. /\ n.rc = rc /\ n.items = m.items /\ n.buffer = m.buffer /\ n.used = m.used
      /\ n \in Memories
  BY DEF MemoryOK, Memories
<1>2. InUse(n) \subseteq n.used
  BY <1>1 DEF InUse
<1>3. ASSUME NEW o \in Mortal, n.rc[o] = 0 PROVE n.buffer[o] # "live"
  <2>1. m.rc[o] = 0
    BY <1>1, <1>3 DEF MemoryOK, Memories
  <2>2. QED
    BY <1>1, <2>1 DEF MemoryOK
<1> HIDE DEF n
<1>4. MemoryOK(n)
  BY <1>1, <1>2, <1>3 DEF MemoryOK
<1>5. QED
  BY <1>4 DEF n

(* Counting a sequence of objects changes their counts only, each by its
   occurrences. *)
LEMMA IncrefAllShape ==
    ASSUME NEW m, MemoryOK(m), NEW s, IsFiniteSet(DOMAIN s),
           \A i \in DOMAIN s : s[i] \in m.used \cup Immortal
    PROVE  /\ MemoryOK(IncrefAll(m, s))
           /\ IncrefAll(m, s).items = m.items
           /\ IncrefAll(m, s).buffer = m.buffer
           /\ IncrefAll(m, s).used = m.used
           /\ IncrefAll(m, s).undefined = m.undefined
           /\ \A o \in Mortal : IncrefAll(m, s).rc[o] = m.rc[o] + Occurrences(s, o)
<1> DEFINE rc == [o \in Mortal |-> m.rc[o] + Occurrences(s, o)]
           n == [m EXCEPT !.rc = rc]
<1>1. IncrefAll(m, s) = n
  BY DEF IncrefAll
<1>2. \A o \in Mortal : m.rc[o] \in Nat /\ Occurrences(s, o) \in Nat
  BY OccurrencesType DEF MemoryOK, Memories
<1>3. rc \in [Mortal -> Nat] /\ \A o \in Mortal : rc[o] >= m.rc[o]
  BY <1>2
<1>4. ASSUME NEW o \in Mortal, rc[o] > 0, o \notin m.used PROVE FALSE
  <2>1. m.rc[o] = 0
    BY <1>2, <1>4 DEF MemoryOK, InUse
  <2>2. Occurrences(s, o) # 0
    BY <1>2, <1>4, <2>1
  <2>3. PICK i \in DOMAIN s : s[i] = o
    BY <2>2, OccurrencesZero
  <2>4. QED
    BY <1>4, <2>3 DEF Mortal
<1>5. MemoryOK(n)
  <2> HIDE DEF rc
  <2> QED
    BY <1>3, <1>4, RecountShape
<1>6. QED
  BY <1>1, <1>5, ZenonT(30) DEF MemoryOK, Memories

(* An object that is free may be counted again, as long as it holds nothing. *)
LEMMA IncrefAllBalance ==
    ASSUME NEW m, MemoryOK(m), NEW s, IsFiniteSet(DOMAIN s),
           \A i \in DOMAIN s : \/ s[i] \in InUse(m) \cup Immortal
                               \/ s[i] \in m.used /\ m.items[s[i]] = <<>>
    PROVE  /\ MemoryOK(IncrefAll(m, s))
           /\ InUse(m) \subseteq InUse(IncrefAll(m, s))
           /\ \A o \in Mortal : /\ Balance(IncrefAll(m, s), o) = Balance(m, o) + Occurrences(s, o)
                               /\ Occurrences(s, o) \in Nat
<1> DEFINE n == IncrefAll(m, s)
           F == On(m.items, InUse(n))
<1>1. InUse(m) \subseteq m.used
  BY DEF MemoryOK
<1>2. /\ MemoryOK(n) /\ n.items = m.items
      /\ \A o \in Mortal : n.rc[o] = m.rc[o] + Occurrences(s, o)
  BY <1>1, IncrefAllShape
<1>3. \A o \in Mortal : m.rc[o] \in Nat /\ Occurrences(s, o) \in Nat
  BY OccurrencesType DEF MemoryOK, Memories
<1> HIDE DEF n
<1>4. InUse(m) \subseteq InUse(n)
  BY <1>2, <1>3 DEF InUse
<1>5. ASSUME NEW o \in InUse(n) \ InUse(m) PROVE m.items[o] = <<>>
  <2>1. o \in Mortal /\ m.rc[o] = 0
    BY <1>3, <1>5 DEF InUse
  <2>2. Occurrences(s, o) # 0
    BY <1>2, <1>3, <1>5, <2>1 DEF InUse
  <2>3. PICK i \in DOMAIN s : s[i] = o
    BY <2>2, OccurrencesZero
  <2>4. QED
    BY <1>5, <2>1, <2>3 DEF Mortal
<1>6. ASSUME NEW o \in Mortal PROVE ItemRefs(n, o) = ItemRefs(m, o) /\ ItemRefs(m, o) \in Nat
  <2>1. Finite(F) /\ DOMAIN F = InUse(n)
    BY <1>2, ItemsFinite DEF On
  <2>2. ItemRefs(n, o) = Count(F, o)
    BY <1>2, ItemRefsOn
  <2>3. ItemRefs(m, o) = Count(On(m.items, InUse(m)), o) /\ ItemRefs(m, o) \in Nat
    BY ItemRefsOn
  <2>4. On(F, InUse(m)) = On(m.items, InUse(m))
    BY <1>4 DEF On
  <2>5. Count(On(F, InUse(n) \ InUse(m)), o) = 0
    <3>1. \A k \in InUse(n) \ InUse(m) : DOMAIN F[k] = {}
      BY <1>5 DEF On
    <3>2. Finite(On(F, InUse(n) \ InUse(m)))
      <4> HIDE DEF F
      <4> QED
        BY <2>1, OnFinite
    <3>3. QED
      <4> HIDE DEF F
      <4> QED
        BY <3>1, <3>2, CountZero DEF On
  <2> HIDE DEF F
  <2>6. Count(F, o) = Count(On(F, InUse(m)), o) + Count(On(F, InUse(n) \ InUse(m)), o)
        /\ Count(On(F, InUse(m)), o) \in Nat
    <3>1. InUse(m) \in SUBSET DOMAIN F
      BY <1>4, <2>1
    <3>2. /\ Count(F, o) = Count(On(F, InUse(m)), o) + Count(On(F, DOMAIN F \ InUse(m)), o)
          /\ Count(On(F, InUse(m)), o) \in Nat
      <4>1. Finite(F)
        BY <2>1
      <4>2. QED
        BY <3>1, <4>1, CountPart
    <3>3. QED
      BY <2>1, <3>2
  <2>7. QED
    BY <2>2, <2>3, <2>4, <2>5, <2>6
<1>7. \A o \in Mortal : Balance(n, o) = Balance(m, o) + Occurrences(s, o)
  BY <1>2, <1>3, <1>6 DEF Balance
<1>8. QED
  BY <1>2, <1>3, <1>4, <1>7 DEF n

(* One object is counted like a sequence of one. *)
LEMMA IncrefIsAll ==
    ASSUME NEW m, MemoryOK(m), NEW o
    PROVE  Incref(m, o) = IncrefAll(m, <<o>>) \/ o \notin Object
<1> SUFFICES ASSUME o \in Object PROVE Incref(m, o) = IncrefAll(m, <<o>>)
  OBVIOUS
<1>1. m.rc \in [Mortal -> Nat] /\ m = [m EXCEPT !.rc = m.rc]
  BY DEF MemoryOK, Memories
<1>2. CASE o \in Immortal
  <2>1. \A p \in Mortal : Occurrences(<<o>>, p) = 0
    BY <1>2, OccurrencesOne DEF Mortal, One
  <2>2. [p \in Mortal |-> m.rc[p] + Occurrences(<<o>>, p)] = m.rc
    BY <1>1, <2>1
  <2>3. IncrefAll(m, <<o>>) = [m EXCEPT !.rc = m.rc]
    BY <2>2 DEF IncrefAll
  <2>4. QED
    BY <1>1, <1>2, <2>3 DEF Incref
<1>3. CASE o \notin Immortal
  <2>1. o \in Mortal /\ m.rc[o] \in Nat
    BY <1>1, <1>3 DEF Mortal
  <2>2. \A p \in Mortal : Occurrences(<<o>>, p) = IF p = o THEN 1 ELSE 0
    BY OccurrencesOne DEF One
  <2>3. [p \in Mortal |-> m.rc[p] + Occurrences(<<o>>, p)] = [m.rc EXCEPT ![o] = @ + 1]
    BY <1>1, <2>1, <2>2
  <2>4. IncrefAll(m, <<o>>) = [m EXCEPT !.rc = [m.rc EXCEPT ![o] = @ + 1]]
    BY <2>3 DEF IncrefAll
  <2>5. [m EXCEPT !.rc[o] = @ + 1] = [m EXCEPT !.rc = [m.rc EXCEPT ![o] = @ + 1]]
    OBVIOUS
  <2>6. QED
    BY <1>3, <2>4, <2>5 DEF Incref
<1>4. QED
  BY <1>2, <1>3

-----------------------------------------------------------------------------
(* The references in arrays, when one of them changes or one more is in use. *)

(* The references in arrays when one array in use gets new elements. *)
LEMMA ItemRefsSet ==
    ASSUME NEW m, MemoryOK(m), NEW n, MemoryOK(n), InUse(n) = InUse(m), NEW a \in InUse(m),
           \A b \in InUse(m) \ {a} : n.items[b] = m.items[b], NEW o
    PROVE  /\ ItemRefs(n, o) = ItemRefs(m, o) - Occurrences(m.items[a], o)
                                             + Occurrences(n.items[a], o)
           /\ Occurrences(m.items[a], o) \in Nat /\ Occurrences(n.items[a], o) \in Nat
<1> DEFINE F == On(m.items, InUse(m))
           G == On(n.items, InUse(m))
<1>1. Finite(F) /\ Finite(G)
  BY ItemsFinite
<1>2. DOMAIN F = InUse(m) /\ DOMAIN G = InUse(m)
  BY DEF On
<1>3. \A b \in InUse(m) : F[b] = m.items[b] /\ G[b] = n.items[b]
  BY DEF On
<1>4. ItemRefs(m, o) = Count(F, o) /\ ItemRefs(n, o) = Count(G, o)
  BY ItemRefsOn
<1> HIDE DEF F, G
<1>5. Count(G, o) = Count(F, o) - Occurrences(F[a], o) + Occurrences(G[a], o)
  BY <1>1, <1>2, <1>3, CountUpdate
<1>6. Occurrences(F[a], o) \in Nat /\ Occurrences(G[a], o) \in Nat
  BY <1>1, <1>2, CountMember
<1>7. QED
  BY <1>3, <1>4, <1>5, <1>6

(* The references in arrays when one more slot is in use. *)
LEMMA ItemRefsAdd ==
    ASSUME NEW m, MemoryOK(m), NEW n, MemoryOK(n), NEW a \in Mortal, a \notin InUse(m),
           InUse(n) = InUse(m) \cup {a},
           \A b \in InUse(m) : n.items[b] = m.items[b], NEW o
    PROVE  ItemRefs(n, o) = ItemRefs(m, o) + Occurrences(n.items[a], o)
<1> DEFINE F == On(n.items, InUse(n))
<1>1. Finite(F) /\ DOMAIN F = InUse(n) /\ a \in DOMAIN F /\ F[a] = n.items[a]
  BY ItemsFinite DEF On
<1>2. On(F, DOMAIN F \ {a}) = On(m.items, InUse(m))
  <2>1. DOMAIN F \ {a} = InUse(m)
    BY <1>1
  <2>2. \A b \in InUse(m) : F[b] = m.items[b]
    BY DEF On
  <2> HIDE DEF F
  <2>3. QED
    BY <2>1, <2>2 DEF On
<1>3. ItemRefs(m, o) = Count(On(m.items, InUse(m)), o) /\ ItemRefs(m, o) \in Nat
      /\ ItemRefs(n, o) = Count(F, o)
  BY ItemRefsOn
<1> HIDE DEF F
<1>4. Count(F, o) = Occurrences(F[a], o) + Count(On(F, DOMAIN F \ {a}), o)
      /\ Occurrences(F[a], o) \in Nat
  BY <1>1, CountMember
<1>5. QED
  BY <1>1, <1>2, <1>3, <1>4

-----------------------------------------------------------------------------
(* New objects.                                                            *)

(* One more object is in use, and refers to immortal objects only. *)
LEMMA NewBalance ==
    ASSUME NEW m, MemoryOK(m), NEW n, MemoryOK(n), NEW o \in Mortal, o \notin InUse(m),
           InUse(n) = InUse(m) \cup {o}, Range(n.items[o]) \subseteq Immortal,
           \A a \in InUse(m) : n.items[a] = m.items[a],
           \A p \in Mortal : n.rc[p] = m.rc[p] + One(p = o),
           NEW p \in Mortal
    PROVE  Balance(n, p) = Balance(m, p) + One(p = o)
<1>1. ItemRefs(n, p) = ItemRefs(m, p) + Occurrences(n.items[o], p)
  BY ItemRefsAdd
<1>2. Occurrences(n.items[o], p) = 0
  <2>1. n.items[o] \in Seq(Object)
    BY DEF MemoryOK, Memories, Mortal
  <2>2. \A i \in DOMAIN n.items[o] : n.items[o][i] # p
    BY DEF Range, Mortal
  <2>3. QED
    BY <2>1, <2>2, SeqFinite, OccurrencesZero
<1>3. m.rc[p] \in Nat /\ ItemRefs(m, p) \in Nat /\ One(p = o) \in Nat
  BY ItemRefsOn DEF One, MemoryOK, Memories
<1>4. QED
  BY <1>1, <1>2, <1>3 DEF Balance

(* n is m with the slot o taken, for an object with the items s. *)
Taken(m, n, o, s) ==
    /\ n \in Memories
    /\ n.rc = [m.rc EXCEPT ![o] = 1]
    /\ n.items = [m.items EXCEPT ![o] = s]
    /\ n.used = m.used \cup {o}
    /\ \A p \in Object \ {o} : n.buffer[p] = m.buffer[p]

(* A free slot is taken, for an object that refers to immortal objects only. *)
LEMMA TakeSlot ==
    ASSUME NEW m, MemoryOK(m), NEW o \in Mortal, m.rc[o] = 0,
           NEW s \in Seq(Object), Range(s) \subseteq Immortal,
           NEW n, Taken(m, n, o, s), s # <<>> => Kind[o] = "array" /\ n.buffer[o] # "null"
    PROVE  /\ MemoryOK(n)
           /\ InUse(n) = InUse(m) \cup {o}
           /\ o \notin InUse(m)
           /\ \A p \in Mortal : Balance(n, p) = Balance(m, p) + One(p = o)
<1>1. /\ m.rc \in [Mortal -> Nat] /\ m.items \in [Object -> Seq(Object)]
      /\ m.buffer \in [Object -> Buffer] /\ m.used \subseteq Mortal
      /\ o \in Object
  BY DEF MemoryOK, Memories, Mortal
<1>3. InUse(n) = InUse(m) \cup {o} /\ o \notin InUse(m)
  BY <1>1 DEF InUse, Taken
<1>4. MemoryOK(n)
  <2>1. InUse(n) \subseteq n.used
    BY <1>3 DEF MemoryOK, Taken
  <2>2. \A p \in Object : Range(n.items[p]) \subseteq n.used \cup Immortal
    BY <1>1 DEF MemoryOK, Taken
  <2>3. \A p \in Object :
          Kind[p] # "array" \/ n.buffer[p] = "null" \/ p \notin n.used => n.items[p] = <<>>
    BY <1>1 DEF MemoryOK, Taken
  <2>4. \A p \in Mortal : n.rc[p] = 0 => n.buffer[p] # "live"
    BY <1>1 DEF MemoryOK, Mortal, Taken
  <2>5. QED
    BY <2>1, <2>2, <2>3, <2>4 DEF MemoryOK, Taken
<1>5. ASSUME NEW p \in Mortal PROVE Balance(n, p) = Balance(m, p) + One(p = o)
  <2>1. \A a \in InUse(m) : n.items[a] = m.items[a]
    BY <1>1, <1>3 DEF InUse, Mortal, Taken
  <2>2. \A q \in Mortal : n.rc[q] = m.rc[q] + One(q = o)
    BY <1>1 DEF One, Taken
  <2>3. Range(n.items[o]) \subseteq Immortal
    BY <1>1 DEF Taken
  <2>4. QED
    BY <1>3, <1>4, <2>1, <2>2, <2>3, NewBalance
<1>6. QED
  BY <1>3, <1>4, <1>5

(* The smallest number of a set of numbers. *)
LEMMA LeastNat ==
    ASSUME NEW I \in SUBSET Nat, I # {}
    PROVE  \E k \in I : \A j \in I : k <= j
<1> DEFINE Less == OpToRel(<, Nat)
<1>1. PICK k \in I : \A j \in I : <<j, k>> \notin Less
  <2>1. IsWellFoundedOn(Less, Nat)
    BY NatLessThanWellFounded
  <2> HIDE DEF Less
  <2>2. QED
    BY <2>1, WFMin
<1>2. ASSUME NEW j \in I PROVE k <= j
  <2>1. j \in Nat /\ k \in Nat
    OBVIOUS
  <2>2. ~ j < k
    BY <1>1, <2>1 DEF OpToRel
  <2> HIDE DEF Less
  <2>3. QED
    BY <2>1, <2>2
<1>3. QED
  BY <1>2

(* A set of numbers that is not empty has a least one. *)
LEMMA MinOfNats ==
    ASSUME NEW I \in SUBSET Nat, I # {}
    PROVE  Min(I) \in I
<1>1. PICK k \in I : \A j \in I : k <= j
  BY LeastNat
<1>2. QED
  BY <1>1 DEF Min

(* The pool returns one of its free slots. *)
LEMMA NextObjectFree ==
    ASSUME NEW m, MemoryOK(m), NEW kind \in DOMAIN Pool, HasFree(m, kind)
    PROVE  /\ NextObject(m, kind) \in Mortal
           /\ Kind[NextObject(m, kind)] = kind
           /\ m.rc[NextObject(m, kind)] = 0
<1> DEFINE I == {i \in 1 .. Len(Pool[kind]) : m.rc[Pool[kind][i]] = 0}
<1>1. Pool[kind] \in Seq(Mortal) /\ \A i \in DOMAIN Pool[kind] : Kind[Pool[kind][i]] = kind
  BY MemoryAssumption DEF Mortal
<1>2. I # {} /\ I \subseteq Nat /\ I \subseteq DOMAIN Pool[kind]
  BY <1>1 DEF HasFree
<1>3. Min(I) \in I
  <2> HIDE DEF I
  <2> QED
    BY <1>2, MinOfNats
<1>4. FreeSlot(m, kind) = Min(I)
  BY <1>2 DEF FreeSlot, SelectInSeq
<1>5. QED
  BY <1>1, <1>2, <1>3, <1>4 DEF NextObject

(* Taking a free slot without elements: its balance is 1, and nobody else's
   changes. *)
LEMMA TakeEmptySlot ==
    ASSUME NEW m, MemoryOK(m), NEW o \in Mortal, m.rc[o] = 0, NEW n, Taken(m, n, o, <<>>)
    PROVE  /\ MemoryOK(n)
           /\ InUse(n) = InUse(m) \cup {o}
           /\ o \notin InUse(m)
           /\ \A p \in Mortal : Balance(n, p) = Balance(m, p) + One(p = o)
<1> DEFINE s == <<>>
<1>1. s \in Seq(Object)
  OBVIOUS
<1>2. Range(s) \subseteq Immortal
  BY DEF Range
<1>3. s # <<>> => Kind[o] = "array" /\ n.buffer[o] # "null"
  OBVIOUS
<1>4. Taken(m, n, o, s)
  OBVIOUS
<1> HIDE DEF s
<1>5. QED
  BY <1>1, <1>2, <1>3, <1>4, TakeSlot

(* n is m with a new object o, to which there is one reference. *)
IsNew(m, n, o) ==
    /\ o \in Mortal
    /\ o \notin InUse(m)
    /\ MemoryOK(n)
    /\ m.used \subseteq n.used
    /\ InUse(n) = InUse(m) \cup {o}
    /\ \A p \in Mortal : Balance(n, p) = Balance(m, p) + One(p = o)
    /\ \A p \in Object \ {o} : n.buffer[p] = m.buffer[p]
    /\ n.buffer[o] = "live" \/ n.buffer[o] = "null"
    /\ Kind[o] = "function" => n.buffer[o] = "null"

(* A slot that is free points to no live buffer, so that nothing but the    *)
(* slot changes when it is taken.                                           *)
LEMMA AllocShape ==
    ASSUME NEW m, MemoryOK(m), NEW kind \in DOMAIN Pool, HasFree(m, kind)
    PROVE  LET o == NextObject(m, kind)
           IN  /\ Taken(m, Alloc(m, kind), o, <<>>)
               /\ Kind[o] = kind /\ o \in Mortal /\ m.rc[o] = 0
               /\ Alloc(m, kind).used = m.used \cup {o}
               /\ Alloc(m, kind).buffer[o]
                     = IF kind \in {"float", "native"} THEN "live" ELSE "null"
               /\ Alloc(m, kind).undefined \in BOOLEAN
<1> DEFINE o == NextObject(m, kind)
           b == IF kind \in {"float", "native"} THEN "live" ELSE "null"
           clean == IF o \in m.used /\ kind # "int" THEN Recycle(m, o) ELSE m
           n == Alloc(m, kind)
<1>1. o \in Mortal /\ Kind[o] = kind /\ m.rc[o] = 0 /\ o \in Object
  BY NextObjectFree DEF Mortal
<1>2. /\ m \in Memories /\ m.buffer[o] # "live"
      /\ kind = "int" \/ o \notin m.used => m.items[o] = <<>>
  BY <1>1 DEF MemoryOK
<1>3. Recycle(m, o) = [m EXCEPT !.undefined = @ \/ m.buffer[o] = "freed",
                               !.buffer[o] = "null",
                               !.items[o] = <<>>]
  BY <1>2 DEF Recycle
<1>4. /\ clean \in Memories /\ clean.rc = m.rc /\ clean.used = m.used
      /\ clean.items = [m.items EXCEPT ![o] = <<>>]
      /\ \A p \in Object \ {o} : clean.buffer[p] = m.buffer[p]
  <2> HIDE DEF o
  <2>1. CASE o \in m.used /\ kind # "int"
    <3> DEFINE u == m.undefined \/ m.buffer[o] = "freed"
    <3>1. clean = [m EXCEPT !.undefined = u, !.buffer[o] = "null", !.items[o] = <<>>]
      BY <1>3, <2>1
    <3>3. u \in BOOLEAN
      OBVIOUS
    <3> HIDE DEF clean, u
    <3>2. clean \in Memories
      <4>1. /\ [m.items EXCEPT ![o] = <<>>] \in [Object -> Seq(Object)]
            /\ [m.buffer EXCEPT ![o] = "null"] \in [Object -> Buffer]
        BY <1>1, <1>2 DEF Memories, Buffer
      <4>2. clean = [rc |-> m.rc, items |-> [m.items EXCEPT ![o] = <<>>],
                     buffer |-> [m.buffer EXCEPT ![o] = "null"],
                     used |-> m.used, undefined |-> u]
        BY <1>2, <3>1 DEF Memories
      <4>3. QED
        BY <1>2, <3>3, <4>1, <4>2 DEF Memories
    <3>4. QED
      BY <1>1, <1>2, <3>1, <3>2 DEF Memories
  <2>2. CASE ~ (o \in m.used /\ kind # "int")
    <3>1. clean = m
      BY <2>2
    <3>2. m.items[o] = <<>>
      BY <1>2, <2>2
    <3>3. [m.items EXCEPT ![o] = <<>>] = m.items
      BY <1>2, <3>2 DEF Memories
    <3> HIDE DEF clean
    <3>4. QED
      BY <1>2, <3>1, <3>3
  <2>3. QED
    BY <2>1, <2>2
<1>5. n = [clean EXCEPT !.rc[o] = 1, !.used = @ \cup {o}, !.buffer[o] = b]
  BY DEF Alloc
<1>6. b \in Buffer
  BY DEF Buffer
<1> HIDE DEF clean, b, n, o
<1>7. n \in Memories
  BY <1>1, <1>4, <1>5, <1>6 DEF Memories
<1>8. /\ n.rc = [m.rc EXCEPT ![o] = 1] /\ n.used = m.used \cup {o}
      /\ n.items = [m.items EXCEPT ![o] = <<>>]
      /\ \A p \in Object \ {o} : n.buffer[p] = m.buffer[p]
  BY <1>1, <1>4, <1>5 DEF Memories
<1>9. n.buffer[o] = b /\ n.undefined \in BOOLEAN
  BY <1>1, <1>4, <1>5, <1>7 DEF Memories
<1>10. QED
  BY <1>1, <1>7, <1>8, <1>9 DEF Taken, n, o, b

(* A new object has one reference, nothing refers to it, and no other count *)
(* changes.                                                                 *)
LEMMA AllocBalance ==
    ASSUME NEW m, MemoryOK(m), NEW kind \in DOMAIN Pool, HasFree(m, kind)
    PROVE  /\ IsNew(m, Alloc(m, kind), NextObject(m, kind))
           /\ Alloc(m, kind).items = [m.items EXCEPT ![NextObject(m, kind)] = <<>>]
           /\ Kind[NextObject(m, kind)] = kind
<1> DEFINE o == NextObject(m, kind)
           n == Alloc(m, kind)
<1>1. /\ Taken(m, n, o, <<>>) /\ Kind[o] = kind /\ o \in Mortal /\ m.rc[o] = 0
      /\ n.buffer[o] = IF kind \in {"float", "native"} THEN "live" ELSE "null"
  BY AllocShape
<1>2. /\ n.buffer[o] = "live" \/ n.buffer[o] = "null"
      /\ Kind[o] = "function" => n.buffer[o] = "null"
  <2> HIDE DEF o, n
  <2>1. QED
    BY <1>1
<1> HIDE DEF o, n
<1>3. /\ MemoryOK(n) /\ InUse(n) = InUse(m) \cup {o} /\ o \notin InUse(m)
      /\ \A p \in Mortal : Balance(n, p) = Balance(m, p) + One(p = o)
  BY <1>1, TakeEmptySlot
<1>4. QED
  BY <1>1, <1>2, <1>3 DEF IsNew, Taken, o, n

(* heap_alloc_array_with_size: a new array whose elements are none. *)
LEMMA AllocArrayBalance ==
    ASSUME NEW m, MemoryOK(m), NEW size \in Nat, HasFree(m, "array")
    PROVE  LET a == NextObject(m, "array")
               n == AllocArray(m, size)
           IN  /\ IsNew(m, n, a)
               /\ n.items = [m.items EXCEPT ![a] = [i \in 1 .. size |-> NoneObject]]
               /\ Kind[a] = "array" /\ n.buffer[a] = "live"
               /\ a \in n.used
<1> DEFINE a == NextObject(m, "array")
           l == Alloc(m, "array")
           s == [i \in 1 .. size |-> NoneObject]
           n == AllocArray(m, size)
<1>1. "array" \in DOMAIN Pool
  BY MemoryAssumption
<1>2. /\ Taken(m, l, a, <<>>) /\ Kind[a] = "array" /\ a \in Mortal /\ m.rc[a] = 0
      /\ l.used = m.used \cup {a}
  BY <1>1, AllocShape
<1>3. n = [l EXCEPT !.items[a] = s, !.buffer[a] = "live"]
  BY DEF AllocArray
<1>4. s \in Seq(Object) /\ Range(s) \subseteq Immortal
  <2>1. NoneObject \in Object /\ NoneObject \in Immortal
    BY MemoryAssumption
  <2>2. s \in [1 .. size -> Object]
    BY <2>1
  <2>3. s \in Seq(Object)
    <3> HIDE DEF s
    <3> QED
      BY <2>2
  <2>4. \A i \in DOMAIN s : s[i] = NoneObject
    OBVIOUS
  <2>5. Range(s) \subseteq Immortal
    <3> HIDE DEF s
    <3> QED
      BY <2>1, <2>4 DEF Range
  <2>6. QED
    BY <2>3, <2>5
<1>5. a \in Object /\ m \in Memories
  BY <1>2 DEF Mortal, MemoryOK
<1> HIDE DEF a, l, s, n
<1>6. n \in Memories
  BY <1>2, <1>3, <1>4, <1>5 DEF Taken, Memories, Buffer
<1>7. n.items = [m.items EXCEPT ![a] = s] /\ n.buffer[a] = "live"
  BY <1>2, <1>3, <1>5 DEF Taken, Memories
<1>8. Taken(m, n, a, s)
  BY <1>2, <1>3, <1>5, <1>6, <1>7 DEF Taken, Memories
<1>9. /\ MemoryOK(n) /\ InUse(n) = InUse(m) \cup {a} /\ a \notin InUse(m)
      /\ \A p \in Mortal : Balance(n, p) = Balance(m, p) + One(p = a)
  <2>1. n.buffer[a] # "null"
    BY <1>7
  <2>2. QED
    BY <1>2, <1>4, <1>8, <2>1, TakeSlot
<1>10. a \in n.used
  BY <1>8 DEF Taken
<1>11. IsNew(m, n, a)
  <2>1. Kind[a] # "function"
    BY <1>2
  <2>2. QED
    BY <1>2, <1>7, <1>8, <1>9, <2>1 DEF IsNew, Taken
<1>12. QED
  BY <1>2, <1>7, <1>10, <1>11 DEF a, s, n

(* heap_alloc_float_from_bf: a slot that was never used before. *)
LEMMA AllocFloatBalance ==
    ASSUME NEW m, MemoryOK(m), HasFresh(m)
    PROVE  /\ IsNew(m, AllocFloatFromBf(m), FreshFloat(m))
           /\ AllocFloatFromBf(m).items = m.items
           /\ Kind[FreshFloat(m)] = "float"
<1> DEFINE o == FreshFloat(m)
           n == AllocFloatFromBf(m)
           I == {i \in 1 .. Len(Pool["float"]) : Pool["float"][i] \notin m.used}
<1>1. Pool["float"] \in Seq(Mortal)
      /\ \A i \in DOMAIN Pool["float"] : Kind[Pool["float"][i]] = "float"
  BY MemoryAssumption DEF Mortal
<1>2. I # {} /\ I \subseteq Nat /\ I \subseteq DOMAIN Pool["float"]
  BY <1>1 DEF HasFresh
<1>3. Min(I) \in I
  <2> HIDE DEF I
  <2> QED
    BY <1>2, MinOfNats
<1>4. FreshFloat(m) = Pool["float"][Min(I)]
  BY <1>2 DEF FreshFloat, SelectInSeq
<1>5. o \in Mortal /\ Kind[o] = "float" /\ o \notin m.used /\ o \in Object
  <2>1. PICK i \in I : o = Pool["float"][i]
    <3> HIDE DEF I
    <3> QED
      BY <1>3, <1>4
  <2>2. i \in DOMAIN Pool["float"] /\ Pool["float"][i] \in Mortal
    BY <1>1
  <2> HIDE DEF o
  <2>3. QED
    BY <1>1, <2>1, <2>2 DEF Mortal
<1>6. m.rc[o] = 0 /\ m.items[o] = <<>> /\ m \in Memories
  BY <1>5 DEF MemoryOK, InUse, Memories
<1>7. n = [m EXCEPT !.rc[o] = 1, !.used = @ \cup {o}, !.buffer[o] = "live"]
  BY DEF AllocFloatFromBf
<1> HIDE DEF o, n
<1>8. n \in Memories /\ n.items = m.items
  BY <1>5, <1>6, <1>7 DEF Memories, Buffer
<1>9. Taken(m, n, o, <<>>)
  <2>1. m.items = [m.items EXCEPT ![o] = <<>>]
    BY <1>6 DEF Memories
  <2>2. QED
    BY <1>5, <1>6, <1>7, <1>8, <2>1 DEF Taken, Memories
<1>11. /\ MemoryOK(n) /\ InUse(n) = InUse(m) \cup {o} /\ o \notin InUse(m)
       /\ \A p \in Mortal : Balance(n, p) = Balance(m, p) + One(p = o)
  BY <1>5, <1>6, <1>9, TakeEmptySlot
<1>12. n.buffer[o] = "live" /\ Kind[o] # "function"
  BY <1>5, <1>6, <1>7 DEF Memories
<1>13. QED
  BY <1>5, <1>8, <1>9, <1>11, <1>12 DEF IsNew, Taken, o, n

-----------------------------------------------------------------------------
(* The items of an array.                                                  *)

(* n is m but for the items of the array a in use, which are s. *)
Rewritten(m, n, a, s) ==
    /\ n \in Memories
    /\ n.rc = m.rc
    /\ n.items = [m.items EXCEPT ![a] = s]
    /\ n.used = m.used
    /\ \A p \in Object \ {a} : n.buffer[p] = m.buffer[p]
    /\ n.buffer[a] = "null" => s = <<>>

(* A memory with other items and another buffer field. *)
LEMMA MemoryWith ==
    ASSUME NEW m \in Memories, NEW x, NEW y
    PROVE  /\ [m EXCEPT !.items = x] = [rc |-> m.rc, items |-> x, buffer |-> m.buffer,
                                       used |-> m.used, undefined |-> m.undefined]
           /\ [m EXCEPT !.items = x, !.buffer = y] =
                 [rc |-> m.rc, items |-> x, buffer |-> y,
                  used |-> m.used, undefined |-> m.undefined]
<1>1. PICK rc \in [Mortal -> Nat], items \in [Object -> Seq(Object)],
           buffer \in [Object -> Buffer], used \in SUBSET Mortal, undefined \in BOOLEAN :
        m = [rc |-> rc, items |-> items, buffer |-> buffer, used |-> used,
             undefined |-> undefined]
  BY DEF Memories
<1>2. [m EXCEPT !.items = x] = [rc |-> m.rc, items |-> x, buffer |-> m.buffer,
                                used |-> m.used, undefined |-> m.undefined]
  BY <1>1
<1> DEFINE z == [m EXCEPT !.items = x]
<1>3. [z EXCEPT !.buffer = y] =
         [rc |-> m.rc, items |-> x, buffer |-> y, used |-> m.used, undefined |-> m.undefined]
  <2>1. z = [rc |-> rc, items |-> x, buffer |-> buffer, used |-> used,
             undefined |-> undefined]
    BY <1>1
  <2>2. m.rc = rc /\ m.used = used /\ m.undefined = undefined
    BY <1>1
  <2> HIDE DEF z
  <2>3. QED
    BY <2>1, <2>2
<1>4. QED
  BY <1>2, <1>3

(* Writing the elements of one array is what Rewritten says. *)
LEMMA RewriteShape ==
    ASSUME NEW m \in Memories, NEW a \in Object, NEW s \in Seq(Object), NEW b \in Buffer,
           b = "null" => s = <<>>
    PROVE  /\ Rewritten(m, [m EXCEPT !.items[a] = s, !.buffer[a] = b], a, s)
           /\ m.buffer[a] # "null" => Rewritten(m, [m EXCEPT !.items[a] = s], a, s)
<1> DEFINE New(c) == [rc |-> m.rc, items |-> [m.items EXCEPT ![a] = s], buffer |-> c,
                      used |-> m.used, undefined |-> m.undefined]
<1>1. /\ [m.items EXCEPT ![a] = s] \in [Object -> Seq(Object)]
      /\ [m.buffer EXCEPT ![a] = b] \in [Object -> Buffer]
      /\ m.buffer \in [Object -> Buffer]
  BY DEF Memories
<1>2. New([m.buffer EXCEPT ![a] = b]) \in Memories /\ New(m.buffer) \in Memories
  BY <1>1 DEF Memories
<1>3. Rewritten(m, New([m.buffer EXCEPT ![a] = b]), a, s)
  BY <1>1, <1>2 DEF Rewritten
<1>4. m.buffer[a] # "null" => Rewritten(m, New(m.buffer), a, s)
  BY <1>1, <1>2 DEF Rewritten
<1>5. [m EXCEPT !.items[a] = s, !.buffer[a] = b] = New([m.buffer EXCEPT ![a] = b])
  <2> DEFINE x == [m.items EXCEPT ![a] = s]
             y == [m.buffer EXCEPT ![a] = b]
  <2>1. [m EXCEPT !.items[a] = s, !.buffer[a] = b] = [m EXCEPT !.items = x, !.buffer = y]
    OBVIOUS
  <2> HIDE DEF x, y
  <2>2. [m EXCEPT !.items = x, !.buffer = y] =
           [rc |-> m.rc, items |-> x, buffer |-> y, used |-> m.used, undefined |-> m.undefined]
    BY MemoryWith
  <2>3. QED
    BY <2>1, <2>2, Zenon DEF x, y
<1>6. [m EXCEPT !.items[a] = s] = New(m.buffer)
  <2> DEFINE x == [m.items EXCEPT ![a] = s]
  <2>1. [m EXCEPT !.items[a] = s] = [m EXCEPT !.items = x]
    OBVIOUS
  <2> HIDE DEF x
  <2>2. [m EXCEPT !.items = x] = [rc |-> m.rc, items |-> x, buffer |-> m.buffer,
                                  used |-> m.used, undefined |-> m.undefined]
    BY MemoryWith
  <2>3. QED
    BY <2>1, <2>2, Zenon DEF x
<1> HIDE DEF New
<1>7. QED
  BY <1>3, <1>4, <1>5, <1>6

(* The references that an array gives up are free for others, and those it  *)
(* takes have to come from others.                                          *)
LEMMA RewrittenBalance ==
    ASSUME NEW m, MemoryOK(m), NEW a \in InUse(m), Kind[a] = "array",
           NEW s \in Seq(Object), \A i \in DOMAIN s : s[i] \in m.used \cup Immortal,
           NEW n, Rewritten(m, n, a, s)
    PROVE  /\ MemoryOK(n)
           /\ InUse(n) = InUse(m)
           /\ \A o \in Mortal :
                 /\ Balance(n, o) = Balance(m, o) + Occurrences(m.items[a], o) - Occurrences(s, o)
                 /\ Occurrences(m.items[a], o) \in Nat /\ Occurrences(s, o) \in Nat
<1>1. /\ n \in Memories /\ n.rc = m.rc /\ n.used = m.used
      /\ \A b \in Object \ {a} : n.items[b] = m.items[b] /\ n.buffer[b] = m.buffer[b]
      /\ n.items[a] = s
      /\ n.buffer[a] = "null" => s = <<>>
      /\ a \in Mortal /\ a \in Object /\ m.rc[a] # 0 /\ a \in m.used
      /\ m \in Memories
  BY SMTT(30) DEF Rewritten, Memories, MemoryOK, InUse, Mortal
<1>2. InUse(n) = InUse(m)
  BY <1>1 DEF InUse
<1>3. MemoryOK(n)
  <2>1. \A b \in Object : Range(n.items[b]) \subseteq n.used \cup Immortal
    <3>1. Range(s) \subseteq m.used \cup Immortal
      BY DEF Range
    <3>2. QED
      BY <1>1, <3>1 DEF MemoryOK
  <2>2. \A b \in Object :
          Kind[b] # "array" \/ n.buffer[b] = "null" \/ b \notin n.used => n.items[b] = <<>>
    BY <1>1 DEF MemoryOK
  <2>3. \A b \in Mortal : n.rc[b] = 0 => n.buffer[b] # "live"
    BY <1>1 DEF MemoryOK, Mortal
  <2>4. InUse(n) \subseteq n.used
    BY <1>1, <1>2 DEF MemoryOK
  <2>5. QED
    BY <1>1, <2>1, <2>2, <2>3, <2>4 DEF MemoryOK
<1>4. ASSUME NEW o \in Mortal
      PROVE  /\ Balance(n, o) = Balance(m, o) + Occurrences(m.items[a], o) - Occurrences(s, o)
             /\ Occurrences(m.items[a], o) \in Nat /\ Occurrences(s, o) \in Nat
  <2>1. \A b \in InUse(m) \ {a} : n.items[b] = m.items[b]
    BY <1>1 DEF InUse, Mortal
  <2>2. /\ ItemRefs(n, o) = ItemRefs(m, o) - Occurrences(m.items[a], o)
                                           + Occurrences(n.items[a], o)
        /\ Occurrences(m.items[a], o) \in Nat /\ Occurrences(n.items[a], o) \in Nat
    BY <1>2, <1>3, <2>1, ItemRefsSet
  <2>3. m.rc[o] \in Nat /\ n.rc[o] = m.rc[o] /\ ItemRefs(m, o) \in Nat
    BY <1>1, ItemRefsOn DEF Memories
  <2>4. Occurrences(n.items[a], o) = Occurrences(s, o)
    BY <1>1
  <2>5. QED
    BY <2>2, <2>3, <2>4 DEF Balance
<1>5. QED
  BY <1>2, <1>3, <1>4

(* An element is appended. *)
Appended(m, a, o) == [m EXCEPT !.items[a] = Append(@, o), !.buffer[a] = "live"]

(* An element appended without counting it costs its object one reference. *)
LEMMA AppendBalance ==
    ASSUME NEW m, MemoryOK(m), NEW a \in InUse(m), Kind[a] = "array",
           NEW o \in m.used \cup Immortal
    PROVE  LET n == Appended(m, a, o)
           IN  /\ MemoryOK(n)
               /\ InUse(n) = InUse(m)
               /\ n.items = [m.items EXCEPT ![a] = Append(m.items[a], o)]
               /\ \A p \in Mortal : Balance(n, p) = Balance(m, p) - One(o = p)
<1> DEFINE s == Append(m.items[a], o)
           n == Appended(m, a, o)
<1>1. /\ m \in Memories /\ a \in Object /\ o \in Object /\ m.items[a] \in Seq(Object)
      /\ Range(m.items[a]) \subseteq m.used \cup Immortal
  BY MemoryAssumption DEF MemoryOK, Memories, InUse, Mortal
<1>2. s \in Seq(Object)
  BY <1>1
<1>3. \A i \in DOMAIN s : s[i] \in m.used \cup Immortal
  <2>1. \A i \in DOMAIN s : (i \in DOMAIN m.items[a] /\ s[i] = m.items[a][i]) \/ s[i] = o
    BY <1>1
  <2> HIDE DEF s
  <2>2. QED
    BY <1>1, <2>1 DEF Range
<1>4. Rewritten(m, n, a, s)
  <2> DEFINE b == "live"
  <2>1. b \in Buffer /\ b # "null"
    BY DEF Buffer
  <2>2. n = [m EXCEPT !.items[a] = s, !.buffer[a] = b]
    BY DEF Appended
  <2> HIDE DEF s, b, n
  <2>3. Rewritten(m, [m EXCEPT !.items[a] = s, !.buffer[a] = b], a, s)
    BY <1>1, <1>2, <2>1, RewriteShape
  <2>4. QED
    BY <2>2, <2>3, Zenon
<1> HIDE DEF s, n
<1>5. /\ MemoryOK(n) /\ InUse(n) = InUse(m)
      /\ \A p \in Mortal :
            /\ Balance(n, p) = Balance(m, p) + Occurrences(m.items[a], p) - Occurrences(s, p)
            /\ Occurrences(m.items[a], p) \in Nat /\ Occurrences(s, p) \in Nat
  BY <1>2, <1>3, <1>4, RewrittenBalance
<1>6. ASSUME NEW p \in Mortal PROVE Balance(n, p) = Balance(m, p) - One(o = p)
  <2>1. Occurrences(s, p) = Occurrences(m.items[a], p) + One(o = p)
    BY <1>1, OccurrencesAppend DEF s
  <2>2. One(o = p) \in Nat /\ Balance(m, p) \in Int
    BY BalanceType DEF One
  <2>3. QED
    BY <1>5, <2>1, <2>2
<1>7. n.items = [m.items EXCEPT ![a] = s]
  BY <1>4 DEF Rewritten
<1>8. QED
  BY <1>5, <1>6, <1>7 DEF s, n

(* An element is replaced. *)
Put(m, a, i, o) == [m EXCEPT !.items[a][i] = o]

(* An element replaced without counting: the old one's object gains a
   reference, the new one's loses one. *)
LEMMA PutBalance ==
    ASSUME NEW m, MemoryOK(m), NEW a \in InUse(m), NEW i \in DOMAIN m.items[a],
           NEW o \in m.used \cup Immortal
    PROVE  LET n == Put(m, a, i, o)
           IN  /\ MemoryOK(n)
               /\ InUse(n) = InUse(m)
               /\ n.items = [m.items EXCEPT ![a] = [m.items[a] EXCEPT ![i] = o]]
               /\ n.used = m.used /\ n.rc = m.rc
               /\ \A p \in Mortal :
                     Balance(n, p) = Balance(m, p) + One(m.items[a][i] = p) - One(o = p)
<1> DEFINE s == [m.items[a] EXCEPT ![i] = o]
           n == Put(m, a, i, o)
<1>1. /\ m \in Memories /\ a \in Object /\ o \in Object /\ m.items[a] \in Seq(Object)
      /\ Range(m.items[a]) \subseteq m.used \cup Immortal
      /\ Kind[a] = "array" /\ m.buffer[a] # "null"
  <2>1. m.items[a] # <<>>
    OBVIOUS
  <2>2. QED
    BY <2>1, MemoryAssumption DEF MemoryOK, Memories, InUse, Mortal
<1>2. s \in Seq(Object)
  BY <1>1
<1>3. \A j \in DOMAIN s : s[j] \in m.used \cup Immortal
  BY <1>1 DEF Range
<1>4. n = [m EXCEPT !.items[a] = s]
  BY DEF Put
<1>5. Rewritten(m, n, a, s)
  <2> DEFINE b == "live"
  <2>1. b \in Buffer /\ b # "null"
    BY DEF Buffer
  <2> HIDE DEF s, b, n
  <2>2. Rewritten(m, [m EXCEPT !.items[a] = s], a, s)
    BY <1>1, <1>2, <2>1, RewriteShape
  <2>3. QED
    BY <1>4, <2>2, Zenon
<1> HIDE DEF s, n
<1>6. /\ MemoryOK(n) /\ InUse(n) = InUse(m)
      /\ \A p \in Mortal :
            /\ Balance(n, p) = Balance(m, p) + Occurrences(m.items[a], p) - Occurrences(s, p)
            /\ Occurrences(m.items[a], p) \in Nat /\ Occurrences(s, p) \in Nat
  BY <1>1, <1>2, <1>3, <1>5, RewrittenBalance
<1>7. ASSUME NEW p \in Mortal
      PROVE  Balance(n, p) = Balance(m, p) + One(m.items[a][i] = p) - One(o = p)
  <2>1. Occurrences(s, p) = Occurrences(m.items[a], p) - One(m.items[a][i] = p) + One(o = p)
    <3>1. IsFiniteSet(DOMAIN m.items[a])
      BY <1>1, SeqFinite
    <3>2. QED
      BY <3>1, OccurrencesExcept DEF s
  <2>2. One(o = p) \in Nat /\ One(m.items[a][i] = p) \in Nat /\ Balance(m, p) \in Int
    BY BalanceType DEF One
  <2>3. QED
    BY <1>6, <2>1, <2>2
<1>8. n.items = [m.items EXCEPT ![a] = s] /\ n.used = m.used /\ n.rc = m.rc
  BY <1>5 DEF Rewritten
<1>9. QED
  BY <1>6, <1>7, <1>8 DEF s, n

(* An array may get other elements whether it is in use or not. *)
LEMMA ItemsShape ==
    ASSUME NEW m, MemoryOK(m), NEW a \in m.used, Kind[a] = "array", m.buffer[a] # "null",
           NEW s \in Seq(Object), \A i \in DOMAIN s : s[i] \in m.used \cup Immortal
    PROVE  LET n == [m EXCEPT !.items[a] = s]
           IN  /\ MemoryOK(n)
               /\ n.rc = m.rc /\ n.used = m.used /\ n.buffer = m.buffer
               /\ n.items = [m.items EXCEPT ![a] = s]
<1> DEFINE x == [m.items EXCEPT ![a] = s]
           n == [m EXCEPT !.items = x]
<1>1. /\ m \in Memories /\ m.items \in [Object -> Seq(Object)] /\ a \in Object
      /\ InUse(m) \subseteq m.used
  BY DEF MemoryOK, Memories, Mortal
<1>2. x \in [Object -> Seq(Object)] /\ x[a] = s /\ \A b \in Object \ {a} : x[b] = m.items[b]
  BY <1>1
<1> HIDE DEF x
<1>3. n = [rc |-> m.rc, items |-> x, buffer |-> m.buffer, used |-> m.used,
           undefined |-> m.undefined]
  BY <1>1, MemoryWith
<1> HIDE DEF n
<1>4. /\ n \in Memories /\ n.rc = m.rc /\ n.used = m.used /\ n.items = x
      /\ n.buffer = m.buffer
  BY <1>1, <1>2, <1>3 DEF Memories
<1>5. Range(s) \subseteq m.used \cup Immortal
  BY DEF Range
<1>6. MemoryOK(n)
  <2>1. \A b \in Object : Range(n.items[b]) \subseteq n.used \cup Immortal
    BY <1>2, <1>4, <1>5 DEF MemoryOK
  <2>2. \A b \in Object :
          Kind[b] # "array" \/ n.buffer[b] = "null" \/ b \notin n.used => n.items[b] = <<>>
    BY <1>2, <1>4 DEF MemoryOK
  <2>3. \A b \in Mortal : n.rc[b] = 0 => n.buffer[b] # "live"
    BY <1>4 DEF MemoryOK
  <2>4. InUse(n) \subseteq n.used
    BY <1>1, <1>4 DEF InUse
  <2>5. QED
    BY <1>4, <2>1, <2>2, <2>3, <2>4 DEF MemoryOK
<1>7. [m EXCEPT !.items[a] = s] = n
  BY DEF n, x
<1>8. QED
  BY <1>4, <1>6, <1>7 DEF x

(* The same for one element. *)
LEMMA PutShape ==
    ASSUME NEW m, MemoryOK(m), NEW a \in Object, NEW i \in DOMAIN m.items[a],
           NEW o \in m.used \cup Immortal
    PROVE  LET n == Put(m, a, i, o)
           IN  /\ MemoryOK(n)
               /\ n.used = m.used /\ n.buffer = m.buffer
               /\ n.items = [m.items EXCEPT ![a] = [m.items[a] EXCEPT ![i] = o]]
               /\ a \in InUse(m) \cup Immortal =>
                     /\ InUse(n) = InUse(m)
                     /\ \A p \in Mortal :
                           Balance(n, p) = Balance(m, p) + One(m.items[a][i] = p) - One(o = p)
<1> DEFINE s == [m.items[a] EXCEPT ![i] = o]
           n == Put(m, a, i, o)
<1>1. /\ m \in Memories /\ o \in Object /\ m.items[a] \in Seq(Object)
      /\ Range(m.items[a]) \subseteq m.used \cup Immortal
      /\ Kind[a] = "array" /\ m.buffer[a] # "null" /\ a \in m.used
  <2>1. m.items[a] # <<>>
    OBVIOUS
  <2>2. QED
    BY <2>1, MemoryAssumption DEF MemoryOK, Memories, Mortal
<1>2. s \in Seq(Object)
  BY <1>1
<1>3. \A j \in DOMAIN s : s[j] \in m.used \cup Immortal
  BY <1>1 DEF Range
<1>4. n = [m EXCEPT !.items[a] = s]
  BY DEF Put
<1> HIDE DEF s, n
<1>5. /\ MemoryOK([m EXCEPT !.items[a] = s])
      /\ [m EXCEPT !.items[a] = s].used = m.used
      /\ [m EXCEPT !.items[a] = s].buffer = m.buffer
      /\ [m EXCEPT !.items[a] = s].items = [m.items EXCEPT ![a] = s]
  BY <1>1, <1>2, <1>3, ItemsShape
<1>6. ASSUME a \in InUse(m) \cup Immortal
      PROVE  /\ InUse(n) = InUse(m)
             /\ \A p \in Mortal :
                   Balance(n, p) = Balance(m, p) + One(m.items[a][i] = p) - One(o = p)
  <2>1. a \in InUse(m)
    BY <1>1, <1>6, MemoryAssumption
  <2>2. /\ InUse(Put(m, a, i, o)) = InUse(m)
        /\ Put(m, a, i, o).items = [m.items EXCEPT ![a] = [m.items[a] EXCEPT ![i] = o]]
        /\ \A p \in Mortal : Balance(Put(m, a, i, o), p)
              = Balance(m, p) + One(m.items[a][i] = p) - One(o = p)
    BY <2>1, PutBalance
  <2>3. QED
    BY <2>2 DEF n
<1>7. QED
  BY <1>4, <1>5, <1>6 DEF s, n

-----------------------------------------------------------------------------
(* Objects that are in use.                                                *)

(* An object to which there is a reference from outside is in use. *)
LEMMA BalanceInUse ==
    ASSUME NEW m, MemoryOK(m), NEW o \in Mortal, Balance(m, o) >= 1
    PROVE  o \in InUse(m) /\ o \in m.used
<1>1. m.rc[o] \in Nat /\ ItemRefs(m, o) \in Nat /\ m.rc[o] = Balance(m, o) + ItemRefs(m, o)
      /\ Balance(m, o) \in Int
  BY BalanceType
<1>2. m.rc[o] > 0
  BY <1>1
<1>3. QED
  BY <1>2 DEF InUse, MemoryOK

(* An array counts for its elements. *)
LEMMA ItemsCount ==
    ASSUME NEW m, MemoryOK(m), NEW a \in InUse(m), NEW o
    PROVE  ItemRefs(m, o) >= Occurrences(m.items[a], o) /\ Occurrences(m.items[a], o) \in Nat
           /\ ItemRefs(m, o) \in Nat
<1> DEFINE F == On(m.items, InUse(m))
<1>1. Finite(F) /\ a \in DOMAIN F
  BY ItemsFinite DEF On
<1>2. F[a] = m.items[a]
  BY DEF On
<1>3. ItemRefs(m, o) = Count(F, o) /\ ItemRefs(m, o) \in Nat
  BY ItemRefsOn
<1> HIDE DEF F
<1>4. /\ Count(F, o) = Occurrences(F[a], o) + Count(On(F, DOMAIN F \ {a}), o)
      /\ Occurrences(F[a], o) \in Nat
      /\ Count(On(F, DOMAIN F \ {a}), o) \in Nat
  BY <1>1, CountMember
<1>5. QED
  BY <1>2, <1>3, <1>4

(* So they are in use as well, as long as no balance is below 0. *)
LEMMA ItemsInUse ==
    ASSUME NEW m, MemoryOK(m), NEW a \in InUse(m), NEW i \in DOMAIN m.items[a],
           m.items[a][i] \in Mortal => Balance(m, m.items[a][i]) >= 0
    PROVE  m.items[a][i] \in InUse(m) \cup Immortal
<1> DEFINE o == m.items[a][i]
<1>1. m.items[a] \in Seq(Object)
  BY DEF MemoryOK, Memories, InUse, Mortal
<1>2. o \in Object
  BY <1>1
<1>3. CASE o \in Mortal
  <2>1. Occurrences(m.items[a], o) # 0
    BY <1>1, SeqFinite, OccurrencesZero
  <2> HIDE DEF o
  <2>2. ItemRefs(m, o) >= 1
    BY <2>1, ItemsCount
  <2>3. m.rc[o] \in Nat /\ m.rc[o] = Balance(m, o) + ItemRefs(m, o)
        /\ ItemRefs(m, o) \in Nat /\ Balance(m, o) \in Int
    BY <1>3, BalanceType
  <2>4. Balance(m, o) >= 0
    BY <1>3 DEF o
  <2>5. m.rc[o] > 0
    BY <2>2, <2>3, <2>4
  <2>6. QED
    BY <1>3, <2>5 DEF InUse, o
<1>4. CASE o \notin Mortal
  BY <1>2, <1>4 DEF Mortal
<1>5. QED
  BY <1>3, <1>4

-----------------------------------------------------------------------------
(* Releasing what an array in use still holds: object_array_free and        *)
(* object_array_set release elements that are in the array yet.  As long as *)
(* something else refers to the array, that is as good as releasing them    *)
(* after taking them out.                                                   *)
LEMMA HeldBalance ==
    ASSUME NEW m, MemoryOK(m), NEW s, IsFiniteSet(DOMAIN s), NEW a \in InUse(m),
           \A o \in Mortal :
              Balance(m, o) + Occurrences(m.items[a], o) >= Occurrences(s, o) + One(o = a)
    PROVE  /\ a \in InUse(DecrefAll(m, s))
           /\ \A o \in Mortal :
                 Balance(DecrefAll(m, s), o) = Balance(m, o) - Occurrences(s, o)
<1> DEFINE R == Released(m, s)
           n == DecrefAll(m, s)
           U == InUse(m)
           CU(o) == Count(On(m.items, U), o)
           CA(o) == Count(On(m.items, U \ {a}), o)
           CR(o) == Count(On(m.items, R), o)
           CN(o) == Count(On(m.items, U \ R), o)
           IA(o) == Occurrences(m.items[a], o)
           S(o) == Occurrences(s, o)
<1>1. ASSUME NEW o \in Mortal
      PROVE  /\ CU(o) = IA(o) + CA(o) /\ IA(o) \in Nat /\ CA(o) \in Nat /\ S(o) \in Nat
             /\ m.rc[o] \in Nat /\ m.rc[o] + IA(o) - CU(o) >= S(o) + One(o = a)
             /\ ItemRefs(m, o) = CU(o)
  <2>1. ItemRefs(m, o) = CU(o)
    BY ItemRefsOn
  <2> DEFINE F == On(m.items, U)
  <2>2. Finite(F) /\ a \in DOMAIN F
    BY ItemsFinite DEF On
  <2>3. F[a] = m.items[a]
    BY DEF On
  <2>4. On(F, DOMAIN F \ {a}) = On(m.items, U \ {a})
    BY DEF On
  <2>5. /\ Count(F, o) = Occurrences(F[a], o) + Count(On(F, DOMAIN F \ {a}), o)
        /\ Occurrences(F[a], o) \in Nat /\ Count(On(F, DOMAIN F \ {a}), o) \in Nat
    <3> HIDE DEF F
    <3> QED
      BY <2>2, CountMember
  <2>6. CU(o) = IA(o) + CA(o) /\ IA(o) \in Nat /\ CA(o) \in Nat
    BY <2>3, <2>4, <2>5
  <2>7. m.rc[o] \in Nat /\ S(o) \in Nat /\ Balance(m, o) = m.rc[o] - CU(o)
    BY <2>1, OccurrencesType DEF Balance, MemoryOK, Memories
  <2>8. One(o = a) \in Nat
    BY DEF One
  <2>9. Balance(m, o) + IA(o) >= S(o) + One(o = a)
    OBVIOUS
  <2> HIDE DEF U, CU, CA, IA, S
  <2>10. QED
    BY <2>1, <2>6, <2>7, <2>8, <2>9
<1>2. R \subseteq U \ {a}
  <2>1. ASSUME NEW o \in U, m.rc[o] <= Lost(m, s, U \ {a}, o) PROVE o \in U \ {a}
    <3> SUFFICES ASSUME o = a PROVE FALSE
      OBVIOUS
    <3>1. Lost(m, s, U \ {a}, o) = S(o) + CA(o)
      BY LostCount
    <3>2. One(o = a) = 1 /\ o \in Mortal
      BY DEF One, InUse
    <3> HIDE DEF U, CU, CA, IA, S
    <3>3. QED
      BY <1>1, <2>1, <3>1, <3>2
  <2>2. U \ {a} \in SUBSET InUse(m)
    OBVIOUS
  <2> HIDE DEF R, U
  <2>3. QED
    BY <2>1, <2>2, ReleasedLeast DEF R, U
<1>3. /\ n.items = m.items /\ InUse(n) = U \ R /\ MemoryOK(n)
      /\ \A o \in Mortal : n.rc[o] = IF o \in U \ R THEN m.rc[o] - Lost(m, s, R, o) ELSE 0
  BY DecrefAllShape
<1>4. a \in InUse(n)
  BY <1>2, <1>3
<1>5. ASSUME NEW o \in Mortal PROVE Balance(n, o) = Balance(m, o) - S(o)
  <2>1. ItemRefs(n, o) = CN(o) /\ CN(o) \in Nat
    <3> HIDE DEF n, R, U
    <3>1. MemoryOK(n) /\ n.items = m.items /\ InUse(n) = U \ R
      BY <1>3
    <3>2. ItemRefs(n, o) = Count(On(n.items, InUse(n)), o) /\ ItemRefs(n, o) \in Nat
      BY <3>1, ItemRefsOn
    <3>3. QED
      BY <3>1, <3>2, Zenon
  <2>2. CU(o) = CR(o) + CN(o)
    <3>1. R \cup (U \ R) = U /\ R \cap (U \ R) = {}
          /\ R \subseteq DOMAIN m.items /\ U \ R \subseteq DOMAIN m.items
      BY <1>2, ItemsFinite
    <3>2. Count(On(m.items, R \cup (U \ R)), o) = CR(o) + CN(o)
      <4> HIDE DEF R, U
      <4> QED
        BY <3>1, ItemsFinite, CountSplit
    <3>3. QED
      BY <3>1, <3>2, Zenon
  <2>3. Lost(m, s, R, o) = S(o) + CR(o) /\ CR(o) \in Nat
    BY <1>2, LostCount
  <2>4. CR(o) <= CA(o)
    <3>1. U \ {a} \in SUBSET DOMAIN m.items
      BY ItemsFinite
    <3>2. R \in SUBSET (U \ {a})
      BY <1>2
    <3> HIDE DEF R, U
    <3>3. QED
      BY <3>1, <3>2, ItemsFinite, CountGrows
  <2>5. o \in U => (o \in R <=> m.rc[o] <= Lost(m, s, R, o))
    BY ReleasedFixed
  <2>6. o \notin U => m.rc[o] = 0
    <3>1. m.rc[o] \in Nat
      BY <1>1
    <3>2. QED
      BY <3>1 DEF InUse
  <2>7. One(o = a) \in Nat
    BY DEF One
  <2>8. n.rc[o] = IF o \in U \ R THEN m.rc[o] - Lost(m, s, R, o) ELSE 0
    BY <1>3
  <2>9. n.rc[o] - CN(o) = m.rc[o] - CU(o) - S(o)
    <3> HIDE DEF R, n, U, CU, CR, CN, CA, IA, S
    <3>1. CASE o \in U \ R
      BY <1>1, <2>1, <2>2, <2>3, <2>8, <3>1
    <3>2. CASE o \in R
      <4>1. m.rc[o] <= S(o) + CR(o) /\ n.rc[o] = 0
        BY <1>2, <2>3, <2>5, <2>8, <3>2
      <4>2. m.rc[o] >= S(o) + CA(o)
        BY <1>1, <2>7
      <4>3. m.rc[o] = S(o) + CR(o)
        <5>1. m.rc[o] \in Nat /\ S(o) \in Nat /\ CA(o) \in Nat
          BY <1>1
        <5>2. QED
          BY <2>3, <2>4, <4>1, <4>2, <5>1
      <4>4. QED
        BY <1>1, <2>1, <2>2, <2>3, <4>1, <4>3
    <3>3. CASE o \notin U
      <4>1. m.rc[o] = 0 /\ n.rc[o] = 0
        BY <2>6, <2>8, <3>3
      <4>2. 0 >= S(o) + CA(o)
        BY <1>1, <2>7, <4>1
      <4>3. S(o) = 0 /\ CA(o) = 0
        BY <1>1, <4>2
      <4>4. CR(o) = 0
        BY <2>3, <2>4, <4>3
      <4>5. QED
        BY <2>1, <2>2, <4>1, <4>3, <4>4
    <3>4. o \in U \ R \/ o \in R \/ o \notin U
      OBVIOUS
    <3>5. QED
      BY <3>1, <3>2, <3>3, <3>4, Zenon
  <2>10. QED
    BY <1>1, <2>1, <2>9 DEF Balance
<1>6. QED
  BY <1>4, <1>5

-----------------------------------------------------------------------------
(* Collections.                                                            *)

(* What is reachable includes the roots and is closed under the edges... *)
LEMMA ReachableClosed ==
    ASSUME NEW R \in SUBSET Object, NEW E \in [Object -> SUBSET Object]
    PROVE  /\ ReachableFrom(R, E) \subseteq Object
           /\ Closed(R, E, ReachableFrom(R, E))
  BY DEF ReachableFrom, Closed

(* ... and in every other such set. *)
LEMMA ReachableLeast ==
    ASSUME NEW R, NEW E, NEW S \in SUBSET Object, Closed(R, E, S)
    PROVE  ReachableFrom(R, E) \subseteq S
  BY DEF ReachableFrom

(* The graph the marker follows is one over the objects. *)
LEMMA EdgesType ==
    ASSUME NEW m, MemoryOK(m)
    PROVE  Edges(m) \in [Object -> SUBSET Object]
<1>1. \A o \in Object : m.items[o] \in Seq(Object)
  BY DEF MemoryOK, Memories
<1>2. \A o \in Object : Range(m.items[o]) \subseteq Object
  BY <1>1 DEF Range
<1>3. QED
  BY <1>2 DEF Edges

(* A collection leaves exactly the reachable objects in use.  Nothing in use *)
(* refers to a freed object then; of the references to the other objects    *)
(* only those in freed arrays are gone, without having been released: the   *)
(* balance of the elements of those arrays grows, and no other.             *)
LEMMA SweepBalance ==
    ASSUME NEW m, MemoryOK(m), NEW roots \in SUBSET Object
    PROVE  LET n == Sweep(m, roots)
               marked == ReachableFrom(roots, Edges(m))
           IN  /\ MemoryOK(n)
               /\ InUse(n) = InUse(m) \cap marked
               /\ n.used = m.used
               /\ \A o \in Object : n.items[o] = m.items[o] \/ n.items[o] = <<>>
               /\ \A o \in Object : n.buffer[o] = m.buffer[o] \/ n.buffer[o] = "null"
               /\ \A o \in Mortal \cap marked : /\ Balance(n, o) >= Balance(m, o)
                                               /\ n.rc[o] = m.rc[o]
               /\ \A o \in Mortal \ marked : Balance(n, o) = 0 /\ n.rc[o] = 0
               /\ \A o \in Mortal \cap marked :
                     IF \E a \in InUse(m) \ InUse(n) : o \in Range(m.items[a])
                     THEN Balance(n, o) > Balance(m, o)
                     ELSE Balance(n, o) = Balance(m, o)
<1> DEFINE n == Sweep(m, roots)
           marked == ReachableFrom(roots, Edges(m))
           unmarked == m.used \ marked
           rc == [o \in Mortal |-> IF o \in unmarked THEN 0 ELSE m.rc[o]]
           items == [o \in Object |-> IF o \in unmarked THEN <<>> ELSE m.items[o]]
           buffer == [o \in Object |-> IF o \in unmarked THEN "null" ELSE m.buffer[o]]
           undefined == m.undefined \/ \E o \in m.used :
                                         /\ m.buffer[o] = "freed"
                                         /\ o \in unmarked \/ Kind[o] = "array"
<1>1. /\ m \in Memories /\ m.rc \in [Mortal -> Nat] /\ m.items \in [Object -> Seq(Object)]
      /\ m.buffer \in [Object -> Buffer] /\ m.used \subseteq Mortal
      /\ InUse(m) \subseteq m.used /\ InUse(m) \subseteq Mortal /\ Mortal \subseteq Object
  BY DEF MemoryOK, Memories, InUse, Mortal
<1>2. Closed(roots, Edges(m), marked) /\ marked \subseteq Object
  BY EdgesType, ReachableClosed
<1>3. n = [m EXCEPT !.rc = rc, !.items = items, !.undefined = undefined, !.buffer = buffer]
  BY DEF Sweep
<1>4. n = [rc |-> rc, items |-> items, buffer |-> buffer, used |-> m.used,
           undefined |-> undefined]
  <2> HIDE DEF rc, items, buffer, undefined, n
  <2>1. PICK rc0 \in [Mortal -> Nat], items0 \in [Object -> Seq(Object)],
             buffer0 \in [Object -> Buffer], used0 \in SUBSET Mortal,
             undefined0 \in BOOLEAN :
          m = [rc |-> rc0, items |-> items0, buffer |-> buffer0, used |-> used0,
               undefined |-> undefined0]
    BY <1>1 DEF Memories
  <2>2. m.used = used0
    BY <2>1
  <2> DEFINE m1 == [m EXCEPT !.rc = rc]
             m2 == [m1 EXCEPT !.items = items]
             m3 == [m2 EXCEPT !.undefined = undefined]
  <2>3. m1 = [rc |-> rc, items |-> items0, buffer |-> buffer0, used |-> used0,
              undefined |-> undefined0]
    BY <2>1
  <2> HIDE DEF m1
  <2>4. m2 = [rc |-> rc, items |-> items, buffer |-> buffer0, used |-> used0,
              undefined |-> undefined0]
    BY <2>3
  <2> HIDE DEF m2
  <2>5. m3 = [rc |-> rc, items |-> items, buffer |-> buffer0, used |-> used0,
              undefined |-> undefined]
    BY <2>4
  <2> HIDE DEF m3
  <2>6. [m3 EXCEPT !.buffer = buffer]
          = [rc |-> rc, items |-> items, buffer |-> buffer, used |-> used0,
             undefined |-> undefined]
    BY <2>5
  <2>7. n = [m3 EXCEPT !.buffer = buffer]
    BY <1>3, Zenon DEF m1, m2, m3
  <2>8. QED
    BY <2>2, <2>6, <2>7
<1>5. /\ rc \in [Mortal -> Nat] /\ items \in [Object -> Seq(Object)]
      /\ buffer \in [Object -> Buffer] /\ undefined \in BOOLEAN
  BY <1>1 DEF Buffer
<1>6. /\ n \in Memories /\ n.used = m.used
      /\ \A o \in Mortal : n.rc[o] = IF o \in unmarked THEN 0 ELSE m.rc[o]
      /\ \A o \in Object : n.items[o] = IF o \in unmarked THEN <<>> ELSE m.items[o]
      /\ \A o \in Object : n.buffer[o] = IF o \in unmarked THEN "null" ELSE m.buffer[o]
  <2>1. n.rc = rc /\ n.items = items /\ n.buffer = buffer /\ n.used = m.used
    BY <1>4
  <2>2. n \in Memories
    <3> HIDE DEF rc, items, buffer, undefined, n
    <3> QED
      BY <1>1, <1>4, <1>5 DEF Memories
  <2> HIDE DEF n
  <2>3. QED
    BY <2>1, <2>2
<1> HIDE DEF n, rc, items, buffer, undefined, marked
<1>7. InUse(n) = InUse(m) \cap marked
  BY <1>1, <1>6 DEF InUse
<1>8. MemoryOK(n)
  <2>1. \A o \in Object : Range(n.items[o]) \subseteq n.used \cup Immortal
    <3>1. Range(<<>>) = {}
      BY DEF Range
    <3>2. QED
      BY <1>6, <3>1 DEF MemoryOK
  <2>2. \A o \in Object :
          Kind[o] # "array" \/ n.buffer[o] = "null" \/ o \notin n.used => n.items[o] = <<>>
    BY <1>6 DEF MemoryOK
  <2>3. \A o \in Mortal : n.rc[o] = 0 => n.buffer[o] # "live"
    BY <1>1, <1>6 DEF MemoryOK
  <2>4. InUse(n) \subseteq n.used
    BY <1>1, <1>6, <1>7
  <2>5. QED
    BY <1>6, <2>1, <2>2, <2>3, <2>4 DEF MemoryOK
<1>9. On(n.items, InUse(n)) = On(m.items, InUse(n))
  BY <1>1, <1>6, <1>7 DEF On
<1>10. ASSUME NEW o \in Mortal
       PROVE  /\ ItemRefs(n, o) = Count(On(m.items, InUse(n)), o)
              /\ ItemRefs(m, o) = Count(On(m.items, InUse(m)), o)
              /\ ItemRefs(n, o) <= ItemRefs(m, o)
              /\ ItemRefs(n, o) \in Nat /\ ItemRefs(m, o) \in Nat
  <2>1. /\ ItemRefs(n, o) = Count(On(n.items, InUse(n)), o) /\ ItemRefs(n, o) \in Nat
    BY <1>8, ItemRefsOn
  <2>2. ItemRefs(m, o) = Count(On(m.items, InUse(m)), o) /\ ItemRefs(m, o) \in Nat
    BY ItemRefsOn
  <2>3. InUse(n) \in SUBSET InUse(m) /\ InUse(m) \in SUBSET DOMAIN m.items
    BY <1>7, ItemsFinite
  <2>4. Count(On(m.items, InUse(n)), o) <= Count(On(m.items, InUse(m)), o)
    BY <2>3, ItemsFinite, CountGrows
  <2>5. QED
    BY <1>9, <2>1, <2>2, <2>4
<1>11. ASSUME NEW o \in Mortal \cap marked
       PROVE  Balance(n, o) >= Balance(m, o) /\ n.rc[o] = m.rc[o]
  <2>1. n.rc[o] = m.rc[o] /\ m.rc[o] \in Nat
    BY <1>1, <1>6
  <2>2. QED
    BY <1>10, <2>1 DEF Balance
<1>12. ASSUME NEW o \in Mortal \ marked PROVE Balance(n, o) = 0 /\ n.rc[o] = 0
  <2>1. n.rc[o] = 0
    BY <1>1, <1>6, <1>7 DEF InUse
  <2>2. Finite(On(m.items, InUse(n)))
    BY <1>8, ItemsFinite
  <2>3. ASSUME NEW a \in InUse(n), NEW i \in DOMAIN m.items[a], m.items[a][i] = o PROVE FALSE
    <3>1. a \in marked /\ a \in Object
      BY <1>1, <1>7
    <3>2. o \in Edges(m)[a]
      BY <2>3, <3>1 DEF Edges, Range
    <3>3. QED
      BY <1>2, <1>12, <3>1, <3>2 DEF Closed
  <2>4. Count(On(m.items, InUse(n)), o) = 0
    BY <2>2, <2>3, CountZero DEF On
  <2>5. ItemRefs(n, o) = 0
    BY <1>10, <2>4
  <2>6. QED
    BY <2>1, <2>5 DEF Balance
<1>13. ASSUME NEW o \in Mortal \cap marked
       PROVE  IF \E a \in InUse(m) \ InUse(n) : o \in Range(m.items[a])
              THEN Balance(n, o) > Balance(m, o)
              ELSE Balance(n, o) = Balance(m, o)
  <2> DEFINE F == On(m.items, InUse(m))
             freed == InUse(m) \ InUse(n)
             gone == Count(On(F, freed), o)
  <2>1. Finite(F) /\ DOMAIN F = InUse(m)
    BY ItemsFinite DEF On
  <2>2. InUse(n) \in SUBSET InUse(m)
    BY <1>7
  <2>3. On(F, InUse(n)) = On(m.items, InUse(n))
    BY <2>2 DEF On
  <2>4. Count(F, o) = Count(On(F, InUse(n)), o) + gone /\ gone \in Nat
    <3> HIDE DEF F
    <3>1. QED
      BY <2>1, <2>2, CountPart
  <2>5. ItemRefs(m, o) = ItemRefs(n, o) + gone
    BY <1>10, <2>3, <2>4
  <2>6. gone = 0 <=> \A a \in freed : \A i \in DOMAIN m.items[a] : m.items[a][i] # o
    <3>1. DOMAIN On(F, freed) = freed /\ \A a \in freed : On(F, freed)[a] = m.items[a]
      BY DEF On
    <3>2. Finite(On(F, freed))
      <4> HIDE DEF F
      <4>1. QED
        BY <2>1, OnFinite
    <3> HIDE DEF F, freed
    <3>3. QED
      BY <3>1, <3>2, CountZero
  <2>7. gone = 0 <=> ~ \E a \in freed : o \in Range(m.items[a])
    <3> HIDE DEF F, freed, gone
    <3>1. QED
      BY <2>6 DEF Range
  <2>8. n.rc[o] = m.rc[o] /\ m.rc[o] \in Nat
    BY <1>1, <1>11
  <2>9. Balance(n, o) = Balance(m, o) + gone /\ Balance(m, o) \in Int
    <3> HIDE DEF gone
    <3>1. QED
      BY <1>10, <2>4, <2>5, <2>8 DEF Balance
  <2>10. QED
    <3> HIDE DEF gone
    <3>1. QED
      BY <2>4, <2>7, <2>9
<1>14. \A o \in Object : /\ n.items[o] = m.items[o] \/ n.items[o] = <<>>
                         /\ n.buffer[o] = m.buffer[o] \/ n.buffer[o] = "null"
  BY <1>6
<1>15. n.used = m.used
  <2> HIDE DEF rc, items, buffer, undefined, n
  <2>1. QED
    BY <1>4
<1>16. QED
  BY <1>7, <1>8, <1>11, <1>12, <1>13, <1>14, <1>15 DEF n, marked

-----------------------------------------------------------------------------
(* One object.                                                             *)

(* object_decref of an object to which there is a reference. *)
LEMMA DecrefBalance ==
    ASSUME NEW m, MemoryOK(m), NEW o, \A p \in Mortal : Balance(m, p) >= One(o = p)
    PROVE  /\ MemoryOK(Decref(m, o))
           /\ Decref(m, o).items = m.items /\ Decref(m, o).used = m.used
           /\ InUse(Decref(m, o)) \subseteq InUse(m)
           /\ \A p \in Mortal : Balance(Decref(m, o), p) = Balance(m, p) - One(o = p)
<1> DEFINE s == <<o>>
<1>1. IsFiniteSet(DOMAIN s)
  <2>1. s \in Seq({o})
    OBVIOUS
  <2>2. QED
    BY <2>1, SeqFinite
<1>2. \A p \in Mortal : Occurrences(s, p) = One(o = p)
  BY OccurrencesOne
<1>3. Decref(m, o) = DecrefAll(m, s)
  BY DEF Decref
<1> HIDE DEF s
<1>4. \A p \in Mortal : Balance(m, p) >= Occurrences(s, p)
  BY <1>2
<1>5. \A p \in Mortal : Balance(DecrefAll(m, s), p) = Balance(m, p) - Occurrences(s, p)
  BY <1>1, <1>4, DecrefAllBalance
<1>6. /\ MemoryOK(DecrefAll(m, s)) /\ DecrefAll(m, s).items = m.items
      /\ DecrefAll(m, s).used = m.used
      /\ InUse(DecrefAll(m, s)) = InUse(m) \ Released(m, s)
  BY <1>1, DecrefAllShape
<1>7. QED
  BY <1>2, <1>3, <1>5, <1>6

(* object_incref of an object in use, or of one that holds nothing. *)
LEMMA IncrefBalance ==
    ASSUME NEW m, MemoryOK(m), NEW o \in Object,
           o \in InUse(m) \cup Immortal \/ (o \in m.used /\ m.items[o] = <<>>)
    PROVE  /\ MemoryOK(Incref(m, o))
           /\ Incref(m, o).items = m.items /\ Incref(m, o).used = m.used
           /\ InUse(m) \subseteq InUse(Incref(m, o))
           /\ \A p \in Mortal : Balance(Incref(m, o), p) = Balance(m, p) + One(o = p)
<1> DEFINE s == <<o>>
<1>1. IsFiniteSet(DOMAIN s)
  <2>1. s \in Seq({o})
    OBVIOUS
  <2>2. QED
    BY <2>1, SeqFinite
<1>2. \A p \in Mortal : Occurrences(s, p) = One(o = p)
  BY OccurrencesOne
<1>3. Incref(m, o) = IncrefAll(m, s)
  BY IncrefIsAll
<1>4. \A i \in DOMAIN s : \/ s[i] \in InUse(m) \cup Immortal
                          \/ s[i] \in m.used /\ m.items[s[i]] = <<>>
  OBVIOUS
<1>5. \A i \in DOMAIN s : s[i] \in m.used \cup Immortal
  BY DEF MemoryOK
<1> HIDE DEF s
<1>6. /\ MemoryOK(IncrefAll(m, s)) /\ InUse(m) \subseteq InUse(IncrefAll(m, s))
      /\ \A p \in Mortal : Balance(IncrefAll(m, s), p) = Balance(m, p) + Occurrences(s, p)
  BY <1>1, <1>4, IncrefAllBalance
<1>7. IncrefAll(m, s).items = m.items /\ IncrefAll(m, s).used = m.used
  BY <1>1, <1>5, IncrefAllShape
<1>8. QED
  BY <1>2, <1>3, <1>6, <1>7

(* Nothing is in use at first. *)
LEMMA EmptyMemoryOK ==
    /\ MemoryOK(EmptyMemory)
    /\ \A o \in Object : EmptyMemory.items[o] = <<>>
    /\ \A o \in Mortal : Balance(EmptyMemory, o) = 0
<1> DEFINE m == EmptyMemory
<1>1. /\ m.rc = [o \in Mortal |-> 0] /\ m.items = [o \in Object |-> <<>>]
      /\ m.buffer = [o \in Object |-> "null"] /\ m.used = {} /\ m.undefined = FALSE
  BY DEF EmptyMemory
<1>2. m \in Memories
  BY DEF EmptyMemory, Memories, Buffer
<1>3. InUse(m) = {}
  BY <1>1 DEF InUse
<1>4. Range(<<>>) = {}
  BY DEF Range
<1>5. \A o \in Object : m.items[o] = <<>> /\ m.buffer[o] = "null"
  BY <1>1
<1>6. \A o \in Mortal : m.rc[o] = 0 /\ o \in Object
  BY <1>1 DEF Mortal
<1> HIDE DEF m
<1>7. MemoryOK(m)
  BY <1>2, <1>3, <1>4, <1>5, <1>6 DEF MemoryOK
<1>8. ASSUME NEW o \in Mortal PROVE Balance(m, o) = 0
  <2>1. ItemRefs(m, o) = Count(On(m.items, InUse(m)), o)
    BY <1>7, ItemRefsOn
  <2>2. Finite(On(m.items, InUse(m)))
    BY <1>7, ItemsFinite
  <2>3. DOMAIN On(m.items, InUse(m)) = {}
    BY <1>3 DEF On
  <2>4. Count(On(m.items, InUse(m)), o) = 0
    BY <2>2, <2>3, CountZero
  <2>5. QED
    BY <1>6, <2>1, <2>4 DEF Balance
<1>9. QED
  BY <1>5, <1>7, <1>8 DEF m
=============================================================================
