------------------------------ MODULE JIT_proofs ------------------------------
(***************************************************************************)
(* Proofs about the hot counter and the cache of module JIT, for every     *)
(* optimiser, every program and every threshold: nothing is assumed about  *)
(* what the passes make of the code.                                       *)
(***************************************************************************)
EXTENDS JIT, TLAPS

Names == {program[f].name : f \in DOMAIN program}
Codes == {program[f].code : f \in DOMAIN program}
            \cup {Optimise(program[f].code) : f \in DOMAIN program}

Entry(name, code) == [name |-> name, code |-> code]

-----------------------------------------------------------------------------
(* The cache has one entry for a name, made from a function of that name.   *)
CacheInv ==
    /\ cache \in Seq([name : Names, code : Codes])
    /\ \A i, j \in DOMAIN cache : cache[i].name = cache[j].name => i = j
    /\ \A i \in DOMAIN cache : \E f \in DOMAIN program :
          cache[i] = Entry(program[f].name, Optimise(program[f].code))

(* What is to be said of one function object: it has the code it was made   *)
(* with until its call number Threshold, and from then on that of the entry *)
(* for its name.                                                            *)
ObjectOK(f, o, entries) ==
    /\ o \in [code : Codes, calls : 0 .. Threshold, compiled : BOOLEAN]
    /\ o.compiled <=> o.calls = Threshold
    /\ ~ o.compiled => o.code = program[f].code
    /\ o.compiled => \E i \in DOMAIN entries : entries[i] = Entry(program[f].name, o.code)

ObjectsInv ==
    /\ DOMAIN objects = DOMAIN program
    /\ objects = [f \in DOMAIN program |-> objects[f]]
    /\ \A f \in DOMAIN program : ObjectOK(f, objects[f], cache)

IInv == CacheInv /\ ObjectsInv

-----------------------------------------------------------------------------
(* Nothing has been called, and the cache is empty.                         *)
LEMMA InitInv == Init => IInv
<1> SUFFICES ASSUME Init PROVE IInv
  OBVIOUS
<1>1. CacheInv
  BY DEF Init, CacheInv
<1>2. objects = [f \in DOMAIN program |->
                    [code |-> program[f].code, calls |-> 0, compiled |-> FALSE]]
  BY DEF Init
<1>3. ASSUME NEW f \in DOMAIN program
      PROVE  ObjectOK(f, objects[f], cache)
  <2>1. objects[f] = [code |-> program[f].code, calls |-> 0, compiled |-> FALSE]
    BY <1>2
  <2>2. program[f].code \in Codes
    BY DEF Codes
  <2>3. 0 # Threshold /\ 0 \in 0 .. Threshold
    BY ThresholdAssumption
  <2>4. QED
    BY <2>1, <2>2, <2>3 DEF ObjectOK
<1>4. ObjectsInv
  BY <1>2, <1>3 DEF ObjectsInv
<1>5. QED
  BY <1>1, <1>4 DEF IInv

(* The cache is searched for a name, and found out to have one entry or     *)
(* none.                                                                    *)
LEMMA CachedEntry ==
    ASSUME CacheInv, NEW name, Cached(name) # {}
    PROVE  Min(Cached(name)) \in DOMAIN cache /\ cache[Min(Cached(name))].name = name
<1>1. PICK i \in Cached(name) : TRUE
  OBVIOUS
<1>2. i \in DOMAIN cache /\ cache[i].name = name
  BY <1>1 DEF Cached
<1>3. Cached(name) = {i}
  BY <1>2 DEF Cached, CacheInv
<1>4. i \in Nat
  BY <1>2 DEF CacheInv
<1>5. Min({i}) = i
  BY <1>4 DEF Min
<1>6. QED
  BY <1>2, <1>3, <1>5

(* An object keeps what can be said of it when the others change or the     *)
(* cache grows.                                                             *)
LEMMA ObjectKept ==
    ASSUME NEW f, NEW o, NEW c, NEW d, ObjectOK(f, o, c),
           DOMAIN c \subseteq DOMAIN d, \A i \in DOMAIN c : d[i] = c[i]
    PROVE  ObjectOK(f, o, d)
  BY DEF ObjectOK

(* Making a function hot.                                                   *)
LEMMA CompileKept ==
    ASSUME IInv, NEW f \in DOMAIN program, ~ objects[f].compiled,
           ~ objects[f].calls + 1 < Threshold, Compile(f), program' = program
    PROVE  IInv'
<1> DEFINE name == program[f].name
           found == Cached(name)
           code == IF found # {} THEN cache[Min(found)].code ELSE Optimise(program[f].code)
           new == [objects[f] EXCEPT !.code = code, !.calls = @ + 1, !.compiled = TRUE]
<1>1. /\ objects' = [objects EXCEPT ![f] = [code |-> code, calls |-> @.calls + 1, compiled |-> TRUE]]
      /\ cache' = IF found # {} THEN cache ELSE Append(cache, Entry(name, code))
  BY DEF Compile, Entry
<1>2. Names' = Names /\ Codes' = Codes
  BY DEF Names, Codes
<1>3. name \in Names /\ Optimise(program[f].code) \in Codes
  BY DEF Names, Codes
<1>4. ASSUME found # {}
      PROVE  /\ CacheInv'
             /\ cache' = cache
             /\ \E i \in DOMAIN cache' : cache'[i] = Entry(name, code)
             /\ code \in Codes
  <2> DEFINE i == Min(found)
  <2>1. i \in DOMAIN cache /\ cache[i].name = name
    BY <1>4, CachedEntry DEF IInv
  <2>2. cache' = cache /\ code = cache[i].code
    BY <1>1, <1>4
  <2> HIDE DEF i, code, found
  <2>3. cache[i] \in [name : Names, code : Codes]
    <3> DEFINE E == [name : Names, code : Codes]
    <3>1. cache \in Seq(E)
      BY DEF IInv, CacheInv
    <3> HIDE DEF E
    <3>2. cache[i] \in E
      BY <2>1, <3>1
    <3>3. QED
      BY <3>2 DEF E
  <2>4. cache[i] = Entry(name, code) /\ code \in Codes
    BY <2>1, <2>2, <2>3 DEF Entry
  <2>5. CacheInv'
    BY <1>2, <2>2 DEF IInv, CacheInv
  <2>6. QED
    BY <2>1, <2>2, <2>4, <2>5
<1>5. ASSUME found = {}
      PROVE  /\ CacheInv'
             /\ DOMAIN cache \subseteq DOMAIN cache'
             /\ \A i \in DOMAIN cache : cache'[i] = cache[i]
             /\ \E i \in DOMAIN cache' : cache'[i] = Entry(name, code)
             /\ code \in Codes
  <2>1. code = Optimise(program[f].code) /\ cache' = Append(cache, Entry(name, code))
    BY <1>1, <1>5
  <2>2. \A i \in DOMAIN cache : cache[i].name # name
    BY <1>5 DEF Cached
  <2> HIDE DEF code, found
  <2>3. code \in Codes
    BY <1>3, <2>1
  <2> DEFINE e == Entry(name, code)
             n == Len(cache) + 1
             E == [name : Names, code : Codes]
  <2>4. e \in E /\ e.name = name
    BY <1>3, <2>3 DEF Entry
  <2>5. cache \in Seq(E) /\ cache' = Append(cache, e)
    BY <2>1 DEF IInv, CacheInv
  <2>6. e = Entry(program[f].name, Optimise(program[f].code))
    BY <2>1
  <2> HIDE DEF e, E, name
  <2>7. /\ cache' \in Seq(E)
        /\ DOMAIN cache = 1 .. Len(cache) /\ DOMAIN cache' = 1 .. n
        /\ Len(cache) \in Nat
        /\ \A i \in 1 .. Len(cache) : cache'[i] = cache[i]
        /\ cache'[n] = e
    BY <2>4, <2>5
  <2>8. n \notin DOMAIN cache /\ n \in DOMAIN cache' /\ DOMAIN cache' = DOMAIN cache \cup {n}
    BY <2>7
  <2> HIDE DEF n
  <2>9. \A i, j \in DOMAIN cache' : cache'[i].name = cache'[j].name => i = j
    <3>1. \A i \in DOMAIN cache : cache'[i].name = cache[i].name /\ cache[i].name # name
      BY <2>2, <2>7
    <3>2. cache'[n].name = name
      BY <2>4, <2>7
    <3>3. \A i, j \in DOMAIN cache : cache[i].name = cache[j].name => i = j
      BY DEF IInv, CacheInv
    <3>4. QED
      BY <2>8, <3>1, <3>2, <3>3
  <2>10. ASSUME NEW i \in DOMAIN cache'
         PROVE  \E h \in DOMAIN program :
                   cache'[i] = Entry(program[h].name, Optimise(program[h].code))
    <3>1. CASE i = n
      BY <2>6, <2>7, <3>1
    <3>2. CASE i \in DOMAIN cache
      <4>1. cache'[i] = cache[i]
        BY <2>7, <3>2
      <4>2. QED
        BY <3>2, <4>1 DEF IInv, CacheInv
    <3>3. QED
      BY <2>8, <3>1, <3>2
  <2>11. CacheInv'
    BY <1>2, <2>7, <2>9, <2>10 DEF CacheInv, E
  <2>12. QED
    BY <2>3, <2>7, <2>8, <2>11 DEF e
<1>6. /\ CacheInv'
      /\ DOMAIN cache \subseteq DOMAIN cache' /\ \A i \in DOMAIN cache : cache'[i] = cache[i]
      /\ \E i \in DOMAIN cache' : cache'[i] = Entry(name, code)
      /\ code \in Codes
  <2> HIDE DEF code, found, name
  <2>1. QED
    BY <1>4, <1>5
<1>7. ASSUME NEW h \in DOMAIN program
      PROVE  ObjectOK(h, objects'[h], cache')
  <2>1. CASE h # f
    <3>1. objects'[h] = objects[h]
      BY <1>1, <2>1 DEF IInv, ObjectsInv
    <3>2. ObjectOK(h, objects[h], cache)
      BY DEF IInv, ObjectsInv
    <3> HIDE DEF code
    <3>3. QED
      BY <1>6, <3>1, <3>2, ObjectKept
  <2>2. CASE h = f
    <3>1. objects'[f] = [code |-> code, calls |-> objects[f].calls + 1, compiled |-> TRUE]
      BY <1>1 DEF IInv, ObjectsInv
    <3>2. ObjectOK(f, objects[f], cache)
      BY DEF IInv, ObjectsInv
    <3>3. objects[f].calls + 1 = Threshold
      <4>1. objects[f].calls \in 0 .. Threshold /\ objects[f].calls # Threshold
        BY <3>2 DEF ObjectOK
      <4>2. QED
        BY <4>1, ThresholdAssumption
    <3> HIDE DEF code
    <3>4. Threshold \in 0 .. Threshold
      BY ThresholdAssumption
    <3>5. QED
      BY <1>6, <2>2, <3>1, <3>3, <3>4 DEF ObjectOK
  <2>3. QED
    BY <2>1, <2>2
<1>8. ObjectsInv'
  <2>1. DOMAIN objects' = DOMAIN program /\ objects' = [h \in DOMAIN program |-> objects'[h]]
    BY <1>1 DEF IInv, ObjectsInv
  <2>2. \A h \in DOMAIN program' : ObjectOK(h, objects[h], cache)'
    BY <1>2, <1>7 DEF ObjectOK
  <2>3. QED
    BY <2>1, <2>2 DEF ObjectsInv
<1>9. QED
  BY <1>6, <1>8 DEF IInv

(* A call that only counts.                                                 *)
LEMMA CountKept ==
    ASSUME IInv, NEW f \in DOMAIN program, Count(f), program' = program
    PROVE  IInv'
<1>1. Names' = Names /\ Codes' = Codes
  BY DEF Names, Codes
<1>2. CASE objects[f].compiled
  <2>1. objects' = objects /\ cache' = cache
    BY <1>2 DEF Count
  <2>2. QED
    BY <1>1, <2>1 DEF IInv, CacheInv, ObjectsInv, ObjectOK
<1>3. CASE ~ objects[f].compiled /\ objects[f].calls + 1 < Threshold
  <2>1. objects' = [objects EXCEPT ![f].calls = @ + 1] /\ cache' = cache
    BY <1>3 DEF Count
  <2>2. CacheInv'
    BY <1>1, <2>1 DEF IInv, CacheInv
  <2>3. ASSUME NEW h \in DOMAIN program
        PROVE  ObjectOK(h, objects'[h], cache)
    <3>1. ObjectOK(h, objects[h], cache)
      BY DEF IInv, ObjectsInv
    <3>2. CASE h # f
      <4>1. objects'[h] = objects[h]
        BY <2>1, <3>2 DEF IInv, ObjectsInv
      <4>2. QED
        BY <3>1, <4>1
    <3>3. CASE h = f
      <4>1. objects[f] \in [code : Codes, calls : 0 .. Threshold, compiled : BOOLEAN]
        BY <3>1, <3>3 DEF ObjectOK
      <4>2. /\ objects'[f] \in [code : Codes, calls : Int, compiled : BOOLEAN]
            /\ objects'[f].code = objects[f].code
            /\ objects'[f].calls = objects[f].calls + 1
            /\ objects'[f].compiled = objects[f].compiled
        BY <2>1, <4>1 DEF IInv, ObjectsInv
      <4>3. objects'[f].calls \in 0 .. Threshold /\ objects'[f].calls # Threshold
        BY <1>3, <4>1, <4>2, ThresholdAssumption
      <4>4. QED
        BY <1>3, <3>1, <3>3, <4>2, <4>3 DEF ObjectOK
    <3>4. QED
      BY <3>2, <3>3
  <2>4. DOMAIN objects' = DOMAIN program /\ objects' = [h \in DOMAIN program |-> objects'[h]]
    BY <2>1 DEF IInv, ObjectsInv
  <2>5. \A h \in DOMAIN program' : ObjectOK(h, objects[h], cache)'
    BY <1>1, <2>1, <2>3 DEF ObjectOK
  <2>6. ObjectsInv'
    BY <2>4, <2>5 DEF ObjectsInv
  <2>7. QED
    BY <2>2, <2>6 DEF IInv
<1>4. CASE ~ objects[f].compiled /\ ~ objects[f].calls + 1 < Threshold
  <2>1. Compile(f)
    BY <1>4 DEF Count
  <2>2. QED
    BY <1>4, <2>1, CompileKept
<1>5. QED
  BY <1>2, <1>3, <1>4

(* The execution of code changes neither functions nor cache.               *)
LEMMA NextInv == IInv /\ [Next]_vars => IInv'
<1> SUFFICES ASSUME IInv, [Next]_vars PROVE IInv'
  OBVIOUS
<1>1. ASSUME UNCHANGED <<program, objects, cache>> PROVE IInv'
  <2>1. program' = program /\ objects' = objects /\ cache' = cache
    BY <1>1
  <2>2. Names' = Names /\ Codes' = Codes
    BY <2>1 DEF Names, Codes
  <2>3. CacheInv' /\ ObjectsInv'
    BY <2>1, <2>2 DEF IInv, CacheInv, ObjectsInv, ObjectOK
  <2>4. QED
    BY <2>3 DEF IInv
<1>2. ASSUME NEW f \in DOMAIN program, Start(f) PROVE IInv'
  <2>1. Count(f) /\ program' = program
    BY <1>2 DEF Start
  <2>2. QED
    BY <2>1, CountKept
<1>3. ASSUME NEW w \in Machines, Silent(w) PROVE UNCHANGED <<program, objects, cache>>
  <2>1. PICK m : Becomes(w, m)
    BY <1>3 DEF Silent, LoadValue, LoadVariable, PushNull, UnaryOp, BinaryOp, StoreLocal,
                LoadSubscr, StoreSubscr, BuildArray, SwapArrayElements, CompareAndSwap,
                PopJumpIfFalse, JumpForward, JumpBackward, LoopMarker, BreakLoop, ContinueLoop,
                Computes, GoTo
  <2>2. QED
    BY <2>1 DEF Becomes
<1>4. CASE CallOther \/ StoreGlobal \/ Finish
  BY <1>1, <1>4 DEF CallOther, StoreGlobal, Finish
<1>5. CASE UNCHANGED vars
  BY <1>1, <1>5 DEF vars
<1>6. QED
  BY <1>1, <1>2, <1>3, <1>4, <1>5 DEF Next

-----------------------------------------------------------------------------
(* The theorems.                                                            *)

(* A function object has the code it was made with until it is hot; then    *)
(* it has what the optimiser made of the code of a function of its name,    *)
(* and it is not counted any more.                                          *)
THEOREM Invariance == Spec => []IInv
<1>1. Init => IInv
  BY InitInv
<1>2. IInv /\ [Next]_vars => IInv'
  BY NextInv
<1>3. QED
  BY <1>1, <1>2, PTL DEF Spec

(* A name is optimised once, and every hot function of that name has the    *)
(* code in the cache, however often it is declared and called anew.         *)
THEOREM Once == Spec => []OptimisedOnce
<1>1. IInv => OptimisedOnce
  <2> SUFFICES ASSUME IInv, NEW f \in DOMAIN program, objects[f].compiled
               PROVE  \E i \in DOMAIN cache :
                         /\ \A j \in DOMAIN cache : cache[j].name = program[f].name <=> j = i
                         /\ objects[f].code = cache[i].code
    BY DEF OptimisedOnce
  <2>1. PICK i \in DOMAIN cache : cache[i] = Entry(program[f].name, objects[f].code)
    BY DEF IInv, ObjectsInv, ObjectOK
  <2>2. cache[i].name = program[f].name /\ cache[i].code = objects[f].code
    BY <2>1 DEF Entry
  <2>3. \A j \in DOMAIN cache : cache[j].name = program[f].name <=> j = i
    BY <2>2 DEF IInv, CacheInv
  <2>4. QED
    BY <2>2, <2>3
<1>2. QED
  BY <1>1, Invariance, PTL
================================================================================
