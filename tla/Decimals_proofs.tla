---------------------------- MODULE Decimals_proofs ----------------------------
(***************************************************************************)
(* Facts about the digit arithmetic of module Decimals, for strings of any *)
(* length: what the operators make of the numbers that the strings stand   *)
(* for.  Induction is over sets of numbers: the numbers for which a fact   *)
(* holds are a set that contains 0 and, with a number, the next one.       *)
(***************************************************************************)
EXTENDS Decimals, NaturalsInduction, WellFoundedInduction, SequenceTheorems, TLAPS

-----------------------------------------------------------------------------
(* Numbers.                                                                *)

(* A set of numbers that is not empty has a least element. *)
LEMMA LeastNat ==
    ASSUME NEW I \in SUBSET Nat, I # {}
    PROVE  \E k \in I : \A j \in I : k <= j
<1> DEFINE Less == OpToRel(<, Nat)
<1>1. PICK k \in I : \A j \in I : <<j, k>> \notin Less
  <2>1. IsWellFoundedOn(Less, Nat)
    BY NatLessThanWellFounded
  <2> HIDE DEF Less
  <2>2. QED
    BY <2>1, WFMin
<1>2. ASSUME NEW j \in I PROVE k <= j
  <2>1. j \in Nat /\ k \in Nat
    OBVIOUS
  <2>2. ~ j < k
    BY <1>1, <2>1 DEF OpToRel
  <2> HIDE DEF Less
  <2>3. QED
    BY <2>1, <2>2
<1>3. QED
  BY <1>2

(* A set that contains 0 and, with a number, the next one contains them all. *)
LEMMA Induction ==
    ASSUME NEW S, 0 \in S, \A n \in Nat : n \in S => n + 1 \in S
    PROVE  \A n \in Nat : n \in S
<1> DEFINE Bad == {n \in Nat : n \notin S}
<1>1. SUFFICES ASSUME Bad # {} PROVE FALSE
  OBVIOUS
<1>2. PICK k \in Bad : \A j \in Bad : k <= j
  BY <1>1, LeastNat
<1>3. k # 0 /\ k - 1 \in Nat
  OBVIOUS
<1>4. k - 1 \in S
  BY <1>2, <1>3
<1>5. QED
  BY <1>3, <1>4

(* A finite set of numbers that is not empty has a largest element. *)
LEMMA LargestNat ==
    ASSUME NEW n \in Nat, NEW I \in SUBSET (0 .. n), I # {}
    PROVE  \E k \in I : \A j \in I : j <= k
<1> DEFINE J == {n - i : i \in I}
<1>1. J \in SUBSET Nat /\ J # {}
  <2>1. \A i \in I : i \in 0 .. n
    OBVIOUS
  <2>2. \A i \in I : n - i \in Nat
    BY <2>1
  <2>3. QED
    BY <2>2
<1>2. PICK k \in J : \A j \in J : k <= j
  BY <1>1, LeastNat
<1>3. PICK i \in I : k = n - i
  BY <1>2
<1>4. \A j \in I : j <= i
  BY <1>2, <1>3
<1>5. QED
  BY <1>4

(* Min and Max are the least and the largest element of a set that has one. *)
LEMMA MinNat ==
    ASSUME NEW I \in SUBSET Nat, I # {}
    PROVE  Min(I) \in I /\ \A j \in I : Min(I) <= j
<1>1. \E k \in I : \A j \in I : k <= j
  BY LeastNat
<1>2. QED
  BY <1>1 DEF Min

(* The largest element of a set of numbers that has a bound, as Max gives it. *)
LEMMA MaxNat ==
    ASSUME NEW n \in Nat, NEW I \in SUBSET (0 .. n), I # {}
    PROVE  Max(I) \in I /\ \A j \in I : j <= Max(I)
<1>1. \E k \in I : \A j \in I : j <= k
  BY LargestNat
<1>2. QED
  BY <1>1 DEF Max

(* The values of g are in V, the first is a, and H leads to the next one.    *)
Follows(g, V, a, H) == g \in [Nat -> V] /\ g[0] = a /\ \A n \in Nat : g[n + 1] = H[n][g[n]]

(* There is such a function: recursion over the numbers defines something.   *)
LEMMA Recursion ==
    ASSUME NEW V, NEW a \in V, NEW H \in [Nat -> [V -> V]]
    PROVE  \E g : Follows(g, V, a, H)
<1> DEFINE Upto(f, n) == /\ f \in [0 .. n -> V]
                            /\ f[0] = a
                            /\ \A i \in 0 .. n - 1 : f[i + 1] = H[i][f[i]]
           S == {n \in Nat : \E f : Upto(f, n)}
           F(n) == CHOOSE f : Upto(f, n)
<1>1. 0 \in S
  <2>1. Upto([i \in 0 .. 0 |-> a], 0)
    OBVIOUS
  <2>2. QED
    BY <2>1
<1>2. ASSUME NEW n \in Nat, n \in S PROVE n + 1 \in S
  <2>1. PICK f : Upto(f, n)
    BY <1>2
  <2> DEFINE g == [i \in 0 .. n + 1 |-> IF i = n + 1 THEN H[n][f[n]] ELSE f[i]]
  <2>2. H[n][f[n]] \in V
    BY <2>1
  <2>3. g \in [0 .. n + 1 -> V] /\ g[0] = a
    BY <2>1, <2>2
  <2>4. ASSUME NEW i \in 0 .. (n + 1) - 1 PROVE g[i + 1] = H[i][g[i]]
    <3>1. i + 1 \in 0 .. n + 1 /\ i \in 0 .. n + 1 /\ i # n + 1
      OBVIOUS
    <3>2. g[i] = f[i]
      BY <3>1
    <3>3. CASE i = n
      BY <3>1, <3>2, <3>3
    <3>4. CASE i \in 0 .. n - 1
      BY <2>1, <3>1, <3>2, <3>4
    <3>5. QED
      BY <3>3, <3>4
  <2>5. Upto(g, n + 1)
    <3> HIDE DEF g
    <3> QED
      BY <2>3, <2>4
  <2>6. \E h : Upto(h, n + 1)
    <3> HIDE DEF g, Upto
    <3> QED
      BY <2>5
  <2>7. QED
    BY <2>6
<1>3. \A n \in Nat : n \in S
  <2> HIDE DEF S
  <2> QED
    BY <1>1, <1>2, Induction
<1>4. \A n \in Nat : Upto(F(n), n)
  BY <1>3
<1>5. ASSUME NEW n \in Nat PROVE \A i \in 0 .. n : F(n)[i] = F(n + 1)[i]
  <2> DEFINE T == {i \in Nat : i <= n => F(n)[i] = F(n + 1)[i]}
  <2> HIDE DEF F
  <2>1. 0 \in T
    BY <1>4
  <2>2. ASSUME NEW i \in Nat, i \in T PROVE i + 1 \in T
    <3>1. SUFFICES ASSUME i + 1 <= n PROVE F(n)[i + 1] = F(n + 1)[i + 1]
      OBVIOUS
    <3>2. F(n)[i] = F(n + 1)[i] /\ i \in 0 .. n - 1 /\ i \in 0 .. (n + 1) - 1
      BY <2>2, <3>1
    <3>3. F(n)[i + 1] = H[i][F(n)[i]]
      BY <1>4, <3>2
    <3>4. F(n + 1)[i + 1] = H[i][F(n + 1)[i]]
      BY <1>4, <3>2
    <3>5. QED
      BY <3>2, <3>3, <3>4
  <2>3. \A i \in Nat : i \in T
    <3> HIDE DEF T
    <3> QED
      BY <2>1, <2>2, Induction
  <2>4. QED
    BY <2>3
<1> DEFINE g == [n \in Nat |-> F(n)[n]]
<1> HIDE DEF F
<1>6. g \in [Nat -> V] /\ g[0] = a
  BY <1>4
<1>7. ASSUME NEW n \in Nat PROVE g[n + 1] = H[n][g[n]]
  <2>1. F(n + 1)[n + 1] = H[n][F(n + 1)[n]]
    BY <1>4
  <2>2. F(n)[n] = F(n + 1)[n]
    BY <1>5
  <2>3. QED
    BY <2>1, <2>2
<1>8. Follows(g, V, a, H)
  <2> HIDE DEF g
  <2> QED
    BY <1>6, <1>7 DEF Follows
<1>9. QED
  BY <1>8

-----------------------------------------------------------------------------
(* Powers of ten.                                                          *)

(* The recursion of Tens defines a function. *)
LEMMA TensFacts ==
    /\ Tens \in [Nat -> Nat]
    /\ Tens[0] = 1
    /\ \A n \in Nat : Tens[n + 1] = 10 * Tens[n]
<1> DEFINE H == [n \in Nat |-> [v \in Nat |-> 10 * v]]
<1>1. H \in [Nat -> [Nat -> Nat]]
  OBVIOUS
<1>2. PICK g : Follows(g, Nat, 1, H)
  <2>1. 1 \in Nat
    OBVIOUS
  <2> HIDE DEF H
  <2>2. QED
    BY <1>1, <2>1, Recursion
<1>3. \A n \in Nat : g[n + 1] = 10 * g[n]
  BY <1>2 DEF Follows
<1>4. g = [n \in Nat |-> IF n = 0 THEN 1 ELSE 10 * g[n - 1]]
  <2>1. ASSUME NEW n \in Nat PROVE g[n] = IF n = 0 THEN 1 ELSE 10 * g[n - 1]
    <3>1. CASE n = 0
      BY <1>2, <3>1 DEF Follows
    <3>2. CASE n # 0
      <4>1. n - 1 \in Nat /\ (n - 1) + 1 = n
        BY <3>2
      <4>2. QED
        BY <1>3, <3>2, <4>1
    <3>3. QED
      BY <3>1, <3>2
  <2>2. QED
    BY <1>2, <2>1 DEF Follows
<1>5. Tens = [n \in Nat |-> IF n = 0 THEN 1 ELSE 10 * Tens[n - 1]]
  BY <1>4 DEF Tens
<1>6. Tens[0] = 1
  BY <1>5
<1>7. \A n \in Nat : Tens[n + 1] = 10 * Tens[n]
  <2>1. ASSUME NEW n \in Nat PROVE Tens[n + 1] = 10 * Tens[n]
    <3>1. n + 1 \in Nat /\ n + 1 # 0 /\ (n + 1) - 1 = n
      OBVIOUS
    <3>2. QED
      BY <1>5, <3>1
  <2>2. QED
    BY <2>1
<1>8. \A n \in Nat : Tens[n] \in Nat
  <2> DEFINE S == {n \in Nat : Tens[n] \in Nat}
  <2>1. 0 \in S
    BY <1>6
  <2>2. ASSUME NEW n \in Nat, n \in S PROVE n + 1 \in S
    BY <1>7, <2>2
  <2>3. \A n \in Nat : n \in S
    <3> HIDE DEF S
    <3> QED
      BY <2>1, <2>2, Induction
  <2>4. QED
    BY <2>3
<1>9. QED
  BY <1>5, <1>6, <1>7, <1>8

(* Powers are positive. *)
LEMMA TensPositive == \A n \in Nat : Tens[n] \in Nat /\ Tens[n] >= 1
<1> DEFINE S == {n \in Nat : Tens[n] >= 1}
<1>1. 0 \in S
  BY TensFacts
<1>2. ASSUME NEW n \in Nat, n \in S PROVE n + 1 \in S
  BY <1>2, TensFacts
<1>3. \A n \in Nat : n \in S
  <2> HIDE DEF S
  <2> QED
    BY <1>1, <1>2, Induction
<1>4. QED
  BY <1>3, TensFacts

(* The product of two powers. *)
LEMMA TensSum ==
    ASSUME NEW m \in Nat
    PROVE  \A n \in Nat : Tens[m + n] = Tens[m] * Tens[n]
<1> DEFINE S == {n \in Nat : Tens[m + n] = Tens[m] * Tens[n]}
<1>1. 0 \in S
  BY TensFacts
<1>2. ASSUME NEW n \in Nat, n \in S PROVE n + 1 \in S
  <2>1. Tens[m + (n + 1)] = 10 * Tens[m + n]
    <3>1. m + (n + 1) = (m + n) + 1 /\ m + n \in Nat
      OBVIOUS
    <3>2. QED
      BY <3>1, TensFacts
  <2>2. Tens[n + 1] = 10 * Tens[n]
    BY TensFacts
  <2>3. Tens[m] \in Nat /\ Tens[n] \in Nat
    BY TensFacts
  <2>4. QED
    BY <1>2, <2>1, <2>2, <2>3
<1>3. \A n \in Nat : n \in S
  <2> HIDE DEF S
  <2> QED
    BY <1>1, <1>2, Induction
<1>4. QED
  BY <1>3

-----------------------------------------------------------------------------
(* The weight of digits, given as a function from places to numbers.       *)

(* The recursion of Weight defines a function. *)
LEMMA WeightFacts ==
    ASSUME NEW d \in [Nat -> Int]
    PROVE  /\ Weight(d) \in [Nat -> Int]
           /\ Weight(d)[0] = 0
           /\ \A n \in Nat : Weight(d)[n + 1] = Weight(d)[n] + d[n] * Tens[n]
<1> DEFINE H == [n \in Nat |-> [v \in Int |-> v + d[n] * Tens[n]]]
           low == CHOOSE g : g = [n \in Nat |-> IF n = 0 THEN 0
                                                ELSE g[n - 1] + d[n - 1] * Tens[n - 1]]
<1>1. H \in [Nat -> [Int -> Int]]
  <2>1. \A n \in Nat : d[n] * Tens[n] \in Int
    BY TensFacts
  <2>2. QED
    BY <2>1
<1>2. PICK g : Follows(g, Int, 0, H)
  <2>1. 0 \in Int
    OBVIOUS
  <2> HIDE DEF H
  <2>2. QED
    BY <1>1, <2>1, Recursion
<1>3. \A n \in Nat : g[n + 1] = g[n] + d[n] * Tens[n]
  BY <1>2 DEF Follows
<1>4. g = [n \in Nat |-> IF n = 0 THEN 0 ELSE g[n - 1] + d[n - 1] * Tens[n - 1]]
  <2>1. ASSUME NEW n \in Nat
        PROVE  g[n] = IF n = 0 THEN 0 ELSE g[n - 1] + d[n - 1] * Tens[n - 1]
    <3>1. CASE n = 0
      BY <1>2, <3>1 DEF Follows
    <3>2. CASE n # 0
      <4>1. n - 1 \in Nat /\ (n - 1) + 1 = n
        BY <3>2
      <4>2. QED
        BY <1>3, <3>2, <4>1
    <3>3. QED
      BY <3>1, <3>2
  <2>2. QED
    BY <1>2, <2>1 DEF Follows
<1>5. low = [n \in Nat |-> IF n = 0 THEN 0 ELSE low[n - 1] + d[n - 1] * Tens[n - 1]]
  BY <1>4
<1>6. Weight(d) = low
  BY DEF Weight
<1> HIDE DEF low
<1>7. low[0] = 0
  BY <1>5
<1>8. \A n \in Nat : low[n + 1] = low[n] + d[n] * Tens[n]
  <2>1. ASSUME NEW n \in Nat PROVE low[n + 1] = low[n] + d[n] * Tens[n]
    <3>1. n + 1 \in Nat /\ n + 1 # 0 /\ (n + 1) - 1 = n
      OBVIOUS
    <3>2. QED
      BY <1>5, <3>1
  <2>2. QED
    BY <2>1
<1>9. \A n \in Nat : low[n] \in Int
  <2> DEFINE S == {n \in Nat : low[n] \in Int}
  <2>1. 0 \in S
    BY <1>7
  <2>2. ASSUME NEW n \in Nat, n \in S PROVE n + 1 \in S
    <3>1. d[n] * Tens[n] \in Int
      BY TensFacts
    <3>2. QED
      BY <1>8, <2>2, <3>1
  <2>3. \A n \in Nat : n \in S
    <3> HIDE DEF S
    <3> QED
      BY <2>1, <2>2, Induction
  <2>4. QED
    BY <2>3
<1>10. QED
  BY <1>5, <1>6, <1>7, <1>8, <1>9

(* Only the digits that are counted matter. *)
LEMMA WeightSame ==
    ASSUME NEW d \in [Nat -> Int], NEW e \in [Nat -> Int],
           NEW m \in Nat, \A k \in 0 .. m - 1 : d[k] = e[k]
    PROVE  Weight(d)[m] = Weight(e)[m]
<1> DEFINE S == {n \in Nat : n <= m => Weight(d)[n] = Weight(e)[n]}
<1>1. 0 \in S
  BY WeightFacts
<1>2. ASSUME NEW n \in Nat, n \in S PROVE n + 1 \in S
  BY <1>2, WeightFacts
<1>3. \A n \in Nat : n \in S
  <2> HIDE DEF S
  <2> QED
    BY <1>1, <1>2, Induction
<1>4. QED
  BY <1>3

(* A sum place by place is a sum. *)
LEMMA WeightSum ==
    ASSUME NEW d \in [Nat -> Int], NEW e \in [Nat -> Int], NEW f \in [Nat -> Int],
           NEW m \in Nat, \A k \in 0 .. m - 1 : f[k] = d[k] + e[k]
    PROVE  Weight(f)[m] = Weight(d)[m] + Weight(e)[m]
<1> DEFINE S == {n \in Nat : n <= m => Weight(f)[n] = Weight(d)[n] + Weight(e)[n]}
<1>1. 0 \in S
  BY WeightFacts
<1>2. ASSUME NEW n \in Nat, n \in S PROVE n + 1 \in S
  <2>1. SUFFICES ASSUME n + 1 <= m
                 PROVE  Weight(f)[n + 1] = Weight(d)[n + 1] + Weight(e)[n + 1]
    OBVIOUS
  <2>2. f[n] = d[n] + e[n] /\ d[n] \in Int /\ e[n] \in Int /\ Tens[n] \in Nat
    BY <2>1, TensFacts
  <2>3. f[n] * Tens[n] = d[n] * Tens[n] + e[n] * Tens[n]
    BY <2>2
  <2>4. QED
    <3>1. Weight(f)[n + 1] = Weight(f)[n] + f[n] * Tens[n]
      BY WeightFacts
    <3>2. Weight(d)[n + 1] = Weight(d)[n] + d[n] * Tens[n]
      BY WeightFacts
    <3>3. Weight(e)[n + 1] = Weight(e)[n] + e[n] * Tens[n]
      BY WeightFacts
    <3>4. Weight(d)[n] \in Int /\ Weight(e)[n] \in Int /\ Weight(f)[n] \in Int
      BY WeightFacts
    <3>5. d[n] * Tens[n] \in Int /\ e[n] * Tens[n] \in Int
      BY <2>2
    <3>6. QED
      BY <1>2, <2>1, <2>3, <3>1, <3>2, <3>3, <3>4, <3>5
<1>3. \A n \in Nat : n \in S
  <2> HIDE DEF S
  <2> QED
    BY <1>1, <1>2, Induction
<1>4. QED
  BY <1>3

(* A multiple of each place is a multiple. *)
LEMMA WeightTimes ==
    ASSUME NEW d \in [Nat -> Int], NEW e \in [Nat -> Int], NEW c \in Int,
           NEW m \in Nat, \A k \in 0 .. m - 1 : e[k] = c * d[k]
    PROVE  Weight(e)[m] = c * Weight(d)[m]
<1> DEFINE S == {n \in Nat : n <= m => Weight(e)[n] = c * Weight(d)[n]}
<1>1. 0 \in S
  BY WeightFacts
<1>2. ASSUME NEW n \in Nat, n \in S PROVE n + 1 \in S
  <2>1. SUFFICES ASSUME n + 1 <= m PROVE Weight(e)[n + 1] = c * Weight(d)[n + 1]
    OBVIOUS
  <2>2. e[n] = c * d[n] /\ d[n] \in Int /\ Tens[n] \in Nat /\ Weight(d)[n] \in Int
    BY <2>1, TensFacts, WeightFacts
  <2>3. c * (Weight(d)[n] + d[n] * Tens[n]) = c * Weight(d)[n] + (c * d[n]) * Tens[n]
    BY <2>2
  <2>4. QED
    BY <1>2, <2>1, <2>2, <2>3, WeightFacts
<1>3. \A n \in Nat : n \in S
  <2> HIDE DEF S
  <2> QED
    BY <1>1, <1>2, Induction
<1>4. QED
  BY <1>3

(* Zeros in front weigh nothing. *)
LEMMA WeightZeros ==
    ASSUME NEW d \in [Nat -> Int], NEW m \in Nat, NEW n \in Nat,
           \A k \in m .. m + n - 1 : d[k] = 0
    PROVE  Weight(d)[m + n] = Weight(d)[m]
<1> DEFINE S == {i \in Nat : i <= n => Weight(d)[m + i] = Weight(d)[m]}
<1>1. 0 \in S
  BY WeightFacts
<1>2. ASSUME NEW i \in Nat, i \in S PROVE i + 1 \in S
  <2>1. SUFFICES ASSUME i + 1 <= n PROVE Weight(d)[m + (i + 1)] = Weight(d)[m]
    OBVIOUS
  <2>2. Weight(d)[(m + i) + 1] = Weight(d)[m + i] + d[m + i] * Tens[m + i]
    BY WeightFacts
  <2>3. d[m + i] = 0 /\ Tens[m + i] \in Nat
    BY <2>1, TensFacts
  <2>4. Weight(d)[m + i] \in Int
    BY WeightFacts
  <2>5. QED
    BY <1>2, <2>1, <2>2, <2>3, <2>4
<1>3. \A i \in Nat : i \in S
  <2> HIDE DEF S
  <2> QED
    BY <1>1, <1>2, Induction
<1>4. QED
  BY <1>3

(* Digits that are moved to the left weigh more. *)
LEMMA WeightShift ==
    ASSUME NEW d \in [Nat -> Int], NEW e \in [Nat -> Int], NEW m \in Nat, NEW n \in Nat,
           \A k \in 0 .. m - 1 : e[k] = 0,
           \A k \in 0 .. n - 1 : e[m + k] = d[k]
    PROVE  Weight(e)[m + n] = Weight(d)[n] * Tens[m]
<1> DEFINE S == {i \in Nat : i <= n => Weight(e)[m + i] = Weight(d)[i] * Tens[m]}
<1>1. 0 \in S
  <2>1. Weight(e)[0 + m] = Weight(e)[0]
    BY WeightZeros
  <2>2. QED
    BY <2>1, WeightFacts, TensFacts
<1>2. ASSUME NEW i \in Nat, i \in S PROVE i + 1 \in S
  <2>1. SUFFICES ASSUME i + 1 <= n PROVE Weight(e)[m + (i + 1)] = Weight(d)[i + 1] * Tens[m]
    OBVIOUS
  <2>2. Weight(e)[(m + i) + 1] = Weight(e)[m + i] + e[m + i] * Tens[m + i]
    BY WeightFacts
  <2>3. e[m + i] = d[i] /\ Tens[m + i] = Tens[m] * Tens[i]
    BY <2>1, TensSum
  <2>4. Weight(d)[i + 1] = Weight(d)[i] + d[i] * Tens[i]
    BY WeightFacts
  <2>5. d[i] \in Int /\ Tens[m] \in Nat /\ Tens[i] \in Nat /\ Weight(d)[i] \in Int
    BY WeightFacts, TensFacts
  <2>6. (Weight(d)[i] + d[i] * Tens[i]) * Tens[m] = Weight(d)[i] * Tens[m] + d[i] * (Tens[m] * Tens[i])
    BY <2>5
  <2>7. QED
    BY <1>2, <2>1, <2>2, <2>3, <2>4, <2>6
<1>3. \A i \in Nat : i \in S
  <2> HIDE DEF S
  <2> QED
    BY <1>1, <1>2, Induction
<1>4. QED
  BY <1>3

(* Digits weigh less than one in the next place. *)
LEMMA WeightBound ==
    ASSUME NEW d \in [Nat -> Int], NEW m \in Nat, \A k \in 0 .. m - 1 : d[k] \in 0 .. 9
    PROVE  Weight(d)[m] >= 0 /\ Weight(d)[m] < Tens[m]
<1> DEFINE S == {n \in Nat : n <= m => Weight(d)[n] >= 0 /\ Weight(d)[n] < Tens[n]}
<1>1. 0 \in S
  BY WeightFacts, TensFacts
<1>2. ASSUME NEW n \in Nat, n \in S PROVE n + 1 \in S
  <2>1. SUFFICES ASSUME n + 1 <= m
                 PROVE  Weight(d)[n + 1] >= 0 /\ Weight(d)[n + 1] < Tens[n + 1]
    OBVIOUS
  <2>2. Weight(d)[n + 1] = Weight(d)[n] + d[n] * Tens[n] /\ Tens[n + 1] = 10 * Tens[n]
    BY WeightFacts, TensFacts
  <2>3. d[n] \in 0 .. 9 /\ Tens[n] \in Nat /\ Weight(d)[n] \in Int
    BY <2>1, WeightFacts, TensFacts
  <2>4. d[n] * Tens[n] >= 0 /\ d[n] * Tens[n] <= 9 * Tens[n]
    BY <2>3
  <2>5. QED
    BY <1>2, <2>1, <2>2, <2>3, <2>4
<1>3. \A n \in Nat : n \in S
  <2> HIDE DEF S
  <2> QED
    BY <1>1, <1>2, Induction
<1>4. QED
  BY <1>3

(* With digits that are not negative, more of them weigh more. *)
LEMMA WeightGrows ==
    ASSUME NEW d \in [Nat -> Int], NEW m \in Nat, NEW n \in Nat,
           \A k \in m .. m + n - 1 : d[k] >= 0
    PROVE  Weight(d)[m] <= Weight(d)[m + n]
<1> DEFINE S == {i \in Nat : i <= n => Weight(d)[m] <= Weight(d)[m + i]}
<1>1. 0 \in S
  BY WeightFacts
<1>2. ASSUME NEW i \in Nat, i \in S PROVE i + 1 \in S
  <2>1. SUFFICES ASSUME i + 1 <= n PROVE Weight(d)[m] <= Weight(d)[m + (i + 1)]
    OBVIOUS
  <2>2. Weight(d)[(m + i) + 1] = Weight(d)[m + i] + d[m + i] * Tens[m + i]
    BY WeightFacts
  <2>3. d[m + i] \in Nat /\ Tens[m + i] \in Nat
    BY <2>1, TensFacts
  <2>4. d[m + i] * Tens[m + i] >= 0
    BY <2>3
  <2>5. Weight(d)[m + i] \in Int /\ Weight(d)[m] \in Int /\ d[m + i] * Tens[m + i] \in Int
    BY <2>3, WeightFacts
  <2>6. QED
    BY <1>2, <2>1, <2>2, <2>4, <2>5
<1>3. \A i \in Nat : i \in S
  <2> HIDE DEF S
  <2> QED
    BY <1>1, <1>2, Induction
<1>4. QED
  BY <1>3

(* No digit weighs more than all of them. *)
LEMMA WeightOfOne ==
    ASSUME NEW d \in [Nat -> Int], NEW m \in Nat, \A k \in 0 .. m - 1 : d[k] >= 0,
           NEW p \in 0 .. m - 1
    PROVE  d[p] * Tens[p] <= Weight(d)[m]
<1>1. Weight(d)[p + 1] = Weight(d)[p] + d[p] * Tens[p]
  BY WeightFacts
<1>2. Weight(d)[0] <= Weight(d)[0 + p]
  <2>1. \A k \in 0 .. 0 + p - 1 : d[k] >= 0
    OBVIOUS
  <2>2. 0 \in Nat /\ p \in Nat
    OBVIOUS
  <2>3. QED
    BY <2>1, <2>2, WeightGrows
<1>3. Weight(d)[p + 1] <= Weight(d)[(p + 1) + (m - p - 1)]
  BY WeightGrows
<1>4. /\ Weight(d)[p] \in Int /\ Weight(d)[p + 1] \in Int /\ Weight(d)[m] \in Int
      /\ Weight(d)[0] = 0 /\ d[p] * Tens[p] \in Int
  BY WeightFacts, TensFacts
<1>5. QED
  BY <1>1, <1>2, <1>3, <1>4

(* Where the digits are the same, the weight grows by the same. *)
LEMMA WeightSameAbove ==
    ASSUME NEW d \in [Nat -> Int], NEW e \in [Nat -> Int], NEW m \in Nat, NEW n \in Nat,
           \A k \in m .. m + n - 1 : d[k] = e[k]
    PROVE  Weight(d)[m + n] - Weight(d)[m] = Weight(e)[m + n] - Weight(e)[m]
<1> DEFINE S == {i \in Nat : i <= n =>
                     Weight(d)[m + i] - Weight(d)[m] = Weight(e)[m + i] - Weight(e)[m]}
<1>1. 0 \in S
  BY WeightFacts
<1>2. ASSUME NEW i \in Nat, i \in S PROVE i + 1 \in S
  <2>1. SUFFICES ASSUME i + 1 <= n
                 PROVE  Weight(d)[m + (i + 1)] - Weight(d)[m]
                            = Weight(e)[m + (i + 1)] - Weight(e)[m]
    OBVIOUS
  <2>2. /\ Weight(d)[(m + i) + 1] = Weight(d)[m + i] + d[m + i] * Tens[m + i]
        /\ Weight(e)[(m + i) + 1] = Weight(e)[m + i] + e[m + i] * Tens[m + i]
    BY WeightFacts
  <2>3. d[m + i] = e[m + i] /\ d[m + i] * Tens[m + i] \in Int
    BY <2>1, TensFacts
  <2>4. /\ Weight(d)[m + i] \in Int /\ Weight(d)[m] \in Int
        /\ Weight(e)[m + i] \in Int /\ Weight(e)[m] \in Int
    BY WeightFacts
  <2>5. QED
    BY <1>2, <2>1, <2>2, <2>3, <2>4
<1>3. \A i \in Nat : i \in S
  <2> HIDE DEF S
  <2> QED
    BY <1>1, <1>2, Induction
<1>4. QED
  BY <1>3

(* Powers grow. *)
LEMMA TensGrow ==
    ASSUME NEW m \in Nat, NEW n \in Nat, m <= n
    PROVE  Tens[m] <= Tens[n]
<1>1. Tens[m + (n - m)] = Tens[m] * Tens[n - m]
  BY TensSum
<1>2. Tens[m] \in Nat /\ Tens[n - m] \in Nat /\ Tens[n - m] >= 1
  BY TensPositive
<1>3. Tens[m] <= Tens[m] * Tens[n - m]
  BY <1>2
<1>4. QED
  BY <1>1, <1>3

-----------------------------------------------------------------------------
(* Strings of digits.                                                      *)

Digits(s) == [k \in Nat |-> Digit(s, k)]

(* The digits of a string, and zeros in front of it. *)
LEMMA DigitsType ==
    ASSUME NEW s \in Seq(Int)
    PROVE  /\ Digits(s) \in [Nat -> Int]
           /\ \A k \in Nat : Digits(s)[k] = Digit(s, k)
           /\ \A k \in Nat : k >= Len(s) => Digit(s, k) = 0
           /\ \A k \in 0 .. Len(s) - 1 : Digit(s, k) = s[Len(s) - k]
           /\ Value(s) = Weight(Digits(s))[Len(s)]
           /\ Value(s) \in Int
<1>1. Len(s) \in Nat /\ \A i \in 1 .. Len(s) : s[i] \in Int
  OBVIOUS
<1>2. \A k \in Nat : Digit(s, k) \in Int
  BY <1>1 DEF Digit
<1>3. Digits(s) \in [Nat -> Int]
  BY <1>2 DEF Digits
<1>4. Value(s) = Weight(Digits(s))[Len(s)]
  BY DEF Value, Digits
<1>5. \A k \in Nat : Digits(s)[k] = Digit(s, k)
  BY DEF Digits
<1>6. /\ \A k \in Nat : k >= Len(s) => Digit(s, k) = 0
      /\ \A k \in 0 .. Len(s) - 1 : Digit(s, k) = s[Len(s) - k]
  BY <1>1 DEF Digit
<1>7. Weight(Digits(s))[Len(s)] \in Int
  <2>1. Weight(Digits(s)) \in [Nat -> Int]
    BY <1>3, WeightFacts
  <2>2. QED
    BY <1>1, <2>1
<1>8. QED
  BY <1>3, <1>4, <1>5, <1>6, <1>7

(* The zeros in front count for nothing. *)
LEMMA ValueAt ==
    ASSUME NEW s \in Seq(Int), NEW n \in Nat, Len(s) <= n
    PROVE  Value(s) = Weight(Digits(s))[n]
<1>1. Weight(Digits(s))[Len(s) + (n - Len(s))] = Weight(Digits(s))[Len(s)]
  <2> DEFINE d == Digits(s)
             m == Len(s)
  <2>1. d \in [Nat -> Int] /\ m \in Nat /\ n - m \in Nat
    BY DigitsType
  <2>2. \A k \in m .. m + (n - m) - 1 : d[k] = 0
    BY <2>1, DigitsType
  <2> HIDE DEF d, m
  <2>3. Weight(d)[m + (n - m)] = Weight(d)[m]
    BY <2>1, <2>2, WeightZeros
  <2>4. QED
    BY <2>3 DEF d, m
<1>2. QED
  BY <1>1, DigitsType

(* Two strings with the same digits in all places have the same value. *)
LEMMA ValueSame ==
    ASSUME NEW s \in Seq(Int), NEW t \in Seq(Int), \A k \in Nat : Digit(s, k) = Digit(t, k)
    PROVE  Value(s) = Value(t)
<1>1. Digits(s) = Digits(t)
  BY DEF Digits
<1>2. Len(s) \in Nat /\ Len(t) \in Nat
  OBVIOUS
<1>3. PICK n \in Nat : Len(s) <= n /\ Len(t) <= n
  BY <1>2
<1>4. Value(s) = Weight(Digits(s))[n] /\ Value(t) = Weight(Digits(t))[n]
  BY <1>3, ValueAt
<1>5. QED
  BY <1>1, <1>4

(* The digits of t are those of s, m places to the left. *)
LEMMA ValueShift ==
    ASSUME NEW s \in Seq(Int), NEW t \in Seq(Int), NEW m \in Nat,
           \A k \in 0 .. m - 1 : Digit(t, k) = 0,
           \A k \in Nat : Digit(t, m + k) = Digit(s, k)
    PROVE  Value(t) = Value(s) * Tens[m]
<1> DEFINE n == Len(s) + Len(t)
<1>1. n \in Nat /\ Len(s) <= n /\ Len(t) <= m + n
  OBVIOUS
<1>2. Value(s) = Weight(Digits(s))[n] /\ Value(t) = Weight(Digits(t))[m + n]
  BY <1>1, ValueAt
<1>3. Weight(Digits(t))[m + n] = Weight(Digits(s))[n] * Tens[m]
  <2> DEFINE d == Digits(s)
             e == Digits(t)
  <2>1. d \in [Nat -> Int] /\ e \in [Nat -> Int]
    BY DigitsType
  <2>2. \A k \in 0 .. m - 1 : e[k] = 0
    BY DEF Digits
  <2>3. \A k \in 0 .. n - 1 : e[m + k] = d[k]
    BY <1>1 DEF Digits
  <2> HIDE DEF d, e, n
  <2>4. Weight(e)[m + n] = Weight(d)[n] * Tens[m]
    BY <1>1, <2>1, <2>2, <2>3, WeightShift
  <2>5. QED
    BY <2>4 DEF d, e, n
<1>4. QED
  BY <1>2, <1>3

(* Digits stand for a number of their length. *)
LEMMA ValueBound ==
    ASSUME NEW s \in Seq(0 .. 9)
    PROVE  /\ s \in Seq(Int) /\ s \in Seq(Nat)
           /\ Value(s) \in Nat
           /\ Value(s) < Tens[Len(s)]
           /\ \A k \in Nat : Digit(s, k) \in 0 .. 9
<1>1. s \in Seq(Int) /\ s \in Seq(Nat)
  OBVIOUS
<1>2. \A k \in Nat : Digit(s, k) \in 0 .. 9
  BY DEF Digit
<1>3. Weight(Digits(s))[Len(s)] >= 0 /\ Weight(Digits(s))[Len(s)] < Tens[Len(s)]
  <2> DEFINE d == Digits(s)
             m == Len(s)
  <2>1. d \in [Nat -> Int] /\ m \in Nat /\ \A k \in 0 .. m - 1 : d[k] \in 0 .. 9
    BY <1>1, <1>2, DigitsType, SMTT(30)
  <2> HIDE DEF d, m
  <2>2. Weight(d)[m] >= 0 /\ Weight(d)[m] < Tens[m]
    BY <2>1, WeightBound
  <2>3. QED
    BY <2>2 DEF d, m
<1>4. Value(s) = Weight(Digits(s))[Len(s)] /\ Value(s) \in Int
  BY <1>1, DigitsType
<1>5. QED
  BY <1>1, <1>2, <1>3, <1>4

(* What is written with numbers in the places of digits is a number too. *)
LEMMA ValueNat ==
    ASSUME NEW s \in Seq(Nat)
    PROVE  /\ s \in Seq(Int)
           /\ Value(s) \in Nat
           /\ \A k \in Nat : Digit(s, k) \in Nat
<1>1. s \in Seq(Int)
  OBVIOUS
<1>2. \A k \in Nat : Digit(s, k) \in Nat
  BY DEF Digit
<1> DEFINE d == Digits(s)
           m == Len(s)
<1>3. /\ d \in [Nat -> Int] /\ m \in Nat /\ \A k \in Nat : d[k] = Digit(s, k)
      /\ Value(s) = Weight(d)[m] /\ Value(s) \in Int
  <2>1. m \in Nat
    OBVIOUS
  <2>2. QED
    BY <1>1, <2>1, DigitsType
<1> HIDE DEF d, m
<1>4. \A k \in 0 .. 0 + m - 1 : d[k] >= 0
  <2>1. ASSUME NEW k \in 0 .. 0 + m - 1 PROVE d[k] >= 0
    <3>1. k \in Nat
      BY <1>3
    <3>2. d[k] \in Nat
      BY <1>2, <1>3, <3>1
    <3>3. QED
      BY <3>2
  <2>2. QED
    BY <2>1
<1>5. 0 \in Nat /\ 0 + m = m
  BY <1>3
<1>6. Weight(d)[0] <= Weight(d)[0 + m]
  BY <1>3, <1>4, <1>5, WeightGrows
<1>7. Weight(d)[0] = 0
  BY <1>3, WeightFacts
<1>8. QED
  BY <1>1, <1>2, <1>3, <1>5, <1>6, <1>7

(* A digit is no more than the number. *)
LEMMA ValueOfOne ==
    ASSUME NEW s \in Seq(Nat), NEW p \in Nat
    PROVE  Digit(s, p) * Tens[p] <= Value(s)
<1>1. s \in Seq(Int) /\ Value(s) \in Nat /\ \A k \in Nat : Digit(s, k) \in Nat
  BY ValueNat
<1>2. CASE p >= Len(s)
  BY <1>1, <1>2, DigitsType, TensFacts
<1>3. CASE p < Len(s)
  <2> DEFINE d == Digits(s)
             m == Len(s)
  <2>0. m \in Nat
    OBVIOUS
  <2>1. d \in [Nat -> Int] /\ m \in Nat /\ \A k \in Nat : d[k] = Digit(s, k)
    BY <1>1, <2>0, DigitsType
  <2>2. p \in 0 .. m - 1
    BY <1>3
  <2>3. d[p] = Digit(s, p) /\ Value(s) = Weight(d)[m]
    BY <1>1, DigitsType
  <2> HIDE DEF d, m
  <2>4. ASSUME NEW k \in 0 .. m - 1 PROVE d[k] >= 0
    <3>1. k \in Nat
      BY <2>1
    <3>2. d[k] = Digit(s, k) /\ Digit(s, k) \in Nat
      BY <1>1, <2>1, <3>1
    <3>3. QED
      BY <3>2
  <2>5. d[p] * Tens[p] <= Weight(d)[m]
    BY <2>1, <2>2, <2>4, WeightOfOne
  <2>6. QED
    BY <2>3, <2>5
<1>4. QED
  BY <1>2, <1>3

(* A number of n places has zeros from there on. *)
LEMMA HighDigits ==
    ASSUME NEW s \in Seq(Nat), NEW n \in Nat, Value(s) < Tens[n], NEW p \in Nat, p >= n
    PROVE  Digit(s, p) = 0
<1>1. Digit(s, p) * Tens[p] <= Value(s) /\ Tens[n] <= Tens[p]
  BY ValueOfOne, TensGrow
<1>2. Digit(s, p) \in Nat /\ Tens[p] \in Nat /\ Tens[n] \in Nat /\ Value(s) \in Nat
  BY ValueNat, TensFacts
<1>3. Digit(s, p) >= 1 => Digit(s, p) * Tens[p] >= Tens[p]
  <2>1. ASSUME NEW x \in Nat, NEW y \in Nat, x >= 1 PROVE x * y >= y
    <3>1. (x - 1) * y >= 0 /\ (x - 1) * y = x * y - y /\ x * y \in Int
      BY <2>1
    <3>2. QED
      BY <3>1
  <2>2. QED
    BY <1>2, <2>1
<1>4. QED
  BY <1>1, <1>2, <1>3

(* Only zeros stand for zero. *)
LEMMA ValueZero ==
    ASSUME NEW s \in Seq(Nat)
    PROVE  Value(s) = 0 <=> IsZero(s)
<1>1. ASSUME Value(s) = 0 PROVE IsZero(s)
  <2>1. SUFFICES ASSUME NEW i \in 1 .. Len(s) PROVE s[i] = 0
    BY DEF IsZero
  <2>2. 0 \in Nat /\ Tens[0] = 1 /\ Len(s) - i \in Nat /\ Len(s) - i >= 0
    BY TensFacts
  <2>3. Digit(s, Len(s) - i) = 0
    BY <1>1, <2>2, HighDigits
  <2>4. QED
    BY <2>3 DEF Digit
<1>2. ASSUME IsZero(s) PROVE Value(s) = 0
  <2> DEFINE d == Digits(s)
             m == Len(s)
  <2>1. s \in Seq(Int) /\ m \in Nat
    OBVIOUS
  <2>2. d \in [Nat -> Int] /\ Value(s) = Weight(d)[m]
    BY <2>1, DigitsType
  <2>3. \A k \in 0 .. m - 1 : d[k] = s[m - k]
    <3>1. ASSUME NEW k \in 0 .. m - 1 PROVE d[k] = s[m - k]
      <4>1. k \in Nat /\ k \in 0 .. Len(s) - 1
        BY <2>1
      <4>2. d[k] = Digit(s, k) /\ Digit(s, k) = s[Len(s) - k]
        BY <2>1, <4>1, DigitsType
      <4>3. QED
        BY <4>2
    <3>2. QED
      BY <3>1
  <2>4. \A k \in 0 .. 0 + m - 1 : d[k] = 0
    BY <1>2, <2>1, <2>3 DEF IsZero
  <2> HIDE DEF d, m
  <2>5. 0 \in Nat
    OBVIOUS
  <2>6. Weight(d)[0 + m] = Weight(d)[0]
    BY <2>1, <2>2, <2>4, <2>5, WeightZeros
  <2>7. Weight(d)[0] = 0 /\ 0 + m = m
    BY <2>1, <2>2, WeightFacts
  <2>8. QED
    BY <2>2, <2>6, <2>7
<1>3. QED
  BY <1>1, <1>2

(* Zeros is a string of zeros. *)
LEMMA ZerosType ==
    ASSUME NEW n \in Int
    PROVE  /\ Zeros(n) \in Seq(0 .. 9)
           /\ Len(Zeros(n)) = Larger(n, 0)
           /\ Len(Zeros(n)) \in Nat
           /\ \A i \in 1 .. Len(Zeros(n)) : Zeros(n)[i] = 0
           /\ \A k \in Nat : Digit(Zeros(n), k) = 0
<1>1. Larger(n, 0) \in Nat
  BY DEF Larger
<1>2. QED
  BY <1>1 DEF Zeros, Digit

(* The digits of two strings, one behind the other. *)
LEMMA DigitsOfConcat ==
    ASSUME NEW s \in Seq(Int), NEW t \in Seq(Int), NEW k \in Nat
    PROVE  Digit(s \o t, k) = IF k < Len(t) THEN Digit(t, k) ELSE Digit(s, k - Len(t))
<1>1. Len(s) \in Nat /\ Len(t) \in Nat /\ Len(s \o t) = Len(s) + Len(t)
  OBVIOUS
<1>2. CASE k < Len(t)
  BY <1>1, <1>2 DEF Digit
<1>3. CASE k >= Len(t) /\ k < Len(s) + Len(t)
  BY <1>1, <1>3 DEF Digit
<1>4. CASE k >= Len(s) + Len(t)
  BY <1>1, <1>4 DEF Digit
<1>5. QED
  BY <1>1, <1>2, <1>3, <1>4

(* And what they stand for. *)
LEMMA ValueOfConcat ==
    ASSUME NEW s \in Seq(Int), NEW t \in Seq(Int)
    PROVE  Value(s \o t) = Value(s) * Tens[Len(t)] + Value(t)
<1> DEFINE m == Len(t)
           n == Len(s)
           high == [k \in Nat |-> IF k < m THEN 0 ELSE Digit(s, k - m)]
           r == s \o t
<1>1. m \in Nat /\ n \in Nat /\ r \in Seq(Int) /\ Len(r) = m + n
  OBVIOUS
<1>2. \A k \in Nat : Digit(s, k) \in Int
  BY DigitsType
<1>3. high \in [Nat -> Int]
  BY <1>1, <1>2
<1>4. \A k \in Nat : Digits(r)[k] = Digits(t)[k] + high[k]
  <2>1. ASSUME NEW k \in Nat PROVE Digits(r)[k] = Digits(t)[k] + high[k]
    <3>1. Digits(r)[k] = Digit(r, k) /\ Digits(t)[k] = Digit(t, k) /\ Digit(t, k) \in Int
      BY <1>1, DigitsType
    <3>2. CASE k < m
      BY <1>1, <3>1, <3>2, DigitsOfConcat
    <3>3. CASE k >= m
      BY <1>1, <1>2, <3>1, <3>3, DigitsOfConcat, DigitsType
    <3>4. QED
      BY <1>1, <3>2, <3>3
  <2>2. QED
    BY <2>1
<1>5. Weight(Digits(r))[m + n] = Weight(Digits(t))[m + n] + Weight(high)[m + n]
  <2> DEFINE d == Digits(t)
             e == Digits(r)
  <2>1. d \in [Nat -> Int] /\ e \in [Nat -> Int] /\ m + n \in Nat
    <3>1. m + n \in Nat
      BY <1>1
    <3> HIDE DEF r, m, n
    <3>2. QED
      BY <1>1, <3>1, DigitsType
  <2>2. \A k \in 0 .. (m + n) - 1 : e[k] = d[k] + high[k]
    BY <1>4
  <2> HIDE DEF high, r, m, n, d, e
  <2>3. Weight(e)[m + n] = Weight(d)[m + n] + Weight(high)[m + n]
    BY <1>3, <2>1, <2>2, WeightSum
  <2>4. QED
    BY <2>3 DEF d, e
<1>6. Weight(high)[m + n] = Weight(Digits(s))[n] * Tens[m]
  <2>1. \A k \in 0 .. m - 1 : high[k] = 0
    BY <1>1
  <2> DEFINE d == Digits(s)
  <2>2. d \in [Nat -> Int] /\ \A k \in Nat : d[k] = Digit(s, k)
    BY DigitsType
  <2>3. \A k \in 0 .. n - 1 : high[m + k] = d[k]
    <3>1. ASSUME NEW k \in 0 .. n - 1 PROVE high[m + k] = d[k]
      <4>1. m + k \in Nat /\ ~ m + k < m /\ (m + k) - m = k /\ k \in Nat
        BY <1>1
      <4>2. high[m + k] = Digit(s, (m + k) - m)
        BY <4>1
      <4>3. QED
        BY <2>2, <4>1, <4>2
    <3>2. QED
      BY <3>1
  <2> HIDE DEF high, m, n, d
  <2>4. Weight(high)[m + n] = Weight(d)[n] * Tens[m]
    BY <1>1, <1>3, <2>1, <2>2, <2>3, WeightShift
  <2>5. QED
    BY <2>4 DEF d
<1>7. Value(r) = Weight(Digits(r))[m + n] /\ Value(s) = Weight(Digits(s))[n]
  BY <1>1, DigitsType
<1>8. Value(t) = Weight(Digits(t))[m + n]
  BY <1>1, ValueAt
<1>9. Value(t) \in Int /\ Value(s) * Tens[m] \in Int
  BY <1>1, DigitsType, TensFacts
<1>10. QED
  BY <1>5, <1>6, <1>7, <1>8, <1>9

(* A string of no digits stands for zero, and one of one digit for that. *)
LEMMA ValueOfShort ==
    /\ Value(<<>>) = 0
    /\ \A d \in Int : Value(<<d>>) = d
<1>1. Value(<<>>) = 0
  <2>1. <<>> \in Seq(Int) /\ Len(<<>>) = 0
    OBVIOUS
  <2>2. Digits(<<>>) \in [Nat -> Int] /\ Value(<<>>) = Weight(Digits(<<>>))[0]
    BY <2>1, DigitsType
  <2>3. QED
    BY <2>2, WeightFacts
<1>2. ASSUME NEW d \in Int PROVE Value(<<d>>) = d
  <2>1. <<d>> \in Seq(Int) /\ Len(<<d>>) = 1
    OBVIOUS
  <2> DEFINE s == <<d>>
             e == Digits(s)
  <2>2. s \in Seq(Int) /\ Len(s) = 1 /\ s[1] = d
    OBVIOUS
  <2> HIDE DEF s
  <2>3. Digit(s, 0) = d
    BY <2>2 DEF Digit
  <2>4. e \in [Nat -> Int] /\ e[0] = d /\ Value(s) = Weight(e)[1]
    BY <2>2, <2>3, DigitsType
  <2> HIDE DEF e
  <2>5. Weight(e)[0 + 1] = Weight(e)[0] + e[0] * Tens[0] /\ Weight(e)[0] = 0 /\ Tens[0] = 1
    BY <2>4, WeightFacts, TensFacts
  <2>6. Value(s) = d
    BY <2>4, <2>5
  <2>7. QED
    BY <2>6 DEF s
<1>3. QED
  BY <1>1, <1>2

(* Zeros behind a string. *)
LEMMA ValueOfPadded ==
    ASSUME NEW s \in Seq(Int), NEW n \in Int
    PROVE  Value(s \o Zeros(n)) = Value(s) * Tens[Larger(n, 0)]
<1>1. /\ Zeros(n) \in Seq(0 .. 9) /\ Len(Zeros(n)) = Larger(n, 0) /\ Larger(n, 0) \in Nat
      /\ IsZero(Zeros(n))
  <2>1. /\ Zeros(n) \in Seq(0 .. 9) /\ Len(Zeros(n)) = Larger(n, 0)
        /\ \A i \in 1 .. Len(Zeros(n)) : Zeros(n)[i] = 0
    BY ZerosType
  <2>2. DOMAIN Zeros(n) = 1 .. Len(Zeros(n))
    BY <2>1
  <2>3. QED
    BY <2>1, <2>2 DEF IsZero, Larger
<1>2. Zeros(n) \in Seq(Int) /\ Value(Zeros(n)) = 0
  BY <1>1, ValueZero, ValueBound
<1>3. Value(s) * Tens[Larger(n, 0)] \in Int
  <2>1. Value(s) \in Int /\ Tens[Larger(n, 0)] \in Nat
    BY <1>1, TensFacts, DigitsType
  <2>2. QED
    BY <2>1
<1>4. QED
  BY <1>1, <1>2, <1>3, ValueOfConcat

-----------------------------------------------------------------------------
(* Strings cut and compared.                                               *)

(* A sequence of some numbers is a sequence of numbers. *)
LEMMA SeqOfInts ==
    ASSUME NEW S \in SUBSET Int, NEW s \in Seq(S)
    PROVE  s \in Seq(Int)
  BY SeqMonotonic

(* Without zeros in front the digits stay in their places. *)
LEMMA CutFront ==
    ASSUME NEW S \in SUBSET Int, NEW s \in Seq(S), NEW i \in 1 .. Len(s) + 1,
           \A j \in 1 .. i - 1 : s[j] = 0
    PROVE  LET r == SubSeq(s, i, Len(s))
           IN  /\ r \in Seq(S)
               /\ Len(r) = Len(s) - i + 1
               /\ \A j \in 1 .. Len(r) : r[j] = s[i + j - 1]
               /\ \A k \in Nat : Digit(r, k) = Digit(s, k)
               /\ Value(r) = Value(s)
<1> DEFINE r == SubSeq(s, i, Len(s))
           n == Len(s)
<1>1. n \in Nat /\ s \in Seq(Int)
  BY SeqOfInts
<1>2. r \in Seq(S) /\ Len(r) = n - i + 1 /\ \A j \in 1 .. n - i + 1 : r[j] = s[i + j - 1]
  OBVIOUS
<1> HIDE DEF r
<1>3. ASSUME NEW k \in Nat PROVE Digit(r, k) = Digit(s, k)
  <2>1. CASE k \in 0 .. n - i
    <3>1. k \in 0 .. Len(r) - 1 /\ k \in 0 .. Len(s) - 1 /\ Len(r) - k \in 1 .. n - i + 1
      BY <1>1, <1>2, <2>1
    <3>2. Digit(r, k) = r[Len(r) - k] /\ Digit(s, k) = s[n - k]
      BY <3>1 DEF Digit
    <3>3. r[Len(r) - k] = s[i + (Len(r) - k) - 1]
      BY <1>2, <3>1
    <3>4. QED
      BY <1>1, <1>2, <3>2, <3>3
  <2>2. CASE k \notin 0 .. n - i
    <3>1. k \notin 0 .. Len(r) - 1
      BY <1>1, <1>2, <2>2
    <3>2. Digit(r, k) = 0
      BY <3>1 DEF Digit
    <3>3. k \in 0 .. n - 1 => n - k \in 1 .. i - 1
      BY <1>1, <2>2
    <3>4. Digit(s, k) = 0
      BY <3>3 DEF Digit
    <3>5. QED
      BY <3>2, <3>4
  <2>3. QED
    BY <2>1, <2>2
<1>4. r \in Seq(Int)
  BY <1>2, SeqOfInts
<1>5. Value(r) = Value(s)
  BY <1>1, <1>3, <1>4, ValueSame
<1>6. QED
  BY <1>2, <1>3, <1>5 DEF r

(* Leading zeros are stripped, and nothing else; one digit remains. *)
LEMMA StripFacts ==
    ASSUME NEW S \in SUBSET Int, NEW s \in Seq(S), Len(s) >= 1
    PROVE  /\ Strip(s) \in Seq(S)
           /\ Len(Strip(s)) \in 1 .. Len(s)
           /\ \A k \in Nat : Digit(Strip(s), k) = Digit(s, k)
           /\ Value(Strip(s)) = Value(s)
           /\ Len(Strip(s)) = 1 \/ Strip(s)[1] # 0
<1> DEFINE n == Len(s)
           I == {i \in DOMAIN s : s[i] # 0} \cup {n}
           i == Min(I)
<1>1. n \in Nat /\ DOMAIN s = 1 .. n /\ n \in 1 .. n
  OBVIOUS
<1>2. I \in SUBSET (1 .. n) /\ I \in SUBSET Nat /\ I # {}
  BY <1>1
<1>3. i \in I /\ \A j \in I : i <= j
  <2> HIDE DEF I
  <2> QED
    BY <1>2, MinNat
<1>4. i \in 1 .. n + 1 /\ \A j \in 1 .. i - 1 : s[j] = 0
  <2> HIDE DEF i
  <2>1. i \in 1 .. n
    BY <1>2, <1>3
  <2>2. ASSUME NEW j \in 1 .. i - 1, s[j] # 0 PROVE FALSE
    <3>0. j \in DOMAIN s
      BY <1>1, <2>1
    <3>1. j \in I
      BY <3>0, <2>2
    <3>2. i <= j
      BY <1>3, <3>1
    <3>3. QED
      BY <2>1, <3>2
  <2>3. QED
    BY <2>1, <2>2, <1>1
<1>5. Strip(s) = SubSeq(s, i, n)
  BY DEF Strip
<1>6. i = n \/ s[i] # 0
  BY <1>3
<1>7. i \in 1 .. n
  BY <1>2, <1>3
<1> HIDE DEF i, I
<1> DEFINE r == SubSeq(s, i, n)
<1>8. /\ r \in Seq(S) /\ Len(r) = n - i + 1
      /\ \A j \in 1 .. Len(r) : r[j] = s[i + j - 1]
      /\ \A k \in Nat : Digit(r, k) = Digit(s, k)
      /\ Value(r) = Value(s)
  BY <1>4, CutFront
<1> HIDE DEF r
<1>9. Len(r) \in 1 .. n /\ r[1] = s[i]
  BY <1>1, <1>7, <1>8
<1>10. Len(r) = 1 \/ r[1] # 0
  BY <1>1, <1>6, <1>8, <1>9
<1>11. Strip(s) = r
  BY <1>5 DEF r
<1>12. QED
  BY <1>8, <1>9, <1>10, <1>11

(* The same without the digit that remains. *)
LEMMA BareFacts ==
    ASSUME NEW S \in SUBSET Int, NEW s \in Seq(S)
    PROVE  /\ Bare(s) \in Seq(S)
           /\ Len(Bare(s)) \in 0 .. Len(s)
           /\ \A k \in Nat : Digit(Bare(s), k) = Digit(s, k)
           /\ Value(Bare(s)) = Value(s)
           /\ Len(Bare(s)) = 0 \/ Bare(s)[1] # 0
<1> DEFINE n == Len(s)
           I == {i \in DOMAIN s : s[i] # 0} \cup {n + 1}
           i == Min(I)
<1>1. n \in Nat /\ DOMAIN s = 1 .. n
  OBVIOUS
<1>2. I \in SUBSET (1 .. n + 1) /\ I \in SUBSET Nat /\ I # {}
  BY <1>1
<1>3. i \in I /\ \A j \in I : i <= j
  <2> HIDE DEF I
  <2> QED
    BY <1>2, MinNat
<1>4. i \in 1 .. n + 1 /\ \A j \in 1 .. i - 1 : s[j] = 0
  <2> HIDE DEF i
  <2>1. i \in 1 .. n + 1
    BY <1>2, <1>3
  <2>2. ASSUME NEW j \in 1 .. i - 1, s[j] # 0 PROVE FALSE
    <3>1. j \in I
      BY <1>1, <2>1, <2>2
    <3>2. i <= j
      BY <1>3, <3>1
    <3>3. QED
      BY <2>1, <3>2
  <2>3. QED
    BY <2>1, <2>2, <1>1
<1>5. Bare(s) = SubSeq(s, i, n)
  BY DEF Bare
<1>6. i = n + 1 \/ s[i] # 0
  BY <1>3
<1> HIDE DEF i, I
<1>7. QED
  BY <1>1, <1>4, <1>5, <1>6, CutFront

(* A number whose first digit is not zero has as many places as digits. *)
LEMMA ValueOfLength ==
    ASSUME NEW s \in Seq(0 .. 9), Len(s) >= 1, s[1] # 0
    PROVE  Tens[Len(s) - 1] <= Value(s)
<1>1. Len(s) \in Nat /\ Len(s) - 1 \in Nat /\ s[1] \in 0 .. 9
  OBVIOUS
<1>2. Digit(s, Len(s) - 1) = s[1]
  BY <1>1 DEF Digit
<1>3. Digit(s, Len(s) - 1) * Tens[Len(s) - 1] <= Value(s)
  BY <1>1, ValueBound, ValueOfOne
<1>4. Tens[Len(s) - 1] \in Nat /\ Value(s) \in Nat
  BY <1>1, TensFacts, ValueBound
<1>5. s[1] * Tens[Len(s) - 1] >= Tens[Len(s) - 1]
  BY <1>1, <1>4
<1>6. QED
  BY <1>2, <1>3, <1>4, <1>5

(* A number with more places is larger. *)
LEMMA LongerIsLarger ==
    ASSUME NEW s \in Seq(0 .. 9), NEW t \in Seq(0 .. 9), Len(s) > Len(t), s[1] # 0
    PROVE  Value(s) > Value(t)
<1>1. Len(s) \in Nat /\ Len(t) \in Nat /\ Len(s) - 1 \in Nat /\ Len(t) <= Len(s) - 1
  OBVIOUS
<1>2. Tens[Len(s) - 1] <= Value(s)
  BY <1>1, ValueOfLength
<1>3. Value(t) < Tens[Len(t)]
  BY ValueBound
<1>4. Tens[Len(t)] <= Tens[Len(s) - 1]
  BY <1>1, TensGrow
<1>5. Tens[Len(t)] \in Nat /\ Tens[Len(s) - 1] \in Nat /\ Value(s) \in Nat /\ Value(t) \in Nat
  BY <1>1, TensFacts, ValueBound
<1>6. QED
  BY <1>2, <1>3, <1>4, <1>5

(* Among numbers of as many places the first digit that differs decides. *)
LEMMA FirstDifference ==
    ASSUME NEW s \in Seq(0 .. 9), NEW t \in Seq(0 .. 9), Len(s) = Len(t),
           NEW i \in 1 .. Len(s), \A j \in 1 .. i - 1 : s[j] = t[j], s[i] > t[i]
    PROVE  Value(s) > Value(t)
<1> DEFINE n == Len(s)
           p == n - i
           d == Digits(s)
           e == Digits(t)
<1>1. n \in Nat /\ p \in 0 .. n - 1 /\ p \in Nat /\ n = (p + 1) + (i - 1) /\ i - 1 \in Nat
  OBVIOUS
<1>2. /\ d \in [Nat -> Int] /\ \A k \in Nat : d[k] = Digit(s, k)
      /\ e \in [Nat -> Int] /\ \A k \in Nat : e[k] = Digit(t, k)
      /\ Value(s) = Weight(d)[n] /\ Value(t) = Weight(e)[n]
      /\ \A k \in 0 .. n - 1 : Digit(s, k) = s[n - k]
      /\ \A k \in 0 .. n - 1 : Digit(t, k) = t[n - k]
  <2>1. s \in Seq(Int) /\ t \in Seq(Int)
    OBVIOUS
  <2>2. QED
    BY <2>1, DigitsType
<1>3. /\ \A k \in Nat : Digit(s, k) \in 0 .. 9
      /\ \A k \in Nat : Digit(t, k) \in 0 .. 9
  BY ValueBound
<1>4. d[p] = s[i] /\ e[p] = t[i]
  BY <1>1, <1>2, SMTT(30)
<1>5. \A k \in (p + 1) .. (p + 1) + (i - 1) - 1 : d[k] = e[k]
  <2>1. SUFFICES ASSUME NEW k \in (p + 1) .. (p + 1) + (i - 1) - 1 PROVE d[k] = e[k]
    OBVIOUS
  <2>2. k \in 0 .. n - 1 /\ k \in Nat /\ n - k \in 1 .. i - 1
    BY <1>1
  <2>3. d[k] = s[n - k] /\ e[k] = t[n - k]
    BY <1>2, <2>2
  <2>4. QED
    BY <2>2, <2>3
<1>6. \A k \in 0 .. p - 1 : d[k] \in 0 .. 9 /\ e[k] \in 0 .. 9
  <2>1. ASSUME NEW k \in 0 .. p - 1 PROVE d[k] \in 0 .. 9 /\ e[k] \in 0 .. 9
    <3>1. k \in Nat
      BY <1>1
    <3>2. d[k] = Digit(s, k) /\ e[k] = Digit(t, k)
      BY <1>2, <3>1
    <3>3. QED
      BY <1>3, <3>1, <3>2
  <2>2. QED
    BY <2>1
<1>7. d[p] \in 0 .. 9 /\ e[p] \in 0 .. 9 /\ d[p] > e[p]
  BY <1>1, <1>2, <1>3, <1>4
<1> HIDE DEF d, e, n, p
<1>8. Weight(d)[n] - Weight(d)[p + 1] = Weight(e)[n] - Weight(e)[p + 1]
  <2> DEFINE q == p + 1
             r == i - 1
  <2>1. q \in Nat /\ r \in Nat /\ n = q + r /\ \A k \in q .. q + r - 1 : d[k] = e[k]
    BY <1>1, <1>5
  <2> HIDE DEF q, r
  <2>2. Weight(d)[q + r] - Weight(d)[q] = Weight(e)[q + r] - Weight(e)[q]
    BY <1>2, <2>1, WeightSameAbove
  <2>3. QED
    BY <2>1, <2>2 DEF q
<1>9. /\ Weight(d)[p + 1] = Weight(d)[p] + d[p] * Tens[p]
      /\ Weight(e)[p + 1] = Weight(e)[p] + e[p] * Tens[p]
  BY <1>1, <1>2, WeightFacts
<1>10. Weight(d)[p] >= 0 /\ Weight(e)[p] < Tens[p]
  BY <1>1, <1>2, <1>6, WeightBound
<1>11. Tens[p] \in Nat
  BY <1>1, TensFacts
<1>12. d[p] * Tens[p] >= e[p] * Tens[p] + Tens[p]
  <2>1. d[p] \in Nat /\ e[p] \in Nat /\ d[p] >= e[p] + 1
    BY <1>7
  <2>2. ASSUME NEW x \in Nat, NEW y \in Nat, NEW z \in Nat, x >= y + 1
        PROVE  x * z >= y * z + z
    <3>1. (x - y - 1) * z >= 0
      BY <2>2
    <3>2. (x - y - 1) * z = x * z - y * z - z
      BY <2>2
    <3>3. x * z \in Int /\ y * z \in Int
      OBVIOUS
    <3>4. QED
      BY <3>1, <3>2, <3>3
  <2>3. QED
    BY <1>11, <2>1, <2>2
<1>13. /\ Weight(d) \in [Nat -> Int] /\ Weight(e) \in [Nat -> Int]
       /\ d[p] * Tens[p] \in Int /\ e[p] * Tens[p] \in Int
  <2>1. Weight(d) \in [Nat -> Int] /\ Weight(e) \in [Nat -> Int]
    BY <1>2, WeightFacts
  <2>2. d[p] \in Int /\ e[p] \in Int
    BY <1>7
  <2>3. \A x, y \in Int : x * y \in Int
    OBVIOUS
  <2>4. d[p] * Tens[p] \in Int /\ e[p] * Tens[p] \in Int
    BY <1>11, <2>2, <2>3
  <2>5. QED
    BY <2>1, <2>4
<1>14. /\ Weight(d)[p] \in Int /\ Weight(e)[p] \in Int /\ Weight(d)[n] \in Int
       /\ Weight(e)[n] \in Int /\ Weight(d)[p + 1] \in Int /\ Weight(e)[p + 1] \in Int
  <2>1. n \in Nat /\ p \in Nat /\ p + 1 \in Nat
    BY <1>1
  <2>2. ASSUME NEW f \in [Nat -> Int]
        PROVE  f[p] \in Int /\ f[n] \in Int /\ f[p + 1] \in Int
    BY <2>1
  <2>3. Weight(d)[p] \in Int /\ Weight(d)[n] \in Int /\ Weight(d)[p + 1] \in Int
    BY <1>13, <2>2
  <2>4. Weight(e)[p] \in Int /\ Weight(e)[n] \in Int /\ Weight(e)[p + 1] \in Int
    BY <1>13, <2>2
  <2>5. QED
    BY <2>3, <2>4
<1>15. Weight(d)[n] > Weight(e)[n]
  <2> DEFINE A == Weight(d)[n]
             B == Weight(d)[p + 1]
             C == Weight(e)[n]
             F == Weight(e)[p + 1]
             G == Weight(d)[p]
             H == Weight(e)[p]
             X == d[p] * Tens[p]
             Y == e[p] * Tens[p]
             Z == Tens[p]
  <2>2. A \in Int /\ B \in Int /\ C \in Int /\ F \in Int /\ G \in Int /\ H \in Int
    BY <1>14
  <2>3. X \in Int /\ Y \in Int /\ Z \in Int
    BY <1>11, <1>13
  <2>4. A - B = C - F /\ B = G + X /\ F = H + Y /\ G >= 0 /\ H < Z /\ X >= Y + Z
    BY <1>8, <1>9, <1>10, <1>12
  <2> HIDE DEF A, B, C, F, G, H, X, Y, Z
  <2>5. A > C
    BY <2>2, <2>3, <2>4
  <2>6. QED
    BY <2>5 DEF A, C
<1>16. QED
  BY <1>2, <1>15

(* Digit strings are compared as the numbers they stand for, leading zeros or *)
(* not: istrcmp.                                                              *)
LEMMA CompareFacts ==
    ASSUME NEW s \in Seq(0 .. 9), NEW t \in Seq(0 .. 9), Len(s) >= 1, Len(t) >= 1
    PROVE  CompareDigits(s, t) = IF Value(s) > Value(t) THEN 1
                                 ELSE IF Value(s) = Value(t) THEN 0 ELSE -1
<1> DEFINE a == Strip(s)
           b == Strip(t)
           differ == {i \in DOMAIN a : a[i] # b[i]}
<1>1. /\ a \in Seq(0 .. 9) /\ Len(a) >= 1 /\ Value(a) = Value(s) /\ (Len(a) = 1 \/ a[1] # 0)
      /\ b \in Seq(0 .. 9) /\ Len(b) >= 1 /\ Value(b) = Value(t) /\ (Len(b) = 1 \/ b[1] # 0)
  <2>1. (0 .. 9) \in SUBSET Int
    OBVIOUS
  <2>2. QED
    BY <2>1, StripFacts
<1>2. CompareDigits(s, t) =
         CASE Len(a) # Len(b) -> IF Len(a) > Len(b) THEN 1 ELSE -1
           [] a = b -> 0
           [] OTHER -> IF a[Min(differ)] > b[Min(differ)] THEN 1 ELSE -1
  BY DEF CompareDigits
<1> HIDE DEF a, b
<1>3. Value(s) \in Nat /\ Value(t) \in Nat
  BY ValueBound
<1>4. CASE Len(a) > Len(b)
  <2>1. a[1] # 0
    BY <1>1, <1>4
  <2>2. Value(a) > Value(b)
    BY <1>1, <1>4, <2>1, LongerIsLarger
  <2>3. CompareDigits(s, t) = 1
    BY <1>1, <1>2, <1>4
  <2>4. QED
    BY <1>1, <2>2, <2>3
<1>5. CASE Len(b) > Len(a)
  <2>1. b[1] # 0
    BY <1>1, <1>5
  <2>2. Value(b) > Value(a)
    BY <1>1, <1>5, <2>1, LongerIsLarger
  <2>3. CompareDigits(s, t) = -1
    BY <1>1, <1>2, <1>5
  <2>4. QED
    BY <1>1, <1>3, <2>2, <2>3
<1>6. CASE a = b
  <2>1. CompareDigits(s, t) = 0
    BY <1>2, <1>6
  <2>2. QED
    BY <1>1, <1>3, <1>6, <2>1
<1>7. CASE Len(a) = Len(b) /\ a # b
  <2> DEFINE i == Min(differ)
  <2>1. differ \in SUBSET Nat /\ differ # {} /\ DOMAIN a = 1 .. Len(a)
    <3>1. DOMAIN a = 1 .. Len(a) /\ DOMAIN b = 1 .. Len(b) /\ Len(a) \in Nat
      BY <1>1
    <3>2. PICK j \in 1 .. Len(a) : a[j] # b[j]
      BY <1>1, <1>7, SeqEqual
    <3>3. j \in differ
      BY <3>1, <3>2
    <3>4. QED
      BY <3>1, <3>3
  <2>2. i \in differ /\ \A j \in differ : i <= j
    <3> HIDE DEF differ
    <3> QED
      BY <2>1, MinNat
  <2>3. i \in 1 .. Len(a) /\ a[i] # b[i] /\ a[i] \in 0 .. 9 /\ b[i] \in 0 .. 9
    BY <1>1, <1>7, <2>1, <2>2
  <2>4. ASSUME NEW j \in 1 .. i - 1 PROVE a[j] = b[j]
    <3>1. j \in DOMAIN a
      BY <1>1, <2>1, <2>3
    <3>2. j \notin differ
      <4> HIDE DEF differ, i
      <4> QED
        BY <2>2, <2>3
    <3>3. QED
      BY <3>1, <3>2
  <2>5. CompareDigits(s, t) = IF a[i] > b[i] THEN 1 ELSE -1
    BY <1>2, <1>7
  <2> HIDE DEF i, differ
  <2>6. CASE a[i] > b[i]
    BY <1>1, <1>7, <2>3, <2>4, <2>5, <2>6, FirstDifference
  <2>7. CASE b[i] > a[i]
    <3>1. Value(b) > Value(a)
      BY <1>1, <1>7, <2>3, <2>4, <2>7, FirstDifference
    <3>2. CompareDigits(s, t) = -1
      BY <2>3, <2>5, <2>7
    <3>3. QED
      BY <1>1, <1>3, <3>1, <3>2
  <2>8. QED
    BY <2>3, <2>6, <2>7, SMTT(30)
<1>8. QED
  BY <1>1, <1>4, <1>5, <1>6, <1>7

-----------------------------------------------------------------------------
(* Carrying.                                                               *)

(* What a recursive function up to n is built from. *)
FollowsUpto(g, V, a, H, n) ==
    /\ g \in [0 .. n -> V]
    /\ \A k \in 0 .. n : g[k] = IF k = 0 THEN a ELSE H[k - 1][g[k - 1]]

(* There is such a function up to any number too. *)
LEMMA RecursionUpto ==
    ASSUME NEW V, NEW a \in V, NEW H \in [Nat -> [V -> V]], NEW n \in Nat
    PROVE  \E g : FollowsUpto(g, V, a, H, n)
<1>1. PICK f : Follows(f, V, a, H)
  BY Recursion
<1> DEFINE g == [k \in 0 .. n |-> f[k]]
<1>2. g \in [0 .. n -> V]
  BY <1>1 DEF Follows
<1>3. ASSUME NEW k \in 0 .. n PROVE g[k] = IF k = 0 THEN a ELSE H[k - 1][g[k - 1]]
  <2>1. CASE k = 0
    BY <1>1, <2>1 DEF Follows
  <2>2. CASE k # 0
    <3>1. k - 1 \in Nat /\ k - 1 \in 0 .. n /\ (k - 1) + 1 = k
      BY <2>2
    <3>2. f[(k - 1) + 1] = H[k - 1][f[k - 1]]
      BY <1>1, <3>1 DEF Follows
    <3>3. QED
      BY <2>2, <3>1, <3>2
  <2>3. QED
    BY <2>1, <2>2
<1> HIDE DEF g
<1>4. FollowsUpto(g, V, a, H, n)
  BY <1>2, <1>3 DEF FollowsUpto
<1>5. QED
  BY <1>4

(* Quotient and rest of the division by ten. *)
LEMMA ByTen == \A x \in Int : /\ x \div 10 \in Int
                             /\ x % 10 \in 0 .. 9
                             /\ x = (x % 10) + 10 * (x \div 10)
  OBVIOUS

(* What is carried does not change the number: columns c, digits d. *)
LEMMA CarryFacts ==
    ASSUME NEW c \in [Nat -> Int], NEW d \in [Nat -> Int], NEW n \in Nat,
           NEW carry \in [0 .. n -> Int], carry[0] = 0,
           \A k \in 0 .. n - 1 : c[k] + carry[k] = d[k] + 10 * carry[k + 1]
    PROVE  Weight(c)[n] = Weight(d)[n] + carry[n] * Tens[n]
<1> DEFINE S == {k \in Nat : k <= n => Weight(c)[k] = Weight(d)[k] + carry[k] * Tens[k]}
<1>1. 0 \in S
  <2>1. Weight(c)[0] = 0 /\ Weight(d)[0] = 0 /\ Tens[0] = 1
    BY WeightFacts, TensFacts
  <2>2. QED
    BY <2>1
<1>2. ASSUME NEW k \in Nat, k \in S PROVE k + 1 \in S
  <2>1. SUFFICES ASSUME k + 1 <= n
                 PROVE  Weight(c)[k + 1] = Weight(d)[k + 1] + carry[k + 1] * Tens[k + 1]
    OBVIOUS
  <2>2. /\ Weight(c)[k + 1] = Weight(c)[k] + c[k] * Tens[k]
        /\ Weight(d)[k + 1] = Weight(d)[k] + d[k] * Tens[k]
        /\ Tens[k + 1] = 10 * Tens[k]
    BY WeightFacts, TensFacts
  <2>3. k \in 0 .. n /\ k + 1 \in 0 .. n /\ k \in 0 .. n - 1
    BY <2>1
  <2>4. /\ Weight(c)[k] \in Int /\ Weight(d)[k] \in Int /\ Tens[k] \in Int
        /\ c[k] \in Int /\ d[k] \in Int /\ carry[k] \in Int /\ carry[k + 1] \in Int
    <3>1. Weight(c)[k] \in Int /\ Weight(d)[k] \in Int
      BY WeightFacts
    <3>2. Tens[k] \in Int
      BY TensFacts
    <3>3. QED
      BY <2>3, <3>1, <3>2
  <2>5. /\ Weight(c)[k] = Weight(d)[k] + carry[k] * Tens[k]
        /\ c[k] + carry[k] = d[k] + 10 * carry[k + 1]
    BY <1>2, <2>3
  <2> DEFINE x == c[k]
             y == d[k]
             z == Tens[k]
             u == carry[k]
             v == carry[k + 1]
             p == Weight(c)[k]
             q == Weight(d)[k]
  <2>6. /\ x \in Int /\ y \in Int /\ z \in Int /\ u \in Int /\ v \in Int /\ p \in Int /\ q \in Int
        /\ x + u = y + 10 * v /\ p = q + u * z
    BY <2>4, <2>5
  <2>7. /\ Weight(c)[k + 1] = p + x * z
        /\ Weight(d)[k + 1] + carry[k + 1] * Tens[k + 1] = q + y * z + v * (10 * z)
    BY <2>2
  <2> HIDE DEF x, y, z, u, v, p, q
  <2>8. x = y + 10 * v - u
    BY <2>6
  <2>9. (y + 10 * v - u) * z = y * z + v * (10 * z) - u * z
    BY <2>6
  <2>10. y * z \in Int /\ v * (10 * z) \in Int /\ u * z \in Int
    BY <2>6
  <2>11. p + x * z = q + y * z + v * (10 * z)
    BY <2>6, <2>8, <2>9, <2>10
  <2>12. QED
    BY <2>7, <2>11
<1>3. \A k \in Nat : k \in S
  <2> HIDE DEF S
  <2> QED
    BY <1>1, <1>2, Induction
<1>4. QED
  BY <1>3

(* Digits written down from the right. *)
LEMMA FromRightFacts ==
    ASSUME NEW S, NEW n \in Nat, NEW D \in [0 .. n - 1 -> S]
    PROVE  LET r == [i \in 1 .. n |-> D[n - i]]
           IN  /\ r \in Seq(S)
               /\ Len(r) = n
               /\ \A k \in 0 .. n - 1 : Digit(r, k) = D[k]
<1> DEFINE r == [i \in 1 .. n |-> D[n - i]]
<1>1. \A i \in 1 .. n : D[n - i] \in S
  OBVIOUS
<1>2. r \in [1 .. n -> S]
  BY <1>1
<1> HIDE DEF r
<1>3. r \in Seq(S) /\ Len(r) = n
  BY <1>2
<1>4. ASSUME NEW k \in 0 .. n - 1 PROVE Digit(r, k) = D[k]
  <2>1. n - k \in 1 .. n /\ n - (n - k) = k
    OBVIOUS
  <2>2. r[n - k] = D[k]
    BY <2>1 DEF r
  <2>3. QED
    BY <1>3, <2>2 DEF Digit
<1>5. QED
  BY <1>3, <1>4 DEF r

-----------------------------------------------------------------------------
(* Sums and differences of strings.                                        *)

(* iadd: the digits of the sum, without zeros in front. *)
LEMMA AddDigitsFacts ==
    ASSUME NEW s \in Seq(0 .. 9), NEW t \in Seq(0 .. 9)
    PROVE  /\ AddDigits(s, t) \in Seq(0 .. 9)
           /\ Len(AddDigits(s, t)) >= 1
           /\ Value(AddDigits(s, t)) = Value(s) + Value(t)
<1> DEFINE n == Larger(Len(s), Len(t)) + 1
           carry == CHOOSE f : f = [k \in 0 .. n |->
                        IF k = 0 THEN 0 ELSE (Digit(s, k - 1) + Digit(t, k - 1) + f[k - 1]) \div 10]
           r == [i \in 1 .. n |-> (Digit(s, n - i) + Digit(t, n - i) + carry[n - i]) % 10]
<1>1. AddDigits(s, t) = Strip(r)
  BY DEF AddDigits, FromRight
<1>2. /\ n \in Nat /\ n >= 1 /\ Len(s) <= n - 1 /\ Len(t) <= n - 1 /\ n - 1 \in Nat
  BY DEF Larger
<1>3. /\ s \in Seq(Int) /\ t \in Seq(Int)
      /\ \A k \in Nat : Digit(s, k) \in 0 .. 9
      /\ \A k \in Nat : Digit(t, k) \in 0 .. 9
  BY ValueBound
<1>4. /\ \A k \in Nat : k >= Len(s) => Digit(s, k) = 0
      /\ \A k \in Nat : k >= Len(t) => Digit(t, k) = 0
  BY <1>3, DigitsType
<1> HIDE DEF n
<1> DEFINE H == [k \in Nat |-> [v \in 0 .. 1 |-> (Digit(s, k) + Digit(t, k) + v) \div 10]]
<1>5. H \in [Nat -> [0 .. 1 -> 0 .. 1]]
  <2>1. ASSUME NEW k \in Nat, NEW v \in 0 .. 1
        PROVE  (Digit(s, k) + Digit(t, k) + v) \div 10 \in 0 .. 1
    <3>1. Digit(s, k) \in 0 .. 9 /\ Digit(t, k) \in 0 .. 9
      BY <1>3
    <3>2. ASSUME NEW x \in 0 .. 9, NEW y \in 0 .. 9 PROVE (x + y + v) \div 10 \in 0 .. 1
      OBVIOUS
    <3>3. QED
      BY <3>1, <3>2
  <2>2. QED
    BY <2>1
<1>6. PICK g : FollowsUpto(g, 0 .. 1, 0, H, n)
  <2>1. 0 \in 0 .. 1
    OBVIOUS
  <2> HIDE DEF H
  <2>2. QED
    BY <1>2, <1>5, <2>1, RecursionUpto
<1>7. g = [k \in 0 .. n |->
             IF k = 0 THEN 0 ELSE (Digit(s, k - 1) + Digit(t, k - 1) + g[k - 1]) \div 10]
  <2>1. ASSUME NEW k \in 0 .. n
        PROVE  g[k] = IF k = 0 THEN 0 ELSE (Digit(s, k - 1) + Digit(t, k - 1) + g[k - 1]) \div 10
    <3>1. CASE k = 0
      BY <1>6, <3>1 DEF FollowsUpto
    <3>2. CASE k # 0
      <4>1. k - 1 \in Nat /\ k - 1 \in 0 .. n
        BY <1>2, <3>2
      <4>2. g[k - 1] \in 0 .. 1 /\ g[k] = H[k - 1][g[k - 1]]
        BY <1>6, <3>2, <4>1 DEF FollowsUpto
      <4>3. QED
        BY <3>2, <4>1, <4>2
    <3>3. QED
      BY <3>1, <3>2
  <2>2. QED
    BY <1>6, <2>1 DEF FollowsUpto
<1>8. carry = [k \in 0 .. n |->
                 IF k = 0 THEN 0 ELSE (Digit(s, k - 1) + Digit(t, k - 1) + carry[k - 1]) \div 10]
  BY <1>7
<1> HIDE DEF carry, H
<1>9. carry[0] = 0
  BY <1>2, <1>8
<1>10. \A k \in 0 .. n - 1 : carry[k + 1] = (Digit(s, k) + Digit(t, k) + carry[k]) \div 10
  <2>1. ASSUME NEW k \in 0 .. n - 1
        PROVE  carry[k + 1] = (Digit(s, k) + Digit(t, k) + carry[k]) \div 10
    <3>1. k + 1 \in 0 .. n /\ k + 1 # 0 /\ (k + 1) - 1 = k
      BY <1>2
    <3>2. QED
      BY <1>8, <3>1
  <2>2. QED
    BY <2>1
<1>11. \A k \in 0 .. n : carry[k] \in 0 .. 1
  <2> DEFINE S == {k \in Nat : k <= n => carry[k] \in 0 .. 1}
  <2>1. 0 \in S
    BY <1>9
  <2>2. ASSUME NEW k \in Nat, k \in S PROVE k + 1 \in S
    <3>1. SUFFICES ASSUME k + 1 <= n PROVE carry[k + 1] \in 0 .. 1
      OBVIOUS
    <3>2. carry[k] \in 0 .. 1 /\ Digit(s, k) \in 0 .. 9 /\ Digit(t, k) \in 0 .. 9 /\ k \in 0 .. n - 1
      BY <1>2, <1>3, <2>2, <3>1
    <3>3. carry[k + 1] = (Digit(s, k) + Digit(t, k) + carry[k]) \div 10
      BY <1>10, <3>2
    <3>4. ASSUME NEW x \in 0 .. 9, NEW y \in 0 .. 9, NEW v \in 0 .. 1
          PROVE  (x + y + v) \div 10 \in 0 .. 1
      OBVIOUS
    <3>5. QED
      BY <3>2, <3>3, <3>4
  <2>3. \A k \in Nat : k \in S
    <3> HIDE DEF S
    <3> QED
      BY <2>1, <2>2, Induction
  <2>4. QED
    BY <1>2, <2>3
<1>12. carry \in [0 .. n -> Int]
  BY <1>8, <1>11
<1>13. carry[n] = 0
  <2>1. n - 1 \in 0 .. n - 1 /\ (n - 1) + 1 = n /\ n - 1 \in 0 .. n
    BY <1>2
  <2>2. Digit(s, n - 1) = 0 /\ Digit(t, n - 1) = 0
    BY <1>2, <1>4
  <2>3. carry[n] = (0 + 0 + carry[n - 1]) \div 10 /\ carry[n - 1] \in 0 .. 1
    BY <1>10, <1>11, <2>1, <2>2
  <2>4. \A v \in 0 .. 1 : (0 + 0 + v) \div 10 = 0
    OBVIOUS
  <2>5. QED
    BY <2>3, <2>4
<1> DEFINE D == [k \in 0 .. n - 1 |-> (Digit(s, k) + Digit(t, k) + carry[k]) % 10]
           c == [k \in Nat |-> Digit(s, k) + Digit(t, k)]
           w == [i \in 1 .. n |-> D[n - i]]
<1>14. c \in [Nat -> Int]
  <2>1. ASSUME NEW k \in Nat PROVE c[k] \in Int
    <3>1. Digit(s, k) \in 0 .. 9 /\ Digit(t, k) \in 0 .. 9
      BY <1>3
    <3>2. QED
      BY <3>1
  <2>2. QED
    BY <2>1
<1>15. \A k \in 0 .. n - 1 : D[k] \in 0 .. 9 /\ c[k] + carry[k] = D[k] + 10 * carry[k + 1]
  <2>1. ASSUME NEW k \in 0 .. n - 1
        PROVE  D[k] \in 0 .. 9 /\ c[k] + carry[k] = D[k] + 10 * carry[k + 1]
    <3>1. k \in Nat /\ k \in 0 .. n
      BY <1>2
    <3>2. D[k] = (c[k] + carry[k]) % 10 /\ carry[k + 1] = (c[k] + carry[k]) \div 10
      BY <1>10, <3>1
    <3> HIDE DEF c, D
    <3>3. c[k] + carry[k] \in Int
      <4>1. c[k] \in Int
        BY <1>14, <3>1
      <4>2. carry[k] \in Int
        BY <1>12, <3>1
      <4>3. QED
        BY <4>1, <4>2
    <3>4. QED
      BY <3>2, <3>3, ByTen
  <2>2. QED
    BY <2>1
<1>16. D \in [0 .. n - 1 -> 0 .. 9]
  BY <1>15
<1>17. r = w
  <2>1. \A i \in 1 .. n : n - i \in 0 .. n - 1
    BY <1>2
  <2>2. QED
    BY <2>1
<1> HIDE DEF D, r
<1>18. r \in Seq(0 .. 9) /\ Len(r) = n /\ \A k \in 0 .. n - 1 : Digit(r, k) = D[k]
  <2>1. w \in Seq(0 .. 9) /\ Len(w) = n /\ \A k \in 0 .. n - 1 : Digit(w, k) = D[k]
    BY <1>2, <1>16, FromRightFacts
  <2>2. QED
    BY <1>17, <2>1
<1> DEFINE d == Digits(r)
           a == Digits(s)
           b == Digits(t)
<1>19. /\ d \in [Nat -> Int] /\ (\A k \in Nat : d[k] = Digit(r, k)) /\ Value(r) = Weight(d)[n]
       /\ a \in [Nat -> Int] /\ (\A k \in Nat : a[k] = Digit(s, k))
       /\ b \in [Nat -> Int] /\ (\A k \in Nat : b[k] = Digit(t, k))
  <2>1. r \in Seq(Int)
    BY <1>18, ValueBound
  <2>2. QED
    BY <1>3, <1>18, <2>1, DigitsType
<1>20. Value(s) = Weight(a)[n] /\ Value(t) = Weight(b)[n]
  <2>1. Len(s) <= n /\ Len(t) <= n
    BY <1>2
  <2>2. QED
    BY <1>2, <1>3, <2>1, ValueAt
<1>21. \A k \in 0 .. n - 1 : d[k] = D[k] /\ c[k] = a[k] + b[k]
  <2>1. \A k \in 0 .. n - 1 : k \in Nat
    BY <1>2
  <2>2. QED
    BY <1>18, <1>19, <2>1
<1> HIDE DEF d, a, b, c
<1>22. Weight(c)[n] = Weight(a)[n] + Weight(b)[n]
  BY <1>2, <1>14, <1>19, <1>21, WeightSum
<1>23. Weight(c)[n] = Weight(d)[n] + carry[n] * Tens[n]
  <2>1. \A k \in 0 .. n - 1 : c[k] + carry[k] = d[k] + 10 * carry[k + 1]
    BY <1>15, <1>21
  <2>2. QED
    BY <1>2, <1>9, <1>12, <1>14, <1>19, <2>1, CarryFacts
<1>24. Value(r) = Value(s) + Value(t)
  <2>1. Tens[n] \in Int /\ Value(r) \in Int
    BY <1>2, <1>18, TensFacts, ValueBound
  <2>2. QED
    BY <1>13, <1>19, <1>20, <1>22, <1>23, <2>1, SMTT(30)
<1>25. (0 .. 9) \in SUBSET Int /\ Len(r) >= 1
  BY <1>2, <1>18
<1>26. QED
  BY <1>1, <1>18, <1>24, <1>25, StripFacts

(* isub: the digits of the difference, when it is not negative. *)
LEMMA SubDigitsFacts ==
    ASSUME NEW s \in Seq(0 .. 9), NEW t \in Seq(0 .. 9), Len(s) >= 1, Value(t) <= Value(s)
    PROVE  /\ SubDigits(s, t) \in Seq(0 .. 9)
           /\ Len(SubDigits(s, t)) >= 1
           /\ Value(SubDigits(s, t)) = Value(s) - Value(t)
<1> DEFINE n == Len(s)
           borrow == CHOOSE f : f = [k \in 0 .. n |->
                         IF k > 0 /\ Digit(s, k - 1) - f[k - 1] < Digit(t, k - 1) THEN 1 ELSE 0]
           r == [i \in 1 .. n |-> (Digit(s, n - i) - borrow[n - i] - Digit(t, n - i)) % 10]
<1>1. SubDigits(s, t) = Strip(r)
  BY DEF SubDigits, FromRight
<1>2. n \in Nat /\ n >= 1
  OBVIOUS
<1>3. /\ s \in Seq(Int) /\ t \in Seq(Int)
      /\ \A k \in Nat : Digit(s, k) \in 0 .. 9
      /\ \A k \in Nat : Digit(t, k) \in 0 .. 9
      /\ Value(s) \in Nat /\ Value(t) \in Nat /\ Value(s) < Tens[n]
  BY ValueBound
<1>4. Len(s) <= n
  BY <1>2
<1> HIDE DEF n
<1> DEFINE H == [k \in Nat |-> [v \in 0 .. 1 |-> IF Digit(s, k) - v < Digit(t, k) THEN 1 ELSE 0]]
<1>5. H \in [Nat -> [0 .. 1 -> 0 .. 1]]
  OBVIOUS
<1>6. PICK g : FollowsUpto(g, 0 .. 1, 0, H, n)
  <2>1. 0 \in 0 .. 1
    OBVIOUS
  <2> HIDE DEF H
  <2>2. QED
    BY <1>2, <1>5, <2>1, RecursionUpto
<1>7. g = [k \in 0 .. n |->
             IF k > 0 /\ Digit(s, k - 1) - g[k - 1] < Digit(t, k - 1) THEN 1 ELSE 0]
  <2>1. ASSUME NEW k \in 0 .. n
        PROVE  g[k] = IF k > 0 /\ Digit(s, k - 1) - g[k - 1] < Digit(t, k - 1) THEN 1 ELSE 0
    <3>1. CASE k = 0
      <4>1. g[k] = 0
        BY <1>6, <3>1 DEF FollowsUpto
      <4>2. ~(k > 0)
        BY <3>1
      <4>3. QED
        BY <4>1, <4>2
    <3>2. CASE k # 0
      <4>1. k - 1 \in Nat /\ k - 1 \in 0 .. n /\ k > 0
        BY <1>2, <3>2
      <4>2. g[k - 1] \in 0 .. 1 /\ g[k] = H[k - 1][g[k - 1]]
        BY <1>6, <3>2, <4>1 DEF FollowsUpto
      <4>3. \A v \in 0 .. 1 :
               H[k - 1][v] = IF Digit(s, k - 1) - v < Digit(t, k - 1) THEN 1 ELSE 0
        BY <4>1
      <4> HIDE DEF H
      <4>4. g[k] = IF Digit(s, k - 1) - g[k - 1] < Digit(t, k - 1) THEN 1 ELSE 0
        BY <4>2, <4>3
      <4>5. QED
        BY <4>1, <4>4
    <3>3. QED
      BY <3>1, <3>2
  <2>2. QED
    BY <1>6, <2>1 DEF FollowsUpto
<1>8. borrow = [k \in 0 .. n |->
                  IF k > 0 /\ Digit(s, k - 1) - borrow[k - 1] < Digit(t, k - 1) THEN 1 ELSE 0]
  BY <1>7
<1> HIDE DEF borrow, H
<1>9. borrow[0] = 0
  BY <1>2, <1>8
<1>10. \A k \in 0 .. n - 1 :
          borrow[k + 1] = IF Digit(s, k) - borrow[k] < Digit(t, k) THEN 1 ELSE 0
  <2>1. ASSUME NEW k \in 0 .. n - 1
        PROVE  borrow[k + 1] = IF Digit(s, k) - borrow[k] < Digit(t, k) THEN 1 ELSE 0
    <3>1. k + 1 \in 0 .. n /\ k + 1 > 0 /\ (k + 1) - 1 = k
      BY <1>2
    <3>2. QED
      BY <1>8, <3>1
  <2>2. QED
    BY <2>1
<1>11. \A k \in 0 .. n : borrow[k] \in 0 .. 1
  BY <1>8
<1> DEFINE carry == [k \in 0 .. n |-> -borrow[k]]
           D == [k \in 0 .. n - 1 |-> (Digit(s, k) - borrow[k] - Digit(t, k)) % 10]
           c == [k \in Nat |-> Digit(s, k) - Digit(t, k)]
           w == [i \in 1 .. n |-> D[n - i]]
<1>12. carry \in [0 .. n -> Int] /\ carry[0] = 0
  BY <1>2, <1>9, <1>11
<1>14. c \in [Nat -> Int]
  <2>1. ASSUME NEW k \in Nat PROVE c[k] \in Int
    <3>1. Digit(s, k) \in 0 .. 9 /\ Digit(t, k) \in 0 .. 9
      BY <1>3
    <3>2. QED
      BY <3>1
  <2>2. QED
    BY <2>1
<1>15. \A k \in 0 .. n - 1 : D[k] \in 0 .. 9 /\ c[k] + carry[k] = D[k] + 10 * carry[k + 1]
  <2>1. ASSUME NEW k \in 0 .. n - 1
        PROVE  D[k] \in 0 .. 9 /\ c[k] + carry[k] = D[k] + 10 * carry[k + 1]
    <3>1. k \in Nat /\ k \in 0 .. n /\ k + 1 \in 0 .. n
      BY <1>2
    <3>2. /\ Digit(s, k) \in 0 .. 9 /\ Digit(t, k) \in 0 .. 9
          /\ borrow[k] \in 0 .. 1 /\ borrow[k + 1] \in 0 .. 1
          /\ borrow[k + 1] = IF Digit(s, k) - borrow[k] < Digit(t, k) THEN 1 ELSE 0
      BY <1>3, <1>10, <1>11, <3>1
    <3>3. /\ c[k] = Digit(s, k) - Digit(t, k) /\ carry[k] = -borrow[k] /\ carry[k + 1] = -borrow[k + 1]
          /\ D[k] = (Digit(s, k) - borrow[k] - Digit(t, k)) % 10
      BY <3>1
    <3>4. ASSUME NEW x \in 0 .. 9, NEW y \in 0 .. 9, NEW u \in 0 .. 1, NEW v \in 0 .. 1,
                 v = IF x - u < y THEN 1 ELSE 0
          PROVE  (x - u - y) % 10 \in 0 .. 9 /\ (x - y) + (-u) = ((x - u - y) % 10) + 10 * (-v)
      <4> DEFINE z == x - u - y
      <4>1. z \in Int /\ z \in -10 .. 9 /\ v \in Int /\ (v = IF z < 0 THEN 1 ELSE 0)
        BY <3>4
      <4>2. (x - y) + (-u) = z
        OBVIOUS
      <4> HIDE DEF z
      <4>3. z % 10 \in 0 .. 9 /\ z \div 10 \in Int /\ z = (z % 10) + 10 * (z \div 10)
        BY <4>1, ByTen
      <4>4. z \div 10 = -v
        BY <4>1, <4>3
      <4>5. z % 10 \in 0 .. 9 /\ (x - y) + (-u) = (z % 10) + 10 * (-v)
        BY <4>2, <4>3, <4>4
      <4>6. QED
        BY <4>5 DEF z
    <3> HIDE DEF c, D, carry
    <3>5. QED
      BY <3>2, <3>3, <3>4
  <2>2. QED
    BY <2>1
<1>16. D \in [0 .. n - 1 -> 0 .. 9]
  BY <1>15
<1>17. r = w
  <2>1. \A i \in 1 .. n : n - i \in 0 .. n - 1
    BY <1>2
  <2>2. QED
    BY <2>1
<1> HIDE DEF D, r
<1>18. r \in Seq(0 .. 9) /\ Len(r) = n /\ \A k \in 0 .. n - 1 : Digit(r, k) = D[k]
  <2>1. w \in Seq(0 .. 9) /\ Len(w) = n /\ \A k \in 0 .. n - 1 : Digit(w, k) = D[k]
    BY <1>2, <1>16, FromRightFacts
  <2>2. QED
    BY <1>17, <2>1
<1> DEFINE d == Digits(r)
           a == Digits(s)
           b == Digits(t)
<1>19. /\ d \in [Nat -> Int] /\ (\A k \in Nat : d[k] = Digit(r, k)) /\ Value(r) = Weight(d)[n]
       /\ a \in [Nat -> Int] /\ (\A k \in Nat : a[k] = Digit(s, k))
       /\ b \in [Nat -> Int] /\ (\A k \in Nat : b[k] = Digit(t, k))
  <2>1. r \in Seq(Int)
    BY <1>18, ValueBound
  <2>2. QED
    BY <1>3, <1>18, <2>1, DigitsType
<1>20. Value(s) = Weight(a)[n]
  BY <1>2, <1>3, <1>4, ValueAt
<1>21. Value(t) = Weight(b)[n]
  <2> DEFINE m == Len(t)
  <2>1. m \in Nat /\ n + m \in Nat /\ Len(t) <= n + m
    BY <1>2
  <2>2. Value(t) = Weight(b)[n + m]
    BY <1>3, <2>1, ValueAt
  <2>3. Tens[n] \in Nat
    BY <1>2, TensFacts
  <2>4. Value(t) < Tens[n]
    BY <1>3, <2>3
  <2>5. \A k \in n .. n + m - 1 : b[k] = 0
    <3>1. ASSUME NEW k \in n .. n + m - 1 PROVE b[k] = 0
      <4>1. k \in Nat /\ k >= n
        BY <1>2, <2>1
      <4>2. Digit(t, k) = 0
        BY <1>2, <2>4, <4>1, ValueBound, HighDigits
      <4>3. QED
        BY <1>19, <4>1, <4>2
    <3>2. QED
      BY <3>1
  <2> HIDE DEF m, b
  <2>6. Weight(b)[n + m] = Weight(b)[n]
    BY <1>2, <1>19, <2>1, <2>5, WeightZeros
  <2>7. QED
    BY <2>2, <2>6
<1>22. \A k \in 0 .. n - 1 : d[k] = D[k] /\ a[k] = c[k] + b[k]
  <2>1. ASSUME NEW k \in 0 .. n - 1 PROVE d[k] = D[k] /\ a[k] = c[k] + b[k]
    <3>1. k \in Nat
      BY <1>2
    <3>2. c[k] = Digit(s, k) - Digit(t, k) /\ Digit(s, k) \in 0 .. 9 /\ Digit(t, k) \in 0 .. 9
      BY <1>3, <3>1
    <3>3. a[k] = Digit(s, k) /\ b[k] = Digit(t, k) /\ d[k] = D[k]
      BY <1>18, <1>19, <3>1
    <3> HIDE DEF a, b, c, d
    <3>4. QED
      BY <3>2, <3>3
  <2>2. QED
    BY <2>1
<1> HIDE DEF d, a, b, c, carry
<1>23. Weight(a)[n] = Weight(c)[n] + Weight(b)[n]
  BY <1>2, <1>14, <1>19, <1>22, WeightSum
<1>24. Weight(c)[n] = Weight(d)[n] + carry[n] * Tens[n]
  <2>1. \A k \in 0 .. n - 1 : c[k] + carry[k] = d[k] + 10 * carry[k + 1]
    BY <1>15, <1>22
  <2>2. QED
    BY <1>2, <1>9, <1>12, <1>14, <1>19, <2>1, CarryFacts
<1>25. /\ Tens[n] \in Nat /\ Value(r) \in Nat /\ Value(r) < Tens[n]
       /\ Weight(a)[n] \in Int /\ Weight(b)[n] \in Int /\ Weight(c)[n] \in Int
  BY <1>2, <1>3, <1>14, <1>18, <1>19, <1>20, <1>21, TensFacts, ValueBound, WeightFacts
<1>26. carry[n] \in {0, -1}
  <2>1. n \in 0 .. n
    BY <1>2
  <2>2. QED
    BY <1>11, <2>1 DEF carry
<1>27. Value(s) - Value(t) = Value(r) + carry[n] * Tens[n]
  <2>1. Weight(a)[n] - Weight(b)[n] = Weight(c)[n]
    <3> DEFINE x == Weight(a)[n]
               y == Weight(b)[n]
               z == Weight(c)[n]
    <3>1. x \in Int /\ y \in Int /\ z \in Int /\ x = z + y
      BY <1>23, <1>25
    <3> HIDE DEF x, y, z
    <3>2. x - y = z
      BY <3>1
    <3>3. QED
      BY <3>2 DEF x, y, z
  <2>2. QED
    BY <1>19, <1>20, <1>21, <1>24, <2>1
<1>28. Value(r) = Value(s) - Value(t)
  <2>1. CASE carry[n] = 0
    BY <1>25, <1>27, <2>1
  <2>2. CASE carry[n] = -1
    BY <1>3, <1>25, <1>27, <2>2
  <2>3. QED
    BY <1>26, <2>1, <2>2
<1>29. (0 .. 9) \in SUBSET Int /\ Len(r) >= 1
  BY <1>2, <1>18
<1>30. QED
  BY <1>1, <1>18, <1>28, <1>29, StripFacts

-----------------------------------------------------------------------------
(* Numbers.                                                                *)

(* What every number is: a string with a sign and a point.  The string is of *)
(* numbers, ...                                                              *)
Shape(x) ==
    /\ x \in [kind : {"finite", "nan", "inf"}, neg : BOOLEAN, digits : Seq(Nat), point : Nat]
    /\ Len(x.digits) >= 1

(* ... and these are digits unless a division has gone wrong.                *)
Numeric(x) == Shape(x) /\ x.digits \in Seq(0 .. 9)

(* The first digits, the last, and all between, are zeros when each is. *)
LEMMA ZeroPart ==
    ASSUME NEW s \in Seq(Nat), NEW i \in Nat \ {0}, NEW j \in Nat, i <= j + 1, j <= Len(s)
    PROVE  IsZero(SubSeq(s, i, j)) <=> \A k \in i .. j : s[k] = 0
<1> DEFINE r == SubSeq(s, i, j)
<1>1. DOMAIN r = 1 .. j - i + 1 /\ \A k \in 1 .. j - i + 1 : r[k] = s[i + k - 1]
  OBVIOUS
<1> HIDE DEF r
<1>2. ASSUME IsZero(r), NEW k \in i .. j PROVE s[k] = 0
  <2>1. k - i + 1 \in 1 .. j - i + 1 /\ i + (k - i + 1) - 1 = k
    OBVIOUS
  <2>2. r[k - i + 1] = 0
    BY <1>1, <1>2, <2>1 DEF IsZero
  <2>3. QED
    BY <1>1, <2>1, <2>2
<1>3. ASSUME \A k \in i .. j : s[k] = 0 PROVE IsZero(r)
  <2>1. ASSUME NEW k \in DOMAIN r PROVE r[k] = 0
    <3>1. k \in 1 .. j - i + 1
      BY <1>1
    <3>2. i + k - 1 \in i .. j
      BY <3>1
    <3>3. QED
      BY <1>1, <1>3, <3>1, <3>2
  <2>2. QED
    BY <2>1 DEF IsZero
<1>4. QED
  BY <1>2, <1>3 DEF r

(* A part of the digits, when the ones cut off behind are counted. *)
LEMMA CutBoth ==
    ASSUME NEW s \in Seq(Nat), NEW first \in Nat, NEW last \in Nat, first + last < Len(s),
           \A k \in 1 .. first : s[k] = 0,
           \A k \in Len(s) - last + 1 .. Len(s) : s[k] = 0
    PROVE  LET r == SubSeq(s, first + 1, Len(s) - last)
           IN  /\ r \in Seq(Nat)
               /\ Len(r) = Len(s) - last - first
               /\ \A k \in 1 .. Len(r) : r[k] = s[first + k]
               /\ Value(s) = Value(r) * Tens[last]
<1> DEFINE n == Len(s)
           r == SubSeq(s, first + 1, n - last)
<1>1. n \in Nat /\ s \in Seq(Int) /\ n - last - first \in Nat /\ n - last - first >= 1
  <2>1. n \in Nat /\ first + last < n
    OBVIOUS
  <2>2. s \in Seq(Int)
    BY ValueNat
  <2> HIDE DEF n
  <2>3. QED
    BY <2>1, <2>2
<1>2. /\ r \in Seq(Nat) /\ Len(r) = n - last - first
      /\ \A k \in 1 .. n - last - first : r[k] = s[first + k]
  <2>1. /\ r \in Seq(Nat) /\ Len(r) = (n - last) - (first + 1) + 1
        /\ \A k \in 1 .. (n - last) - (first + 1) + 1 : r[k] = s[(first + 1) + k - 1]
    OBVIOUS
  <2>2. (n - last) - (first + 1) + 1 = n - last - first
    BY <1>1
  <2> HIDE DEF r, n
  <2>3. ASSUME NEW k \in 1 .. n - last - first PROVE r[k] = s[first + k]
    <3>1. (first + 1) + k - 1 = first + k
      OBVIOUS
    <3>2. QED
      BY <2>1, <2>2, <3>1
  <2>4. QED
    BY <2>1, <2>2, <2>3
<1> HIDE DEF r
<1>3. ASSUME NEW k \in 0 .. last - 1 PROVE Digit(s, k) = 0
  <2>1. n - k \in n - last + 1 .. n /\ k \in 0 .. n - 1
    BY <1>1
  <2>2. QED
    BY <2>1 DEF Digit
<1>4. ASSUME NEW k \in Nat PROVE Digit(s, last + k) = Digit(r, k)
  <2>1. CASE k < n - last - first
    <3>1. /\ last + k \in 0 .. n - 1 /\ k \in 0 .. Len(r) - 1
          /\ Len(r) - k \in 1 .. n - last - first /\ first + (Len(r) - k) = n - (last + k)
      BY <1>1, <1>2, <2>1
    <3>2. Digit(s, last + k) = s[n - (last + k)] /\ Digit(r, k) = r[Len(r) - k]
      BY <3>1 DEF Digit
    <3>3. r[Len(r) - k] = s[first + (Len(r) - k)]
      BY <1>2, <3>1
    <3>4. QED
      BY <3>1, <3>2, <3>3
  <2>2. CASE k >= n - last - first
    <3>1. k \notin 0 .. Len(r) - 1
      BY <1>1, <1>2, <2>2
    <3>2. Digit(r, k) = 0
      BY <3>1 DEF Digit
    <3>3. last + k \in 0 .. n - 1 => n - (last + k) \in 1 .. first
      BY <1>1, <2>2
    <3>4. Digit(s, last + k) = 0
      BY <3>3 DEF Digit
    <3>5. QED
      BY <3>2, <3>4
  <2>3. QED
    BY <1>1, <2>1, <2>2
<1>5. r \in Seq(Int)
  BY <1>2, ValueNat
<1>6. Value(s) = Value(r) * Tens[last]
  BY <1>1, <1>3, <1>4, <1>5, ValueShift
<1>7. QED
  BY <1>2, <1>6 DEF r

(* How far Trim goes: the zeros it takes, behind and in front.               *)
LEMMA TrimPlaces ==
    ASSUME NEW x, Shape(x),
           NEW last, NEW first,
           last = Max({0} \cup {k \in 1 .. Smaller(x.point, Len(x.digits) - 1) :
                     IsZero(SubSeq(x.digits, Len(x.digits) - k + 1, Len(x.digits)))}),
           first = Max({0} \cup {k \in 1 .. Smaller(Len(x.digits) - last - 1, Len(x.digits) - x.point) :
                     IsZero(SubSeq(x.digits, 1, k))})
    PROVE  /\ last \in Nat /\ last <= x.point /\ last < Len(x.digits)
           /\ \A k \in Len(x.digits) - last + 1 .. Len(x.digits) : x.digits[k] = 0
           /\ \/ last = x.point \/ last = Len(x.digits) - 1
              \/ x.digits[Len(x.digits) - last] # 0
           /\ first \in Nat /\ first + last < Len(x.digits)
           /\ \A k \in 1 .. first : x.digits[k] = 0
           /\ \/ first = Len(x.digits) - last - 1
              \/ first >= Len(x.digits) - x.point
              \/ x.digits[first + 1] # 0
           /\ first = 0 \/ first <= Len(x.digits) - x.point
<1> DEFINE s == x.digits
           n == Len(s)
           L == {k \in 1 .. Smaller(x.point, n - 1) : IsZero(SubSeq(s, n - k + 1, n))}
           F == {k \in 1 .. Smaller(n - last - 1, n - x.point) : IsZero(SubSeq(s, 1, k))}
<1>1. s \in Seq(Nat) /\ n \in Nat /\ n >= 1 /\ x.point \in Nat
  BY DEF Shape
<1>2. last = Max({0} \cup L) /\ first = Max({0} \cup F)
  OBVIOUS
<1>3. /\ \A k \in L : k \in 1 .. n - 1 /\ k <= x.point /\ \A i \in n - k + 1 .. n : s[i] = 0
      /\ \A k \in 1 .. n - 1 : k <= x.point /\ (\A i \in n - k + 1 .. n : s[i] = 0) => k \in L
  <2>1. ASSUME NEW k \in 1 .. n - 1
        PROVE  IsZero(SubSeq(s, n - k + 1, n)) <=> \A i \in n - k + 1 .. n : s[i] = 0
    <3>1. n - k + 1 \in Nat \ {0} /\ n - k + 1 <= n + 1 /\ n <= Len(s)
      BY <1>1
    <3> HIDE DEF n, s
    <3>2. QED
      BY <1>1, <3>1, ZeroPart
  <2>2. \A k \in Int : k \in 1 .. Smaller(x.point, n - 1) <=> k \in 1 .. n - 1 /\ k <= x.point
    BY <1>1 DEF Smaller
  <2> HIDE DEF n, s
  <2>3. QED
    BY <2>1, <2>2
<1> HIDE DEF s, n, L
<1>4. last \in {0} \cup L /\ \A k \in {0} \cup L : k <= last
  <2>1. {0} \cup L \in SUBSET (0 .. n) /\ {0} \cup L # {}
    BY <1>1, <1>3
  <2> DEFINE I == {0} \cup L
  <2> HIDE DEF I
  <2>2. I \in SUBSET (0 .. n) /\ I # {} => Max(I) \in I /\ \A k \in I : k <= Max(I)
    BY <1>1, MaxNat
  <2>3. QED
    BY <1>2, <2>1, <2>2 DEF I
<1>5. last \in Nat /\ last <= x.point /\ last < n /\ \A i \in n - last + 1 .. n : s[i] = 0
  <2>1. CASE last = 0
    <3>1. \A i \in n - last + 1 .. n : FALSE
      BY <1>1, <2>1
    <3>2. QED
      BY <1>1, <2>1, <3>1
  <2>2. CASE last \in L
    <3>1. last \in 1 .. n - 1 /\ last <= x.point /\ \A i \in n - last + 1 .. n : s[i] = 0
      BY <1>3, <2>2
    <3>2. last \in Nat /\ last < n
      BY <1>1, <3>1
    <3>3. QED
      BY <3>1, <3>2
  <2>3. QED
    BY <1>4, <2>1, <2>2
<1>6. last = x.point \/ last = n - 1 \/ s[n - last] # 0
  <2>1. SUFFICES ASSUME last # x.point, last # n - 1, s[n - last] = 0 PROVE FALSE
    OBVIOUS
  <2>2. last + 1 \in 1 .. n - 1 /\ last + 1 <= x.point
    BY <1>1, <1>5, <2>1
  <2>3. ASSUME NEW i \in n - (last + 1) + 1 .. n PROVE s[i] = 0
    <3>1. i = n - last \/ i \in n - last + 1 .. n
      BY <1>1, <1>5
    <3>2. QED
      BY <1>5, <2>1, <3>1
  <2>4. last + 1 \in L
    BY <1>3, <2>2, <2>3
  <2>5. last + 1 <= last
    BY <1>4, <2>4
  <2>6. QED
    BY <1>5, <2>5
<1>7. /\ \A k \in F : k \in 1 .. n - last - 1 /\ k <= n - x.point /\ \A i \in 1 .. k : s[i] = 0
      /\ \A k \in 1 .. n - last - 1 : k <= n - x.point /\ (\A i \in 1 .. k : s[i] = 0) => k \in F
  <2>1. ASSUME NEW k \in 1 .. n - last - 1
        PROVE  IsZero(SubSeq(s, 1, k)) <=> \A i \in 1 .. k : s[i] = 0
    <3>1. 1 \in Nat \ {0} /\ k \in Nat /\ 1 <= k + 1 /\ k <= Len(s)
      BY <1>1, <1>5 DEF n
    <3>2. QED
      BY <1>1, <3>1, ZeroPart
  <2>2. \A k \in Int : k \in 1 .. Smaller(n - last - 1, n - x.point)
                         <=> k \in 1 .. n - last - 1 /\ k <= n - x.point
    BY <1>1, <1>5 DEF Smaller
  <2>3. QED
    BY <2>1, <2>2
<1> HIDE DEF F
<1>8. first \in {0} \cup F /\ \A k \in {0} \cup F : k <= first
  <2>0. ASSUME NEW k \in F PROVE k \in 0 .. n
    <3>1. k \in 1 .. n - last - 1
      BY <1>7
    <3>2. QED
      BY <1>1, <1>5, <3>1
  <2>1. {0} \cup F \in SUBSET (0 .. n) /\ {0} \cup F # {}
    BY <1>1, <2>0
  <2> DEFINE I == {0} \cup F
  <2> HIDE DEF I
  <2>2. I \in SUBSET (0 .. n) /\ I # {} => Max(I) \in I /\ \A k \in I : k <= Max(I)
    BY <1>1, MaxNat
  <2>3. QED
    BY <1>2, <2>1, <2>2 DEF I
<1>9. first \in Nat /\ first + last < n /\ \A i \in 1 .. first : s[i] = 0
  <2>1. CASE first = 0
    <3>1. \A i \in 1 .. first : FALSE
      BY <2>1
    <3>2. first \in Nat /\ first + last < n
      BY <1>1, <1>5, <2>1
    <3>3. QED
      BY <3>1, <3>2
  <2>2. CASE first \in F
    <3>1. first \in 1 .. n - last - 1 /\ \A i \in 1 .. first : s[i] = 0
      BY <1>7, <2>2
    <3>2. first \in Nat /\ first + last < n
      BY <1>1, <1>5, <3>1
    <3>3. QED
      BY <3>1, <3>2
  <2>3. QED
    BY <1>8, <2>1, <2>2
<1>10. first = n - last - 1 \/ first >= n - x.point \/ s[first + 1] # 0
  <2>1. SUFFICES ASSUME first # n - last - 1, ~(first >= n - x.point), s[first + 1] = 0 PROVE FALSE
    OBVIOUS
  <2>2. first + 1 \in 1 .. n - last - 1 /\ first + 1 <= n - x.point
    <3>1. n \in Int /\ x.point \in Int /\ last \in Int /\ first \in Int /\ first >= 0 /\ first + last < n
      BY <1>1, <1>5, <1>9
    <3>2. first # n - last - 1 /\ ~(first >= n - x.point)
      BY <2>1
    <3>3. QED
      BY <3>1, <3>2
  <2>3. ASSUME NEW i \in 1 .. first + 1 PROVE s[i] = 0
    <3>1. i = first + 1 \/ i \in 1 .. first
      BY <1>9
    <3>2. QED
      BY <1>9, <2>1, <3>1
  <2>4. first + 1 \in F
    BY <1>7, <2>2, <2>3
  <2>5. first + 1 <= first
    BY <1>8, <2>4
  <2>6. QED
    BY <1>9, <2>5
<1>11. first = 0 \/ first <= n - x.point
  BY <1>7, <1>8
<1>12. QED
  BY <1>5, <1>6, <1>9, <1>10, <1>11 DEF s, n

(* The string of one zero. *)
LEMMA OneZero ==
    ASSUME NEW r \in Seq(Nat), Len(r) = 1, r[1] = 0
    PROVE  r = << 0 >>
<1>1. <<0>> \in Seq(Nat) /\ Len(<<0>>) = 1 /\ <<0>>[1] = 0
  OBVIOUS
<1>2. \A k \in 1 .. Len(r) : r[k] = <<0>>[k]
  BY <1>1
<1>3. QED
  BY <1>1, <1>2, SeqEqual

(* Trim leaves the number as it is, in its normal form; a zero becomes the   *)
(* number Zero.                                                              *)
LEMMA TrimFacts ==
    ASSUME NEW x, Shape(x), x.kind = "finite"
    PROVE  /\ Shape(Trim(x)) /\ Trim(x).kind = "finite"
           /\ x.digits \in Seq(0 .. 9) => Trim(x).digits \in Seq(0 .. 9)
           /\ Trim(x).point <= x.point
           /\ \A p \in Nat : p >= x.point => Units(Trim(x), p) = Units(x, p)
           /\ Value(Trim(x).digits) = 0 => Trim(x) = Zero
           /\ Value(Trim(x).digits) # 0 => Trim(x).neg = x.neg
           /\ Trim(x).point > 0 => Trim(x).digits[Len(Trim(x).digits)] # 0
           /\ Trim(x).digits[1] = 0 /\ Len(Trim(x).digits) > 1
                 => Len(Trim(x).digits) <= Trim(x).point
           /\ Len(x.digits) >= x.point => Len(Trim(x).digits) >= Trim(x).point
<1> DEFINE s == x.digits
           n == Len(s)
           last == Max({0} \cup {k \in 1 .. Smaller(x.point, n - 1) :
                     IsZero(SubSeq(s, n - k + 1, n))})
           first == Max({0} \cup {k \in 1 .. Smaller(n - last - 1, n - x.point) :
                     IsZero(SubSeq(s, 1, k))})
           r == SubSeq(s, first + 1, n - last)
           y == IF r = <<0>> THEN Zero ELSE Number(x.neg, r, x.point - last)
<1>1. Trim(x) = y
  BY DEF Trim
<1>2. s \in Seq(Nat) /\ n \in Nat /\ n >= 1 /\ x.point \in Nat /\ x.neg \in BOOLEAN
  BY DEF Shape
<1>3. /\ last \in Nat /\ last <= x.point /\ last < n
      /\ \A k \in n - last + 1 .. n : s[k] = 0
      /\ last = x.point \/ last = n - 1 \/ s[n - last] # 0
      /\ first \in Nat /\ first + last < n
      /\ \A k \in 1 .. first : s[k] = 0
      /\ first = n - last - 1 \/ first >= n - x.point \/ s[first + 1] # 0
      /\ first = 0 \/ first <= n - x.point
  <2> DEFINE l == last
             f == first
  <2>1. l = Max({0} \cup {k \in 1 .. Smaller(x.point, Len(x.digits) - 1) :
                     IsZero(SubSeq(x.digits, Len(x.digits) - k + 1, Len(x.digits)))})
    OBVIOUS
  <2>2. f = Max({0} \cup {k \in 1 .. Smaller(Len(x.digits) - l - 1, Len(x.digits) - x.point) :
                     IsZero(SubSeq(x.digits, 1, k))})
    OBVIOUS
  <2> HIDE DEF l, f
  <2>3. /\ l \in Nat /\ l <= x.point /\ l < Len(x.digits)
        /\ \A k \in Len(x.digits) - l + 1 .. Len(x.digits) : x.digits[k] = 0
        /\ l = x.point \/ l = Len(x.digits) - 1 \/ x.digits[Len(x.digits) - l] # 0
        /\ f \in Nat /\ f + l < Len(x.digits)
        /\ \A k \in 1 .. f : x.digits[k] = 0
        /\ f = Len(x.digits) - l - 1 \/ f >= Len(x.digits) - x.point \/ x.digits[f + 1] # 0
        /\ f = 0 \/ f <= Len(x.digits) - x.point
    BY <2>1, <2>2, TrimPlaces
  <2>4. QED
    BY <2>3 DEF l, f
<1> HIDE DEF last, first
<1>4. /\ r \in Seq(Nat) /\ Len(r) = n - last - first
      /\ \A k \in 1 .. Len(r) : r[k] = s[first + k]
      /\ Value(s) = Value(r) * Tens[last]
  <2> HIDE DEF s
  <2>1. QED
    BY <1>2, <1>3, CutBoth, SMTT(30)
<1>5. Len(r) >= 1 /\ r[1] = s[first + 1] /\ r[Len(r)] = s[n - last]
  <2> HIDE DEF r, s
  <2>1. n - last - first >= 1 /\ first + (n - last - first) = n - last
    BY <1>2, <1>3
  <2>2. Len(r) \in 1 .. Len(r) /\ 1 \in 1 .. Len(r)
    BY <1>2, <1>3, <1>4, <2>1
  <2>3. QED
    BY <1>4, <2>1, <2>2
<1>7. ASSUME NEW p \in Nat, p >= x.point
      PROVE  Side(x.neg) * Value(s) * Tens[p - x.point]
                = Side(x.neg) * Value(r) * Tens[p - (x.point - last)]
  <2>1. p - x.point \in Nat /\ p - (x.point - last) = (p - x.point) + last
    BY <1>2, <1>3, <1>7
  <2>2. Tens[(p - x.point) + last] = Tens[p - x.point] * Tens[last]
    BY <1>3, <2>1, TensSum
  <2> DEFINE a == Tens[p - x.point]
             b == Tens[last]
             c == Value(r)
             d == Side(x.neg)
  <2>3. a \in Nat /\ b \in Nat /\ c \in Nat /\ d \in Int
    <3>1. a \in Nat /\ b \in Nat
      BY <1>3, <2>1, TensFacts
    <3>2. c \in Nat
      BY <1>4, ValueNat
    <3>3. d \in Int
      BY DEF Side
    <3>4. QED
      BY <3>1, <3>2, <3>3
  <2>4. Value(s) = c * b /\ Tens[p - (x.point - last)] = a * b
    BY <1>4, <2>1, <2>2
  <2> HIDE DEF a, b, c, d
  <2>5. d * (c * b) * a = d * c * (a * b)
    BY <2>3
  <2>6. QED
    BY <2>4, <2>5 DEF a, c, d
<1> HIDE DEF r, s
<1>8. CASE r = <<0>>
  <2>1. y = Zero
    BY <1>8
  <2>2. Shape(Zero) /\ Zero.kind = "finite" /\ Zero.point = 0 /\ Zero.digits = <<0>>
        /\ Zero.neg = FALSE
    BY DEF Zero, Number, Shape
  <2>3. Value(r) = 0
    BY <1>8, ValueOfShort
  <2>4. ASSUME NEW p \in Nat, p >= x.point PROVE Units(Zero, p) = Units(x, p)
    <3>1. p - (x.point - last) \in Nat /\ p - 0 \in Nat
      BY <1>2, <1>3, <2>4
    <3>2. /\ Tens[p - (x.point - last)] \in Nat /\ Tens[p - 0] \in Nat
          /\ Side(x.neg) \in Int /\ Side(FALSE) \in Int
      BY <3>1, TensFacts DEF Side
    <3>3. Units(Zero, p) = 0
      <4>1. Units(Zero, p) = Side(FALSE) * Value(<<0>>) * Tens[p - 0]
        BY <2>2 DEF Units
      <4>2. Value(<<0>>) = 0
        BY ValueOfShort
      <4> DEFINE a == Side(FALSE)
                 b == Tens[p - 0]
                 c == Value(<<0>>)
      <4>3. a \in Int /\ b \in Int
        <5>1. a \in Int
          BY DEF Side
        <5>2. b \in Int
          BY <3>1, TensFacts
        <5>3. QED
          BY <5>1, <5>2
      <4>4. c = 0
        BY <4>2
      <4>5. Units(Zero, p) = a * c * b
        BY <4>1
      <4> HIDE DEF a, b, c
      <4>6. QED
        BY <4>3, <4>4, <4>5
    <3>4. Units(x, p) = Side(x.neg) * Value(r) * Tens[p - (x.point - last)]
      BY <1>7, <2>4 DEF Units, s
    <3>5. QED
      BY <2>3, <3>2, <3>3, <3>4
  <2>5. Trim(x) = Zero
    BY <1>1, <2>1
  <2>6. Value(Zero.digits) = 0 /\ Len(Zero.digits) = 1
    BY <2>2, ValueOfShort
  <2>7. ~(Zero.point > 0) /\ ~(Len(Zero.digits) > 1) /\ Zero.point <= x.point
        /\ Zero.digits \in Seq(0 .. 9) /\ Len(Zero.digits) >= Zero.point
    BY <1>2, <2>2, <2>6
  <2> HIDE DEF y
  <2>8. QED
    BY <2>2, <2>4, <2>5, <2>6, <2>7
<1>9. CASE r # <<0>>
  <2> DEFINE z == Number(x.neg, r, x.point - last)
  <2>1. y = z
    BY <1>9
  <2>2. z.kind = "finite" /\ z.neg = x.neg /\ z.digits = r /\ z.point = x.point - last
        /\ z = [kind |-> "finite", neg |-> x.neg, digits |-> r, point |-> x.point - last]
    BY DEF Number
  <2>3. x.point - last \in Nat /\ x.point - last <= x.point
    BY <1>2, <1>3
  <2>4. Shape(z)
    BY <1>2, <1>4, <1>5, <2>2, <2>3 DEF Shape
  <2> HIDE DEF y, z
  <2>5. ASSUME NEW p \in Nat, p >= x.point PROVE Units(z, p) = Units(x, p)
    BY <1>7, <2>2, <2>5 DEF Units, s
  <2>6. z.point > 0 => r[Len(r)] # 0
    <3>1. SUFFICES ASSUME x.point - last > 0, s[n - last] = 0 PROVE FALSE
      BY <1>5, <2>2
    <3>2. last = n - 1
      BY <1>2, <1>3, <3>1
    <3>3. Len(r) = 1 /\ r[1] = 0
      BY <1>2, <1>3, <1>4, <1>5, <3>1, <3>2
    <3>4. r = <<0>>
      BY <1>4, <3>3, OneZero
    <3>5. QED
      BY <1>9, <3>4
  <2>7. r[1] = 0 /\ Len(r) > 1 => Len(r) <= z.point
    <3>1. SUFFICES ASSUME s[first + 1] = 0, Len(r) > 1 PROVE n - last - first <= x.point - last
      BY <1>4, <1>5, <2>2
    <3>2. first >= n - x.point
      BY <1>2, <1>3, <1>4, <3>1
    <3>3. QED
      BY <1>2, <1>3, <3>2
  <2>8. Value(r) # 0
    <3>1. SUFFICES ASSUME Value(r) = 0 PROVE FALSE
      OBVIOUS
    <3>2. \A k \in DOMAIN r : r[k] = 0
      BY <1>4, <3>1, ValueZero DEF IsZero
    <3>3. r[1] = 0 /\ r[Len(r)] = 0
      BY <1>4, <1>5, <3>2
    <3>4. x.point - last = 0
      BY <2>2, <2>3, <2>6, <3>3
    <3>5. Len(r) = 1
      BY <1>4, <1>5, <2>2, <2>7, <3>3, <3>4
    <3>6. r = <<0>>
      BY <1>4, <3>3, <3>5, OneZero
    <3>7. QED
      BY <1>9, <3>6
  <2>9. ASSUME s \in Seq(0 .. 9) PROVE r \in Seq(0 .. 9)
    <3>1. ASSUME NEW k \in 1 .. Len(r) PROVE r[k] \in 0 .. 9
      <4>1. first + k \in 1 .. n
        BY <1>2, <1>3, <1>4
      <4>2. s[first + k] \in 0 .. 9
        BY <2>9, <4>1
      <4>3. QED
        BY <1>4, <4>2
    <3>2. QED
      BY <1>4, <3>1
  <2>10. n >= x.point => Len(r) >= x.point - last
    <3>1. Len(r) = n - last - first /\ n \in Int /\ x.point \in Int
      BY <1>2, <1>4
    <3>2. last \in Int /\ first \in Int /\ (first = 0 \/ first <= n - x.point)
      BY <1>3
    <3>3. QED
      BY <3>1, <3>2
  <2>11. QED
    BY <1>1, <2>1, <2>2, <2>3, <2>4, <2>5, <2>6, <2>7, <2>8, <2>9, <2>10 DEF s, n
<1>10. QED
  BY <1>8, <1>9

-----------------------------------------------------------------------------
(* Sums and differences of numbers.                                        *)

(* No zeros at the end of a fraction or at the start of what is before it.   *)
Trimmed(x) ==
    /\ x.point > 0 => x.digits[Len(x.digits)] # 0
    /\ x.digits[1] = 0 /\ Len(x.digits) > 1 => Len(x.digits) <= x.point

(* What a number is made of. *)
LEMMA NumberFacts ==
    ASSUME NEW neg \in BOOLEAN, NEW d \in Seq(Nat), Len(d) >= 1, NEW p \in Nat
    PROVE  LET y == Number(neg, d, p)
           IN  /\ Shape(y) /\ y.kind = "finite"
               /\ d \in Seq(0 .. 9) => Numeric(y)
               /\ y.neg = neg /\ y.digits = d /\ y.point = p
               /\ Units(y, p) = Side(neg) * Value(d)
<1> DEFINE y == Number(neg, d, p)
<1>1. /\ y.kind = "finite" /\ y.neg = neg /\ y.digits = d /\ y.point = p
      /\ y = [kind |-> "finite", neg |-> neg, digits |-> d, point |-> p]
  BY DEF Number
<1>2. Shape(y) /\ (d \in Seq(0 .. 9) => Numeric(y))
  <2>1. Shape(y)
    BY <1>1 DEF Shape
  <2>2. QED
    BY <1>1, <2>1 DEF Numeric
<1> HIDE DEF y
<1>3. Units(y, p) = Side(neg) * Value(d)
  <2>1. p - p = 0
    OBVIOUS
  <2>2. Units(y, p) = Side(neg) * Value(d) * Tens[0]
    BY <1>1, <2>1 DEF Units
  <2> DEFINE a == Side(neg)
             b == Value(d)
  <2>3. a \in Int
    BY DEF Side
  <2>4. b \in Int
    BY ValueNat
  <2>5. Units(y, p) = a * b * 1
    BY <2>2, TensFacts
  <2> HIDE DEF a, b
  <2>6. Units(y, p) = a * b
    BY <2>3, <2>4, <2>5
  <2>7. QED
    BY <2>6 DEF a, b
<1>4. QED
  BY <1>1, <1>2, <1>3 DEF y

(* The parts of a number. *)
LEMMA ShapeParts ==
    ASSUME NEW x, Shape(x)
    PROVE  /\ x.neg \in BOOLEAN /\ x.digits \in Seq(Nat) /\ Len(x.digits) \in Nat
           /\ Len(x.digits) >= 1 /\ x.point \in Nat /\ x.kind \in {"finite", "nan", "inf"}
           /\ Value(x.digits) \in Nat /\ Side(x.neg) \in {-1, 1}
<1>1. /\ x.neg \in BOOLEAN /\ x.digits \in Seq(Nat) /\ Len(x.digits) \in Nat
      /\ Len(x.digits) >= 1 /\ x.point \in Nat /\ x.kind \in {"finite", "nan", "inf"}
  BY DEF Shape
<1>2. Value(x.digits) \in Nat
  BY <1>1, ValueNat
<1>3. Side(x.neg) \in {-1, 1}
  BY DEF Side
<1>4. QED
  BY <1>1, <1>2, <1>3

(* Units of more decimals are more. *)
LEMMA UnitsFacts ==
    ASSUME NEW x, Shape(x), NEW p \in Nat, p >= x.point
    PROVE  /\ Units(x, p) \in Int
           /\ \A q \in Nat : q >= p => Units(x, q) = Units(x, p) * Tens[q - p]
<1> DEFINE a == Side(x.neg)
           b == Value(x.digits)
           c == Tens[p - x.point]
<1>1. p - x.point \in Nat
  BY ShapeParts
<1>2. a \in Int /\ b \in Int /\ c \in Int
  <2>1. a \in Int /\ b \in Int
    BY ShapeParts
  <2>2. c \in Int
    BY <1>1, TensFacts
  <2>3. QED
    BY <2>1, <2>2
<1>3. Units(x, p) = a * b * c
  BY DEF Units
<1>4. ASSUME NEW q \in Nat, q >= p PROVE Units(x, q) = a * b * (c * Tens[q - p])
  <2>1. q - p \in Nat /\ q - x.point = (p - x.point) + (q - p)
    BY <1>4, ShapeParts
  <2>2. Tens[(p - x.point) + (q - p)] = c * Tens[q - p]
    BY <1>1, <2>1, TensSum
  <2>3. QED
    BY <2>1, <2>2 DEF Units
<1> HIDE DEF a, b, c
<1>5. \A x1, x2 \in Int : x1 * x2 \in Int
  OBVIOUS
<1>6. ASSUME NEW q \in Nat, q >= p PROVE Units(x, q) = Units(x, p) * Tens[q - p]
  <2> DEFINE e == Tens[q - p]
  <2>1. q - p \in Nat
    BY <1>6
  <2>2. e \in Int
    BY <2>1, TensFacts
  <2>3. Units(x, q) = a * b * (c * e)
    BY <1>4, <1>6
  <2> HIDE DEF e
  <2>4. a * b * (c * e) = a * b * c * e
    BY <1>2, <2>2
  <2>5. QED
    BY <1>3, <2>3, <2>4 DEF e
<1>7. Units(x, p) \in Int
  BY <1>2, <1>3, <1>5
<1>8. QED
  BY <1>6, <1>7

(* Aligned digits count the units. *)
LEMMA AlignFacts ==
    ASSUME NEW x, Numeric(x), NEW p \in Nat, p >= x.point
    PROVE  /\ Align(x, p).digits \in Seq(0 .. 9)
           /\ Len(Align(x, p).digits) >= 1
           /\ Units(x, p) = Side(x.neg) * Value(Align(x, p).digits)
<1> DEFINE s == x.digits
           n == p - x.point
           r == IF x.point < p THEN s \o Zeros(n) ELSE s
<1>1. s \in Seq(0 .. 9) /\ Len(s) >= 1 /\ x.point \in Nat /\ n \in Nat /\ Side(x.neg) \in Int
      /\ Value(s) \in Nat
  BY ShapeParts DEF Numeric
<1>2. Align(x, p).digits = r
  <2>1. x \in [kind : {"finite", "nan", "inf"}, neg : BOOLEAN, digits : Seq(Nat), point : Nat]
    BY DEF Numeric, Shape
  <2>2. QED
    BY <2>1 DEF Align
<1>3. Zeros(n) \in Seq(0 .. 9) /\ Larger(n, 0) = n /\ Len(Zeros(n)) \in Nat
  <2>1. n \in Int
    BY <1>1
  <2> HIDE DEF n
  <2>2. Zeros(n) \in Seq(0 .. 9) /\ Len(Zeros(n)) \in Nat
    BY <2>1, ZerosType
  <2>3. Larger(n, 0) = n
    BY <1>1 DEF Larger
  <2>4. QED
    BY <2>2, <2>3
<1>4. r \in Seq(0 .. 9) /\ Len(r) >= 1
  <2> HIDE DEF s, n
  <2>1. s \o Zeros(n) \in Seq(0 .. 9) /\ Len(s \o Zeros(n)) = Len(s) + Len(Zeros(n))
    BY <1>1, <1>3
  <2>2. Len(s) \in Nat
    BY <1>1
  <2>3. QED
    BY <1>1, <1>3, <2>1, <2>2
<1>5. Value(r) = Value(s) * Tens[n]
  <2>1. CASE x.point < p
    <3>1. s \in Seq(Int) /\ n \in Int
      BY <1>1, ValueBound
    <3> HIDE DEF s, n
    <3>2. Value(s \o Zeros(n)) = Value(s) * Tens[n]
      BY <1>3, <3>1, ValueOfPadded
    <3>3. QED
      BY <2>1, <3>2
  <2>2. CASE ~(x.point < p)
    <3>1. n = 0
      BY <1>1, <2>2
    <3>2. Value(s) = Value(s) * 1
      BY <1>1
    <3>3. QED
      BY <2>2, <3>1, <3>2, TensFacts
  <2>3. QED
    BY <2>1, <2>2
<1>6. Units(x, p) = Side(x.neg) * Value(s) * Tens[n]
  BY DEF Units
<1>7. Side(x.neg) * Value(s) * Tens[n] = Side(x.neg) * (Value(s) * Tens[n])
  <2> DEFINE a == Side(x.neg)
             b == Value(s)
             c == Tens[n]
  <2>1. c \in Int
    <3>1. n \in Nat
      BY <1>1
    <3> HIDE DEF n
    <3>2. QED
      BY <3>1, TensFacts
  <2>2. a \in Int /\ b \in Int
    BY <1>1
  <2> HIDE DEF a, b, c
  <2>3. a * b * c = a * (b * c)
    BY <2>1, <2>2
  <2>4. QED
    BY <2>3 DEF a, b, c
<1>8. QED
  BY <1>2, <1>4, <1>5, <1>6, <1>7

(* The larger of two. *)
LEMMA LargerFacts ==
    \A m, n \in Nat : /\ Larger(m, n) \in Nat /\ Larger(m, n) >= m /\ Larger(m, n) >= n
                      /\ Larger(m, n) = m \/ Larger(m, n) = n
  BY DEF Larger

(* bigfloat_add is exact, whatever the signs and the decimals. *)
LEMMA AddFiniteFacts ==
    ASSUME NEW a, Numeric(a), NEW b, Numeric(b)
    PROVE  LET p == Larger(a.point, b.point)
           IN  /\ Numeric(AddFinite(a, b)) /\ AddFinite(a, b).kind = "finite"
               /\ AddFinite(a, b).point <= p
               /\ Trimmed(AddFinite(a, b))
               /\ Value(AddFinite(a, b).digits) = 0 => AddFinite(a, b) = Zero
               /\ Units(AddFinite(a, b), p) = Units(a, p) + Units(b, p)
<1> DEFINE p == Larger(a.point, b.point)
           s == Align(a, p).digits
           t == Align(b, p).digits
           A == Value(s)
           B == Value(t)
<1>1. p \in Nat /\ p >= a.point /\ p >= b.point /\ a.neg \in BOOLEAN /\ b.neg \in BOOLEAN
  BY ShapeParts, LargerFacts DEF Numeric
<1> HIDE DEF p
<1>2. /\ s \in Seq(0 .. 9) /\ Len(s) >= 1 /\ Units(a, p) = Side(a.neg) * A
      /\ t \in Seq(0 .. 9) /\ Len(t) >= 1 /\ Units(b, p) = Side(b.neg) * B
  BY <1>1, AlignFacts
<1> HIDE DEF s, t
<1>3. A \in Nat /\ B \in Nat
  BY <1>2, ValueBound
<1> DEFINE y == CASE a.neg = b.neg -> Number(a.neg, AddDigits(s, t), p)
                  [] a.neg # b.neg /\ CompareDigits(s, t) >= 0 -> Number(a.neg, SubDigits(s, t), p)
                  [] OTHER -> Number(b.neg, SubDigits(t, s), p)
<1>4. AddFinite(a, b) = Trim(y)
  BY DEF AddFinite, p, s, t
<1>5. CompareDigits(s, t) = IF A > B THEN 1 ELSE IF A = B THEN 0 ELSE -1
  BY <1>2, CompareFacts
<1>6. /\ AddDigits(s, t) \in Seq(0 .. 9) /\ Len(AddDigits(s, t)) >= 1
      /\ Value(AddDigits(s, t)) = A + B
  BY <1>2, AddDigitsFacts
<1> HIDE DEF A, B
<1>7. /\ Numeric(y) /\ y.kind = "finite" /\ y.point = p
      /\ Units(y, p) = Units(a, p) + Units(b, p)
  <2>1. CASE a.neg = b.neg
    <3> DEFINE z == Number(a.neg, AddDigits(s, t), p)
    <3>1. Numeric(z) /\ z.kind = "finite" /\ z.point = p /\ Units(z, p) = Side(a.neg) * (A + B)
      BY <1>1, <1>6, NumberFacts, ValueBound
    <3>2. y = z
      BY <2>1
    <3> HIDE DEF y, z
    <3>3. Side(a.neg) * (A + B) = Side(a.neg) * A + Side(a.neg) * B
      BY <1>3 DEF Side
    <3>4. QED
      BY <1>2, <2>1, <3>1, <3>2, <3>3
  <2>2. CASE a.neg # b.neg /\ A >= B
    <3> DEFINE z == Number(a.neg, SubDigits(s, t), p)
    <3>1. /\ SubDigits(s, t) \in Seq(0 .. 9) /\ Len(SubDigits(s, t)) >= 1
          /\ Value(SubDigits(s, t)) = A - B
      <4>1. Value(t) <= Value(s)
        BY <1>3, <2>2 DEF A, B
      <4>2. QED
        BY <1>2, <4>1, SubDigitsFacts DEF A, B
    <3>2. Numeric(z) /\ z.kind = "finite" /\ z.point = p /\ Units(z, p) = Side(a.neg) * (A - B)
      BY <1>1, <3>1, NumberFacts, ValueBound
    <3>3. CompareDigits(s, t) >= 0
      BY <1>3, <1>5, <2>2
    <3>4. y = z
      BY <2>2, <3>3
    <3> HIDE DEF y, z
    <3>5. Side(a.neg) * (A - B) = Side(a.neg) * A + Side(b.neg) * B
      BY <1>1, <1>3, <2>2 DEF Side
    <3>6. QED
      BY <1>2, <3>2, <3>4, <3>5
  <2>3. CASE a.neg # b.neg /\ A < B
    <3> DEFINE z == Number(b.neg, SubDigits(t, s), p)
    <3>1. /\ SubDigits(t, s) \in Seq(0 .. 9) /\ Len(SubDigits(t, s)) >= 1
          /\ Value(SubDigits(t, s)) = B - A
      <4>1. Value(s) <= Value(t)
        BY <1>3, <2>3 DEF A, B
      <4>2. QED
        BY <1>2, <4>1, SubDigitsFacts DEF A, B
    <3>2. Numeric(z) /\ z.kind = "finite" /\ z.point = p /\ Units(z, p) = Side(b.neg) * (B - A)
      BY <1>1, <3>1, NumberFacts, ValueBound
    <3>3. ~(CompareDigits(s, t) >= 0)
      BY <1>3, <1>5, <2>3
    <3>4. y = z
      BY <2>3, <3>3
    <3> HIDE DEF y, z
    <3>5. Side(b.neg) * (B - A) = Side(a.neg) * A + Side(b.neg) * B
      BY <1>1, <1>3, <2>3 DEF Side
    <3>6. QED
      BY <1>2, <3>2, <3>4, <3>5
  <2>4. QED
    BY <1>3, <2>1, <2>2, <2>3
<1> HIDE DEF y
<1>8. /\ Numeric(Trim(y)) /\ Trim(y).kind = "finite" /\ Trim(y).point <= p
      /\ Trimmed(Trim(y)) /\ (Value(Trim(y).digits) = 0 => Trim(y) = Zero)
      /\ Units(Trim(y), p) = Units(y, p)
  BY <1>1, <1>7, TrimFacts DEF Numeric, Trimmed
<1>9. QED
  BY <1>4, <1>7, <1>8 DEF p

(* Zero, NaN and the infinities are numbers. *)
LEMMA SpecialFacts ==
    /\ Numeric(Zero) /\ Trimmed(Zero) /\ Zero.kind = "finite" /\ Zero.neg = FALSE
    /\ Numeric(NaN) /\ Trimmed(NaN) /\ NaN.kind = "nan" /\ NaN.neg = FALSE
    /\ \A neg \in BOOLEAN : /\ Numeric(Inf(neg)) /\ Trimmed(Inf(neg))
                            /\ Inf(neg).kind = "inf" /\ Inf(neg).neg = neg
<1>1. <<0>> \in Seq(Nat) /\ <<0>> \in Seq(0 .. 9) /\ Len(<<0>>) = 1
  OBVIOUS
<1> DEFINE R == [kind : {"finite", "nan", "inf"}, neg : BOOLEAN, digits : Seq(Nat), point : Nat]
<1>2. /\ Zero \in R /\ Zero.kind = "finite" /\ Zero.neg = FALSE
      /\ Zero.digits = <<0>> /\ Zero.point = 0
  BY <1>1 DEF Zero, Number
<1>3. /\ NaN \in R /\ NaN.kind = "nan" /\ NaN.neg = FALSE
      /\ NaN.digits = <<0>> /\ NaN.point = 0
  BY <1>2 DEF NaN
<1>4. ASSUME NEW neg \in BOOLEAN
      PROVE  /\ Inf(neg) \in R /\ Inf(neg).kind = "inf" /\ Inf(neg).neg = neg
             /\ Inf(neg).digits = <<0>> /\ Inf(neg).point = 0
  BY <1>2 DEF Inf
<1>5. ASSUME NEW x \in R, x.digits = << 0 >>, x.point = 0
      PROVE  Numeric(x) /\ Trimmed(x)
  BY <1>1, <1>5 DEF Numeric, Shape, Trimmed
<1> HIDE DEF R
<1>6. QED
  BY <1>2, <1>3, <1>4, <1>5

(* BINARY_OP +. *)
LEMMA AddFacts ==
    ASSUME NEW a, Numeric(a), NEW b, Numeric(b)
    PROVE  /\ Numeric(Add(a, b)) /\ Trimmed(Add(a, b))
           /\ Add(a, b).kind = "finite" /\ Value(Add(a, b).digits) = 0 => Add(a, b).neg = FALSE
           /\ a.kind = "finite" /\ b.kind = "finite" =>
                LET p == Larger(a.point, b.point)
                IN  /\ Add(a, b).kind = "finite" /\ Add(a, b).point <= p
                    /\ Units(Add(a, b), p) = Units(a, p) + Units(b, p)
<1>1. /\ a.kind \in {"finite", "nan", "inf"} /\ b.kind \in {"finite", "nan", "inf"}
      /\ a.neg \in BOOLEAN /\ b.neg \in BOOLEAN
  BY ShapeParts DEF Numeric
<1>2. CASE a.kind = "finite" /\ b.kind = "finite"
  <2>1. Add(a, b) = AddFinite(a, b)
    BY <1>2 DEF Add, Kinds
  <2>2. QED
    BY <2>1, AddFiniteFacts, SpecialFacts
<1>3. CASE ~(a.kind = "finite" /\ b.kind = "finite")
  <2>1. Add(a, b) \in {NaN, Inf(a.neg), Inf(b.neg)}
    BY <1>1, <1>3 DEF Add, Kinds
  <2>2. QED
    BY <1>1, <1>3, <2>1, SpecialFacts
<1>4. QED
  BY <1>2, <1>3

(* The same number with the other sign. *)
LEMMA NegatedFacts ==
    ASSUME NEW b, Shape(b)
    PROVE  LET c == [b EXCEPT !.neg = ~@]
           IN  /\ Shape(c) /\ c.kind = b.kind /\ c.digits = b.digits /\ c.point = b.point
               /\ c.neg = ~b.neg
               /\ \A p \in Nat : p >= b.point => Units(c, p) = -Units(b, p)
<1> DEFINE c == [b EXCEPT !.neg = ~@]
<1>1. b \in [kind : {"finite", "nan", "inf"}, neg : BOOLEAN, digits : Seq(Nat), point : Nat]
      /\ Len(b.digits) >= 1
  BY DEF Shape
<1>2. c.kind = b.kind /\ c.digits = b.digits /\ c.point = b.point /\ c.neg = ~b.neg
      /\ c \in [kind : {"finite", "nan", "inf"}, neg : BOOLEAN, digits : Seq(Nat), point : Nat]
  BY <1>1
<1> HIDE DEF c
<1>3. Shape(c)
  BY <1>1, <1>2 DEF Shape
<1>4. ASSUME NEW p \in Nat, p >= b.point PROVE Units(c, p) = -Units(b, p)
  <2> DEFINE x == Value(b.digits)
             y == Tens[p - b.point]
  <2>1. x \in Int
    BY ShapeParts
  <2>2. y \in Int
    <3>1. p - b.point \in Nat
      BY <1>4, ShapeParts
    <3>2. QED
      BY <3>1, TensFacts
  <2>3. Units(c, p) = Side(c.neg) * x * y /\ Units(b, p) = Side(b.neg) * x * y
    BY <1>2 DEF Units
  <2> HIDE DEF x, y
  <2>4. (-1) * x * y = -(1 * x * y) /\ 1 * x * y = -((-1) * x * y)
    BY <2>1, <2>2
  <2>5. CASE b.neg
    <3>1. Side(c.neg) = 1 /\ Side(b.neg) = -1
      BY <1>2, <2>5 DEF Side
    <3>2. QED
      BY <2>3, <2>4, <3>1
  <2>6. CASE ~b.neg
    <3>1. Side(c.neg) = -1 /\ Side(b.neg) = 1
      BY <1>2, <2>6 DEF Side
    <3>2. QED
      BY <2>3, <2>4, <3>1
  <2>7. QED
    BY <2>5, <2>6
<1>5. QED
  BY <1>2, <1>3, <1>4 DEF c

(* BINARY_OP -. *)
LEMMA SubFacts ==
    ASSUME NEW a, Numeric(a), NEW b, Numeric(b)
    PROVE  /\ Numeric(Sub(a, b)) /\ Trimmed(Sub(a, b))
           /\ Sub(a, b).kind = "finite" /\ Value(Sub(a, b).digits) = 0 => Sub(a, b).neg = FALSE
           /\ a.kind = "finite" /\ b.kind = "finite" =>
                LET p == Larger(a.point, b.point)
                IN  /\ Sub(a, b).kind = "finite" /\ Sub(a, b).point <= p
                    /\ Units(Sub(a, b), p) = Units(a, p) - Units(b, p)
<1> DEFINE c == [b EXCEPT !.neg = ~@]
           p == Larger(a.point, b.point)
<1>1. /\ Shape(c) /\ c.kind = b.kind /\ c.digits = b.digits /\ c.point = b.point
      /\ \A q \in Nat : q >= b.point => Units(c, q) = -Units(b, q)
  BY NegatedFacts DEF Numeric
<1>2. Sub(a, b) = Add(a, c)
  BY DEF Sub
<1> HIDE DEF c
<1>3. Numeric(c)
  BY <1>1 DEF Numeric
<1>4. p \in Nat /\ p >= a.point /\ p >= b.point
  BY ShapeParts, LargerFacts DEF Numeric
<1>5. Units(a, p) \in Int /\ Units(b, p) \in Int /\ Units(c, p) = -Units(b, p)
  <2> HIDE DEF p
  <2>1. Units(a, p) \in Int /\ Units(b, p) \in Int
    BY <1>4, UnitsFacts DEF Numeric
  <2>2. Units(c, p) = -Units(b, p)
    BY <1>1, <1>4
  <2>3. QED
    BY <2>1, <2>2
<1>6. p = Larger(a.point, c.point)
  BY <1>1
<1>7. /\ Numeric(Add(a, c)) /\ Trimmed(Add(a, c))
      /\ Add(a, c).kind = "finite" /\ Value(Add(a, c).digits) = 0 => Add(a, c).neg = FALSE
      /\ a.kind = "finite" /\ c.kind = "finite" =>
                  /\ Add(a, c).kind = "finite" /\ Add(a, c).point <= p
                  /\ Units(Add(a, c), p) = Units(a, p) + Units(c, p)
  BY <1>3, <1>6, AddFacts
<1> HIDE DEF p
<1>8. Units(a, p) + Units(c, p) = Units(a, p) - Units(b, p)
  BY <1>5
<1>9. QED
  BY <1>1, <1>2, <1>7, <1>8 DEF p

-----------------------------------------------------------------------------
(* Comparing numbers.                                                      *)

(* A number without its sign, in units of the p-th decimal. *)
Amount(x, p) == Value(x.digits) * Tens[p - x.point]

(* What it is, and in units of more decimals. *)
LEMMA AmountFacts ==
    ASSUME NEW x, Shape(x), NEW p \in Nat, p >= x.point
    PROVE  /\ Amount(x, p) \in Nat
           /\ Units(x, p) = Side(x.neg) * Amount(x, p)
           /\ Value(x.digits) = 0 <=> Amount(x, p) = 0
           /\ \A q \in Nat : q >= p => Amount(x, q) = Amount(x, p) * Tens[q - p]
<1> DEFINE a == Side(x.neg)
           b == Value(x.digits)
           c == Tens[p - x.point]
<1>1. p - x.point \in Nat
  BY ShapeParts
<1>2. a \in Int /\ b \in Nat
  BY ShapeParts
<1>3. c \in Nat /\ c >= 1
  BY <1>1, TensPositive
<1>4. Amount(x, p) = b * c /\ Units(x, p) = a * b * c
  BY DEF Amount, Units
<1>5. ASSUME NEW q \in Nat, q >= p PROVE Amount(x, q) = b * (c * Tens[q - p]) /\ Tens[q - p] \in Nat
  <2>1. q - p \in Nat /\ q - x.point = (p - x.point) + (q - p)
    BY <1>5, ShapeParts
  <2>2. Tens[(p - x.point) + (q - p)] = c * Tens[q - p]
    BY <1>1, <2>1, TensSum
  <2>3. QED
    BY <2>1, <2>2, TensFacts DEF Amount
<1> HIDE DEF a, b, c
<1>6. b * c \in Nat /\ a * b * c = a * (b * c)
  BY <1>2, <1>3
<1>7. b = 0 <=> b * c = 0
  <2>1. b >= 1 => b * c >= 1
    <3>1. ASSUME NEW u \in Nat, NEW v \in Nat, u >= 1, v >= 1 PROVE u * v >= 1
      <4>1. (u - 1) * (v - 1) >= 0 /\ (u - 1) * (v - 1) = u * v - u - v + 1 /\ u * v \in Int
        BY <3>1
      <4>2. QED
        BY <3>1, <4>1
    <3>2. QED
      BY <1>2, <1>3, <3>1
  <2>2. b = 0 => b * c = 0
    BY <1>3
  <2>3. QED
    BY <1>2, <2>1, <2>2
<1>8. ASSUME NEW q \in Nat, q >= p PROVE Amount(x, q) = Amount(x, p) * Tens[q - p]
  <2> DEFINE e == Tens[q - p]
  <2>1. Amount(x, q) = b * (c * e) /\ e \in Nat
    BY <1>5, <1>8
  <2> HIDE DEF e
  <2>2. b * (c * e) = b * c * e
    BY <1>2, <1>3, <2>1
  <2>3. QED
    BY <1>4, <2>1, <2>2 DEF e
<1>9. QED
  BY <1>4, <1>6, <1>7, <1>8 DEF b, a

(* A factor does not change which one is larger. *)
LEMMA SameOrder ==
    ASSUME NEW a \in Nat, NEW b \in Nat, NEW c \in Nat, c >= 1
    PROVE  (a * c > b * c <=> a > b) /\ (a * c = b * c <=> a = b)
<1>1. a * c \in Nat /\ b * c \in Nat
  OBVIOUS
<1>2. ASSUME NEW x \in Nat, NEW y \in Nat, x > y PROVE x * c > y * c
  <2>1. (x - y - 1) * c >= 0 /\ (x - y - 1) * c = x * c - y * c - c /\ x * c \in Int /\ y * c \in Int
    BY <1>2
  <2>2. QED
    BY <2>1
<1>3. a > b => a * c > b * c
  BY <1>2
<1>4. b > a => b * c > a * c
  BY <1>2
<1>5. a = b => a * c = b * c
  OBVIOUS
<1>6. QED
  BY <1>1, <1>3, <1>4, <1>5

(* Amounts are compared, whatever the decimals. *)
LEMMA CompareAbsFacts ==
    ASSUME NEW a, Numeric(a), NEW b, Numeric(b), NEW q \in Nat, q >= a.point, q >= b.point
    PROVE  CompareAbs(a, b) = IF Amount(a, q) > Amount(b, q) THEN 1
                              ELSE IF Amount(a, q) = Amount(b, q) THEN 0 ELSE -1
<1> DEFINE p == Larger(a.point, b.point)
           s == Align(a, p).digits
           t == Align(b, p).digits
<1>1. p \in Nat /\ p >= a.point /\ p >= b.point /\ p <= q
  <2>1. a.point \in Nat /\ b.point \in Nat
    BY ShapeParts DEF Numeric
  <2>2. p \in Nat /\ p >= a.point /\ p >= b.point /\ (p = a.point \/ p = b.point)
    BY <2>1, LargerFacts
  <2>3. QED
    BY <2>2
<1>2. CompareAbs(a, b) = CompareDigits(s, t)
  BY DEF CompareAbs
<1> HIDE DEF p
<1>3. /\ s \in Seq(0 .. 9) /\ Len(s) >= 1 /\ Units(a, p) = Side(a.neg) * Value(s)
      /\ t \in Seq(0 .. 9) /\ Len(t) >= 1 /\ Units(b, p) = Side(b.neg) * Value(t)
  BY <1>1, AlignFacts
<1> HIDE DEF s, t
<1>4. Value(s) \in Nat /\ Value(t) \in Nat
  BY <1>3, ValueBound
<1>5. /\ Amount(a, p) \in Nat /\ Units(a, p) = Side(a.neg) * Amount(a, p)
      /\ Amount(a, q) = Amount(a, p) * Tens[q - p]
      /\ Amount(b, p) \in Nat /\ Units(b, p) = Side(b.neg) * Amount(b, p)
      /\ Amount(b, q) = Amount(b, p) * Tens[q - p]
  BY <1>1, AmountFacts DEF Numeric
<1>6. ASSUME NEW i \in {-1, 1}, NEW x \in Nat, NEW y \in Nat, i * x = i * y PROVE x = y
  BY <1>6
<1>7. Side(a.neg) \in {-1, 1} /\ Side(b.neg) \in {-1, 1}
  BY DEF Side
<1>8. Amount(a, p) = Value(s) /\ Amount(b, p) = Value(t)
  BY <1>3, <1>4, <1>5, <1>6, <1>7
<1>9. q - p \in Nat /\ Tens[q - p] \in Nat /\ Tens[q - p] >= 1
  <2>1. q - p \in Nat
    BY <1>1
  <2>2. QED
    BY <2>1, TensPositive
<1> DEFINE A == Amount(a, p)
           B == Amount(b, p)
           c == Tens[q - p]
<1>10. /\ CompareAbs(a, b) = IF A > B THEN 1 ELSE IF A = B THEN 0 ELSE -1
       /\ Amount(a, q) = A * c /\ Amount(b, q) = B * c
       /\ A \in Nat /\ B \in Nat /\ c \in Nat /\ c >= 1
  BY <1>2, <1>3, <1>5, <1>8, <1>9, CompareFacts
<1> HIDE DEF A, B, c
<1>11. (A * c > B * c <=> A > B) /\ (A * c = B * c <=> A = B)
  BY <1>10, SameOrder
<1>12. QED
  BY <1>10, <1>11

(* The tolerance is one unit of its last decimal. *)
LEMMA EpsilonFacts ==
    /\ Numeric(Epsilon) /\ Epsilon.point = Tolerance /\ Tolerance \in Nat
    /\ \A p \in Nat : p >= Tolerance => Amount(Epsilon, p) = Tens[p - Tolerance]
<1> DEFINE z == Zeros(Tolerance - 1)
           s == z \o <<1>>
<1>1. Tolerance \in Nat /\ Tolerance - 1 \in Int
  BY PrecisionAssumption
<1>2. /\ z \in Seq(0 .. 9) /\ Len(z) \in Nat /\ <<1>> \in Seq(0 .. 9) /\ Len(<<1>>) = 1
      /\ \A i \in 1 .. Len(z) : z[i] = 0
  BY <1>1, ZerosType
<1> HIDE DEF z
<1>3. s \in Seq(0 .. 9) /\ Len(s) >= 1
  BY <1>2
<1>4. Value(z) = 0
  <2>1. \A i \in DOMAIN z : z[i] = 0
    BY <1>2
  <2>2. QED
    BY <1>2, <2>1, ValueBound, ValueZero DEF IsZero
<1>5. Value(s) = 1
  <2>1. z \in Seq(Int) /\ <<1>> \in Seq(Int)
    BY <1>2, ValueBound
  <2>2. Value(s) = Value(z) * Tens[1] + Value(<<1>>)
    BY <1>2, <2>1, ValueOfConcat
  <2>3. Value(<<1>>) = 1
    BY ValueOfShort
  <2>4. Tens[1] \in Nat
    BY TensFacts
  <2>5. 0 * Tens[1] + 1 = 1
    BY <2>4
  <2>6. QED
    BY <1>4, <2>2, <2>3, <2>5
<1> HIDE DEF s
<1>6. Numeric(Epsilon) /\ Epsilon.digits = s /\ Epsilon.point = Tolerance
  <2>1. Epsilon = Number(FALSE, s, Tolerance)
    BY DEF Epsilon, s, z
  <2>2. s \in Seq(Nat)
    BY <1>3, ValueBound
  <2>3. QED
    BY <1>1, <1>3, <2>1, <2>2, NumberFacts
<1>7. ASSUME NEW p \in Nat, p >= Tolerance PROVE Amount(Epsilon, p) = Tens[p - Tolerance]
  <2>1. p - Tolerance \in Nat
    BY <1>1, <1>7
  <2>2. Tens[p - Tolerance] \in Nat
    BY <2>1, TensFacts
  <2>3. Amount(Epsilon, p) = 1 * Tens[p - Tolerance]
    BY <1>5, <1>6 DEF Amount
  <2>4. QED
    BY <2>2, <2>3
<1>8. QED
  BY <1>1, <1>6, <1>7

(* Which one of two numbers of the same sign is larger, by more than the     *)
(* tolerance: bigfloat_cmp, in units of the p-th decimal.                    *)
LEMMA CompareFiniteFacts ==
    ASSUME NEW a, Numeric(a), a.kind = "finite", NEW b, Numeric(b), b.kind = "finite",
           NEW p \in Nat, p >= a.point, p >= b.point, p >= Tolerance
    PROVE  LET d == Units(a, p) - Units(b, p)
               e == Tens[p - Tolerance]
               side == IF -e <= d /\ d <= e THEN 0 ELSE IF d < 0 THEN -1 ELSE 1
           IN  CompareFinite(a, b) = IF a.neg # b.neg THEN Side(a.neg)
                                     ELSE IF a.neg THEN -side ELSE side
<1> DEFINE q == Larger(a.point, b.point)
           x == Sub(a, b)
           D == Units(a, p) - Units(b, p)
           e == Tens[p - Tolerance]
           side == IF CompareAbs(x, Epsilon) <= 0 THEN 0 ELSE Side(x.neg)
<1>1. q \in Nat /\ q >= a.point /\ q >= b.point /\ q <= p
  BY ShapeParts, LargerFacts DEF Numeric
<1>2. /\ Numeric(x) /\ x.point <= q
      /\ Units(x, q) = Units(a, q) - Units(b, q)
  BY SubFacts
<1> HIDE DEF q, x
<1>3. x.point \in Nat /\ p - q \in Nat /\ p >= x.point
  BY <1>1, <1>2, ShapeParts DEF Numeric
<1>4. Units(x, p) = D
  <2> DEFINE X == Units(x, q)
             A == Units(a, q)
             B == Units(b, q)
             c == Tens[p - q]
  <2>1. X \in Int /\ Units(x, p) = X * c
    BY <1>1, <1>2, UnitsFacts DEF Numeric
  <2>2. A \in Int /\ B \in Int /\ Units(a, p) = A * c /\ Units(b, p) = B * c
    BY <1>1, UnitsFacts DEF Numeric
  <2>3. c \in Int
    BY <1>3, TensFacts
  <2>4. X = A - B
    BY <1>2
  <2> HIDE DEF X, A, B, c
  <2>5. (A - B) * c = A * c - B * c
    BY <2>2, <2>3
  <2>6. QED
    BY <2>1, <2>2, <2>4, <2>5
<1>5. Units(x, p) = Side(x.neg) * Amount(x, p) /\ Amount(x, p) \in Nat
  BY <1>2, <1>3, AmountFacts DEF Numeric
<1>6. CompareAbs(x, Epsilon) = IF Amount(x, p) > e THEN 1 ELSE IF Amount(x, p) = e THEN 0 ELSE -1
  <2>1. Numeric(Epsilon) /\ p >= Epsilon.point /\ Amount(Epsilon, p) = e
    BY EpsilonFacts
  <2>2. QED
    BY <1>2, <1>3, <2>1, CompareAbsFacts
<1>7. e \in Nat
  <2>1. p - Tolerance \in Nat
    BY EpsilonFacts
  <2>2. QED
    BY <2>1, TensFacts
<1>8. CompareFinite(a, b) = IF a.neg # b.neg THEN Side(a.neg) ELSE IF a.neg THEN -side ELSE side
  BY DEF CompareFinite, x
<1> HIDE DEF e
<1>9. side = IF -e <= D /\ D <= e THEN 0 ELSE IF D < 0 THEN -1 ELSE 1
  <2> DEFINE m == Amount(x, p)
             i == Side(x.neg)
  <2>1. m \in Nat /\ D = i * m /\ (i = 1 \/ i = -1)
    BY <1>4, <1>5 DEF Side
  <2>2. side = IF m <= e THEN 0 ELSE i
    BY <1>5, <1>6, <1>7
  <2> HIDE DEF m, i, D, side
  <2>3. CASE i = 1
    BY <1>7, <2>1, <2>2, <2>3
  <2>4. CASE i = -1
    BY <1>7, <2>1, <2>2, <2>4
  <2>5. QED
    BY <2>1, <2>3, <2>4
<1>10. QED
  BY <1>8, <1>9 DEF e

-----------------------------------------------------------------------------
(* Numbers as texts.                                                       *)

(* No zeros are none. *)
LEMMA NoZeros ==
    ASSUME NEW n \in Int, n <= 0
    PROVE  Zeros(n) = <<>>
<1>1. Zeros(n) \in Seq(0 .. 9) /\ Len(Zeros(n)) = 0
  BY ZerosType DEF Larger
<1>2. QED
  BY <1>1

(* Trim changes nothing of a number in its normal form. *)
LEMMA TrimAgain ==
    ASSUME NEW x, Shape(x), x.kind = "finite", Trimmed(x)
    PROVE  Trim(x) = IF x.digits = << 0 >> THEN Zero ELSE Number(x.neg, x.digits, x.point)
<1> DEFINE s == x.digits
           n == Len(s)
           last == Max({0} \cup {k \in 1 .. Smaller(x.point, n - 1) :
                     IsZero(SubSeq(s, n - k + 1, n))})
           first == Max({0} \cup {k \in 1 .. Smaller(n - last - 1, n - x.point) :
                     IsZero(SubSeq(s, 1, k))})
           r == SubSeq(s, first + 1, n - last)
<1>1. Trim(x) = IF r = <<0>> THEN Zero ELSE Number(x.neg, r, x.point - last)
  BY DEF Trim
<1>2. s \in Seq(Nat) /\ n \in Nat /\ n >= 1 /\ x.point \in Nat
  BY ShapeParts
<1>3. /\ last \in Nat /\ last <= x.point /\ last < n
      /\ \A k \in n - last + 1 .. n : s[k] = 0
      /\ first \in Nat /\ first + last < n
      /\ \A k \in 1 .. first : s[k] = 0
      /\ first = 0 \/ first <= n - x.point
  <2> DEFINE l == last
             f == first
  <2>1. l = Max({0} \cup {k \in 1 .. Smaller(x.point, Len(x.digits) - 1) :
                     IsZero(SubSeq(x.digits, Len(x.digits) - k + 1, Len(x.digits)))})
    OBVIOUS
  <2>2. f = Max({0} \cup {k \in 1 .. Smaller(Len(x.digits) - l - 1, Len(x.digits) - x.point) :
                     IsZero(SubSeq(x.digits, 1, k))})
    OBVIOUS
  <2> HIDE DEF l, f
  <2>3. /\ l \in Nat /\ l <= x.point /\ l < Len(x.digits)
        /\ \A k \in Len(x.digits) - l + 1 .. Len(x.digits) : x.digits[k] = 0
        /\ f \in Nat /\ f + l < Len(x.digits)
        /\ \A k \in 1 .. f : x.digits[k] = 0
        /\ f = 0 \/ f <= Len(x.digits) - x.point
    BY <2>1, <2>2, TrimPlaces
  <2>4. QED
    BY <2>3 DEF l, f
<1>4. /\ x.point > 0 => s[n] # 0
      /\ s[1] = 0 /\ n > 1 => n <= x.point
  BY DEF Trimmed
<1> HIDE DEF last, first, s, n
<1>5. last = 0
  <2>1. SUFFICES ASSUME last >= 1 PROVE FALSE
    BY <1>3
  <2>2. n \in n - last + 1 .. n /\ x.point > 0
    BY <1>2, <1>3, <2>1
  <2>3. QED
    BY <1>3, <1>4, <2>2
<1>6. first = 0
  <2>1. SUFFICES ASSUME first >= 1 PROVE FALSE
    BY <1>3
  <2>2. 1 \in 1 .. first /\ n > 1
    BY <1>2, <1>3, <2>1
  <2>3. s[1] = 0
    BY <1>3, <2>2
  <2>4. n <= x.point
    BY <1>2, <1>4, <2>2, <2>3
  <2>5. QED
    BY <1>2, <1>3, <2>1, <2>4
<1>7. r = s
  <2>1. r = SubSeq(s, 1, n)
    BY <1>2, <1>5, <1>6
  <2>2. QED
    BY <1>2, <2>1, SubSeqFull DEF n
<1>8. x.point - last = x.point
  BY <1>2, <1>5
<1> HIDE DEF r
<1>9. QED
  BY <1>1, <1>7, <1>8 DEF s

(* What is printed of a number is the number: bigfloat_to_string and         *)
(* bigfloat_create.                                                          *)
LEMMA TextFacts ==
    ASSUME NEW x, Numeric(x), x.kind = "finite", Trimmed(x)
    PROVE  LET y == FromText(Text(x))
           IN  /\ Numeric(y) /\ Trimmed(y) /\ y.kind = "finite" /\ y.point <= x.point
               /\ Units(y, x.point) = Units(x, x.point)
               /\ Value(y.digits) = 0 => y = Zero
               /\ Text(y).whole = Text(x).whole
               /\ Text(y).fraction = Text(x).fraction
<1> DEFINE s == x.digits
           n == Len(s)
           whole == Larger(n - x.point, 0)
           W == IF whole = 0 THEN <<0>> ELSE SubSeq(s, 1, whole)
           F == Zeros(x.point - n) \o SubSeq(s, whole + 1, n)
           z == Number(x.neg, W \o F, Len(F))
           y == FromText(Text(x))
<1>1. /\ s \in Seq(0 .. 9) /\ s \in Seq(Nat) /\ n \in Nat /\ n >= 1 /\ x.point \in Nat
      /\ x.neg \in BOOLEAN
  BY ShapeParts DEF Numeric
<1>2. /\ Text(x).neg = x.neg /\ Text(x).whole = W /\ Text(x).fraction = F
  BY DEF Text
<1>3. y = Trim(z)
  BY <1>2 DEF FromText
<1>4. /\ x.point > 0 => s[n] # 0
      /\ s[1] = 0 /\ n > 1 => n <= x.point
  BY DEF Trimmed
<1>5. ASSUME NEW u, NEW v, u.digits = v.digits, u.point = v.point
      PROVE  Text(u).whole = Text(v).whole /\ Text(u).fraction = Text(v).fraction
  BY <1>5 DEF Text
<1>6. /\ <<0>> \in Seq(0 .. 9) /\ <<0>> \in Seq(Nat) /\ Len(<<0>>) = 1 /\ <<0>>[1] = 0
      /\ Zero.digits = <<0>> /\ Zero.point = 0
  BY DEF Zero, Number
<1> HIDE DEF z, W, F, y
<1>7. CASE n > x.point
  <2>1. whole = n - x.point /\ whole \in 1 .. n
    BY <1>1, <1>7 DEF Larger
  <2> HIDE DEF whole
  <2>2. W = SubSeq(s, 1, whole)
    BY <2>1 DEF W
  <2>3. F = SubSeq(s, whole + 1, n)
    <3>1. Zeros(x.point - n) = <<>>
      <4>1. x.point - n \in Int /\ x.point - n <= 0
        BY <1>1, <1>7
      <4> HIDE DEF n
      <4>2. QED
        BY <4>1, NoZeros
    <3>2. SubSeq(s, whole + 1, n) \in Seq(Nat)
      BY <1>1, <2>1, SMTT(30)
    <3>3. <<>> \o SubSeq(s, whole + 1, n) = SubSeq(s, whole + 1, n)
      BY <3>2, ConcatEmptySeq
    <3>4. QED
      BY <3>1, <3>3 DEF F
  <2>4. W \o F = s /\ Len(F) = x.point
    <3>1. SubSeq(s, 1, whole) \o SubSeq(s, whole + 1, n) = SubSeq(s, 1, n)
      <4>1. 1 \in 1 .. Len(s) + 1 /\ whole \in 1 - 1 .. Len(s) /\ n \in whole .. Len(s)
        BY <1>1, <2>1
      <4>2. QED
        BY <1>1, <4>1, ConcatAdjacentSubSeq
    <3>2. SubSeq(s, 1, n) = s
      BY <1>1, SubSeqFull
    <3>3. Len(SubSeq(s, whole + 1, n)) = n - whole
      BY <1>1, <2>1
    <3>4. n - whole = x.point
      BY <1>1, <2>1
    <3>5. QED
      BY <2>2, <2>3, <3>1, <3>2, <3>3, <3>4
  <2>5. /\ Numeric(z) /\ z.kind = "finite" /\ z.neg = x.neg /\ z.digits = s /\ z.point = x.point
        /\ z = Number(x.neg, s, x.point)
    <3>1. z = Number(x.neg, s, x.point)
      BY <2>4 DEF z
    <3> HIDE DEF s, n
    <3>2. QED
      BY <1>1, <3>1, NumberFacts DEF n
  <2>6. Trimmed(z) /\ Units(z, x.point) = Units(x, x.point)
    BY <1>4, <2>5 DEF Trimmed, Units
  <2>7. y = IF s = <<0>> THEN Zero ELSE z
    BY <1>3, <2>5, <2>6, TrimAgain DEF Numeric
  <2>8. Text(y).whole = W /\ Text(y).fraction = F
    <3>1. CASE s = <<0>>
      <4>1. y.digits = s /\ y.point = x.point
        BY <1>1, <1>6, <1>7, <2>7, <3>1
      <4>2. QED
        BY <1>2, <1>5, <4>1
    <3>2. CASE s # <<0>>
      BY <1>2, <1>5, <2>5, <2>7, <3>2
    <3>3. QED
      BY <3>1, <3>2
  <2>9. /\ Numeric(y) /\ Trimmed(y) /\ y.kind = "finite" /\ y.point <= x.point
        /\ Units(y, x.point) = Units(x, x.point)
        /\ Value(y.digits) = 0 => y = Zero
    <3> HIDE DEF s, n
    <3>1. QED
      BY <1>1, <1>3, <2>5, <2>6, TrimFacts DEF Numeric, Trimmed
  <2>10. QED
    BY <1>2, <2>8, <2>9 DEF y
<1>8. CASE n <= x.point
  <2> DEFINE k == x.point - n
  <2>1. whole = 0 /\ k \in Nat /\ k \in Int /\ Larger(k, 0) = k
    BY <1>1, <1>8 DEF Larger
  <2>2. W = <<0>>
    BY <2>1 DEF W
  <2>3. F = Zeros(k) \o s
    <3>1. SubSeq(s, 0 + 1, n) = s
      BY <1>1, SubSeqFull
    <3>2. QED
      BY <2>1, <3>1 DEF F
  <2>4. /\ Zeros(k) \in Seq(0 .. 9) /\ Len(Zeros(k)) = k
        /\ \A j \in Nat : Digit(Zeros(k), j) = 0
    <3> HIDE DEF k
    <3> QED
      BY <2>1, ZerosType
  <2>5. /\ F \in Seq(0 .. 9) /\ F \in Seq(Nat) /\ Len(F) = x.point /\ F[Len(F)] = s[n]
        /\ Len(F) \in Nat /\ Len(F) >= 1
    <3>1. F \in Seq(0 .. 9) /\ Len(F) = k + n /\ \A i \in 1 .. k + n : F[i] = IF i <= k THEN Zeros(k)[i] ELSE s[i - k]
      <4>1. Len(s) = n
        OBVIOUS
      <4> HIDE DEF k, s, n
      <4>2. QED
        BY <1>1, <2>1, <2>3, <2>4, <4>1, ConcatProperties
    <3>2. k + n = x.point /\ x.point \in 1 .. k + n /\ ~(x.point <= k) /\ x.point - k = n /\ x.point >= 1
      BY <1>1, <1>8
    <3>3. F[x.point] = s[n]
      BY <3>1, <3>2
    <3>4. F \in Seq(Nat)
      BY <3>1, ValueBound
    <3>5. QED
      BY <1>1, <3>1, <3>2, <3>3, <3>4
  <2>6. s[n] # 0
    BY <1>1, <1>4, <1>8
  <2> DEFINE w == W \o F
  <2>7. /\ w \in Seq(0 .. 9) /\ w \in Seq(Nat) /\ Len(w) = 1 + x.point
        /\ w[1] = 0 /\ w[1 + x.point] = s[n] /\ SubSeq(w, 2, 1 + x.point) = F
        /\ \A j \in 1 .. x.point : w[j + 1] = F[j]
    <3>1. w \in Seq(0 .. 9) /\ Len(w) = 1 + x.point
          /\ \A i \in 1 .. 1 + x.point : w[i] = IF i <= 1 THEN <<0>>[i] ELSE F[i - 1]
      BY <1>6, <2>2, <2>5, ConcatProperties
    <3> HIDE DEF w
    <3>2. w \in Seq(Nat)
      BY <3>1, ValueBound
    <3>3. w[1] = 0 /\ w[1 + x.point] = s[n]
      <4>1. 1 \in 1 .. 1 + x.point /\ 1 + x.point \in 1 .. 1 + x.point
            /\ ~(1 + x.point <= 1) /\ (1 + x.point) - 1 = x.point /\ 1 <= 1
        BY <1>1, <2>5
      <4>2. w[1] = <<0>>[1] /\ w[1 + x.point] = F[x.point]
        BY <3>1, <4>1, SMTT(30)
      <4>3. QED
        BY <1>6, <2>5, <4>2
    <3>4. \A j \in 1 .. x.point : w[j + 1] = F[j]
      <4>1. ASSUME NEW j \in 1 .. x.point PROVE w[j + 1] = F[j]
        <5>1. j + 1 \in 1 .. 1 + x.point /\ ~(j + 1 <= 1) /\ (j + 1) - 1 = j
          BY <1>1
        <5>2. QED
          BY <3>1, <5>1
      <4>2. QED
        BY <4>1
    <3>5. SubSeq(w, 2, 1 + x.point) = F
      <4> DEFINE v == SubSeq(w, 2, 1 + x.point)
      <4>1. v \in Seq(Nat) /\ Len(v) = x.point /\ \A i \in 1 .. x.point : v[i] = w[2 + i - 1]
        <5>1. \A i \in 2 .. 1 + x.point : w[i] \in Nat
          BY <1>1, <3>1, <3>2, SMTT(30)
        <5>2. (1 + x.point) - 2 + 1 = x.point /\ 2 \in Int /\ 1 + x.point \in Int /\ 2 <= 1 + x.point
          BY <1>1, <2>5
        <5>3. /\ v \in Seq(Nat) /\ Len(v) = IF 2 <= 1 + x.point THEN (1 + x.point) - 2 + 1 ELSE 0
              /\ \A i \in 1 .. (1 + x.point) - 2 + 1 : v[i] = w[2 + i - 1]
          BY <5>1, <5>2, SubSeqProperties
        <5> HIDE DEF v
        <5>4. QED
          BY <5>2, <5>3
      <4> HIDE DEF v
      <4>2. \A i \in 1 .. Len(v) : v[i] = F[i]
        <5>1. ASSUME NEW i \in 1 .. x.point PROVE v[i] = F[i]
          <6>1. 2 + i - 1 = i + 1
            BY <1>1
          <6>2. QED
            BY <3>4, <4>1, <6>1
        <5>2. QED
          BY <4>1, <5>1
      <4>3. v = F
        BY <2>5, <4>1, <4>2, SeqEqual
      <4>4. QED
        BY <4>3 DEF v
    <3>6. QED
      BY <3>1, <3>2, <3>3, <3>4, <3>5
  <2>8. Value(F) = Value(s) /\ Value(w) = Value(s)
    <3>1. Zeros(k) \in Seq(Int) /\ s \in Seq(Int) /\ F \in Seq(Int) /\ <<0>> \in Seq(Int)
      BY <1>1, <1>6, <2>4, <2>5, ValueBound
    <3>2. Value(Zeros(k)) = 0
      <4>1. IsZero(Zeros(k))
        <5>1. \A i \in 1 .. Len(Zeros(k)) : Zeros(k)[i] = 0
          <6> HIDE DEF k
          <6> QED
            BY <2>1, ZerosType
        <5>2. QED
          BY <2>4, <5>1 DEF IsZero
      <4>2. QED
        BY <2>4, <4>1, ValueBound, ValueZero
    <3> HIDE DEF k, s, n
    <3>3. Value(F) = Value(Zeros(k)) * Tens[Len(s)] + Value(s)
      BY <2>3, <3>1, ValueOfConcat
    <3>4. Value(w) = Value(<<0>>) * Tens[Len(F)] + Value(F)
      BY <2>2, <3>1, ValueOfConcat
    <3>5. Value(<<0>>) = 0
      BY ValueOfShort
    <3>6. Tens[Len(s)] \in Nat /\ Tens[Len(F)] \in Nat /\ Value(s) \in Nat
      BY <1>1, <2>5, TensFacts, ValueBound DEF n
    <3>7. QED
      BY <3>2, <3>3, <3>4, <3>5, <3>6
  <2> HIDE DEF w, k
  <2>9. /\ Numeric(z) /\ z.kind = "finite" /\ z.neg = x.neg /\ z.digits = w /\ z.point = x.point
        /\ Units(z, x.point) = Units(x, x.point)
    <3>1. z = Number(x.neg, w, x.point)
      BY <2>5 DEF z, w
    <3>2. Len(w) >= 1
      BY <1>1, <2>7
    <3>3. /\ Numeric(z) /\ z.kind = "finite" /\ z.neg = x.neg /\ z.digits = w /\ z.point = x.point
      BY <1>1, <2>7, <3>1, <3>2, NumberFacts
    <3>4. QED
      BY <2>8, <3>3 DEF Units, s
  <2> DEFINE last == Max({0} \cup {j \in 1 .. Smaller(z.point, Len(z.digits) - 1) :
                     IsZero(SubSeq(z.digits, Len(z.digits) - j + 1, Len(z.digits)))})
             first == Max({0} \cup {j \in 1 .. Smaller(Len(z.digits) - last - 1, Len(z.digits) - z.point) :
                     IsZero(SubSeq(z.digits, 1, j))})
             r == SubSeq(z.digits, first + 1, Len(z.digits) - last)
  <2>10. Trim(z) = IF r = <<0>> THEN Zero ELSE Number(z.neg, r, z.point - last)
    BY DEF Trim
  <2>11. /\ last \in Nat /\ last <= z.point /\ last < Len(z.digits)
         /\ \A j \in Len(z.digits) - last + 1 .. Len(z.digits) : z.digits[j] = 0
         /\ first \in Nat /\ first + last < Len(z.digits)
         /\ \/ first = Len(z.digits) - last - 1
            \/ first >= Len(z.digits) - z.point
            \/ z.digits[first + 1] # 0
         /\ first = 0 \/ first <= Len(z.digits) - z.point
    <3> DEFINE l == last
               f == first
    <3>1. l = Max({0} \cup {j \in 1 .. Smaller(z.point, Len(z.digits) - 1) :
                     IsZero(SubSeq(z.digits, Len(z.digits) - j + 1, Len(z.digits)))})
      OBVIOUS
    <3>2. f = Max({0} \cup {j \in 1 .. Smaller(Len(z.digits) - l - 1, Len(z.digits) - z.point) :
                     IsZero(SubSeq(z.digits, 1, j))})
      OBVIOUS
    <3> HIDE DEF l, f
    <3>3. /\ l \in Nat /\ l <= z.point /\ l < Len(z.digits)
          /\ \A j \in Len(z.digits) - l + 1 .. Len(z.digits) : z.digits[j] = 0
          /\ f \in Nat /\ f + l < Len(z.digits)
          /\ \/ f = Len(z.digits) - l - 1
             \/ f >= Len(z.digits) - z.point
             \/ z.digits[f + 1] # 0
          /\ f = 0 \/ f <= Len(z.digits) - z.point
      BY <2>9, <3>1, <3>2, TrimPlaces, ZenonT(30) DEF Numeric
    <3>4. QED
      BY <3>3 DEF l, f
  <2> HIDE DEF last, first
  <2>12. last = 0
    <3>1. SUFFICES ASSUME last >= 1 PROVE FALSE
      BY <2>11
    <3>2. 1 + x.point \in Len(z.digits) - last + 1 .. Len(z.digits)
      <4>1. Len(z.digits) = 1 + x.point /\ x.point \in Nat /\ last \in Nat /\ last >= 1
        BY <1>1, <2>7, <2>9, <2>11, <3>1
      <4>2. QED
        BY <4>1
    <3>3. w[1 + x.point] = 0
      BY <2>9, <2>11, <3>2
    <3>4. QED
      BY <2>6, <2>7, <3>3
  <2>13. first = 1
    <3>1. Len(z.digits) = 1 + x.point /\ z.point = x.point /\ z.digits[1] = 0 /\ x.point >= 1
      BY <1>1, <1>8, <2>7, <2>9
    <3>2. first # 0
      <4>1. SUFFICES ASSUME first = 0 PROVE FALSE
        OBVIOUS
      <4>2. z.digits[first + 1] = 0
        BY <3>1, <4>1
      <4>3. QED
        BY <1>1, <2>11, <2>12, <3>1, <4>1, <4>2
    <3>3. first <= 1
      BY <1>1, <2>11, <3>1
    <3>4. QED
      BY <2>11, <3>2, <3>3
  <2>14. r = F
    <3>1. r = SubSeq(w, 2, 1 + x.point)
      BY <1>1, <2>7, <2>9, <2>12, <2>13
    <3>2. QED
      BY <2>7, <3>1
  <2>15. F # <<0>>
    <3>1. ASSUME F = << 0 >> PROVE FALSE
      <4>1. F[Len(F)] = 0
        BY <1>6, <3>1
      <4>2. QED
        BY <2>5, <2>6, <4>1
    <3>2. QED
      BY <3>1
  <2>16. y = Number(x.neg, F, x.point)
    <3>1. z.point - 0 = x.point
      BY <1>1, <2>9
    <3> HIDE DEF r
    <3>2. QED
      BY <1>3, <2>9, <2>10, <2>12, <2>14, <2>15, <3>1
  <2>17. /\ y.digits = F /\ y.point = x.point
    BY <2>16 DEF Number
  <2>18. Text(y).whole = W /\ Text(y).fraction = F
    <3>1. Larger(Len(F) - x.point, 0) = 0 /\ x.point - Len(F) = 0
      BY <1>1, <2>5 DEF Larger
    <3>2. Text(y).whole = <<0>> /\ Text(y).fraction = Zeros(0) \o SubSeq(F, 0 + 1, Len(F))
      BY <2>17, <3>1 DEF Text
    <3>3. Zeros(0) = <<>> /\ SubSeq(F, 0 + 1, Len(F)) = F /\ <<>> \o F = F
      BY <2>5, NoZeros, SubSeqFull, ConcatEmptySeq
    <3>4. QED
      BY <2>2, <3>2, <3>3
  <2>19. /\ Numeric(y) /\ Trimmed(y) /\ y.kind = "finite" /\ y.point <= x.point
         /\ Units(y, x.point) = Units(x, x.point)
         /\ Value(y.digits) = 0 => y = Zero
    BY <1>1, <1>3, <2>9, TrimFacts DEF Numeric, Trimmed
  <2>20. QED
    BY <1>2, <2>18, <2>19 DEF y
<1>9. QED
  BY <1>1, <1>7, <1>8

-----------------------------------------------------------------------------
(* Products of strings.                                                    *)

(* One more multiple of t: digit d of s, i places to the left. *)
LEMMA OneMultiple ==
    ASSUME NEW t \in Seq(Nat), NEW d \in Nat, NEW i \in Nat, NEW n \in Nat, i + Len(t) <= n,
           NEW e \in [Nat -> Int], \A k \in 0 .. n - 1 : e[k] = d * Digit(t, k - i)
    PROVE  Weight(e)[n] = d * (Value(t) * Tens[i])
<1> DEFINE u == [k \in Nat |-> Digit(t, k - i)]
           b == Digits(t)
           m == n - i
<1>1. t \in Seq(Int) /\ \A k \in Nat : Digit(t, k) \in Nat
  BY ValueNat
<1>2. m \in Nat /\ Len(t) \in Nat /\ Len(t) <= m /\ i + m = n
  OBVIOUS
<1>3. u \in [Nat -> Int]
  <2>1. ASSUME NEW k \in Nat PROVE Digit(t, k - i) \in Int
    <3>1. CASE k - i \in Nat
      BY <1>1, <3>1
    <3>2. CASE k - i \notin Nat
      <4>1. k - i \notin 0 .. Len(t) - 1
        BY <1>2, <3>2
      <4>2. QED
        BY <4>1 DEF Digit
    <3>3. QED
      BY <3>1, <3>2
  <2>2. QED
    BY <2>1
<1>4. b \in [Nat -> Int] /\ (\A k \in Nat : b[k] = Digit(t, k)) /\ Value(t) = Weight(b)[m]
  BY <1>1, <1>2, DigitsType, ValueAt
<1>5. \A k \in 0 .. i - 1 : u[k] = 0
  <2>1. ASSUME NEW k \in 0 .. i - 1 PROVE u[k] = 0
    <3>1. k \in Nat /\ k - i \notin 0 .. Len(t) - 1
      OBVIOUS
    <3>2. QED
      BY <3>1 DEF Digit
  <2>2. QED
    BY <2>1
<1>6. \A k \in 0 .. m - 1 : u[i + k] = b[k]
  <2>1. ASSUME NEW k \in 0 .. m - 1 PROVE u[i + k] = b[k]
    <3>1. k \in Nat /\ i + k \in Nat /\ (i + k) - i = k
      BY <1>2
    <3> HIDE DEF b
    <3>2. QED
      BY <1>4, <3>1
  <2>2. QED
    BY <2>1
<1>7. \A k \in 0 .. n - 1 : e[k] = d * u[k]
  <2>1. \A k \in 0 .. n - 1 : k \in Nat
    OBVIOUS
  <2>2. QED
    BY <2>1
<1> HIDE DEF u, b, m
<1>8. Weight(u)[i + m] = Weight(b)[m] * Tens[i]
  <2>1. m \in Nat /\ b \in [Nat -> Int]
    BY <1>2, <1>4
  <2>2. QED
    BY <1>3, <1>5, <1>6, <2>1, WeightShift, ZenonT(30)
<1>9. Weight(e)[n] = d * Weight(u)[n]
  <2>1. d \in Int
    OBVIOUS
  <2>2. QED
    BY <1>3, <1>7, <2>1, WeightTimes
<1>10. QED
  BY <1>2, <1>4, <1>8, <1>9

(* The sums of all multiples, place by place. *)
Columns(s, t, n) ==
    CHOOSE f : f = [i \in 0 .. Len(s) |-> [k \in 0 .. n - 1 |->
                       IF i = 0 THEN 0 ELSE f[i - 1][k] + Digit(s, i - 1) * Digit(t, k - (i - 1))]]

(* They are what the definition says. *)
LEMMA ColumnsType ==
    ASSUME NEW s \in Seq(Nat), NEW t \in Seq(Nat), NEW n \in Nat
    PROVE  /\ Columns(s, t, n) \in [0 .. Len(s) -> [0 .. n - 1 -> Nat]]
           /\ \A k \in 0 .. n - 1 : Columns(s, t, n)[0][k] = 0
           /\ \A i \in 0 .. Len(s) - 1 : \A k \in 0 .. n - 1 :
                Columns(s, t, n)[i + 1][k] = Columns(s, t, n)[i][k] + Digit(s, i) * Digit(t, k - i)
<1> DEFINE l == Len(s)
           V == [0 .. n - 1 -> Nat]
           a == [k \in 0 .. n - 1 |-> 0]
           H == [i \in Nat |-> [v \in V |-> [k \in 0 .. n - 1 |-> v[k] + Digit(s, i) * Digit(t, k - i)]]]
           C == Columns(s, t, n)
<1>1. l \in Nat
  OBVIOUS
<1>2. \A i, k \in Int : Digit(s, i) * Digit(t, k - i) \in Nat
  <2>1. ASSUME NEW r \in Seq(Nat), NEW k \in Int PROVE Digit(r, k) \in Nat
    BY <2>1 DEF Digit
  <2>2. \A x, y \in Nat : x * y \in Nat
    OBVIOUS
  <2>3. ASSUME NEW i \in Int, NEW k \in Int PROVE Digit(s, i) * Digit(t, k - i) \in Nat
    <3>1. k - i \in Int
      OBVIOUS
    <3>2. Digit(s, i) \in Nat /\ Digit(t, k - i) \in Nat
      BY <2>1, <3>1
    <3>3. QED
      BY <2>2, <3>2
  <2>4. QED
    BY <2>3
<1>3. a \in V
  OBVIOUS
<1>4. H \in [Nat -> [V -> V]]
  <2>1. ASSUME NEW i \in Nat, NEW v \in V
        PROVE  [k \in 0 .. n - 1 |-> v[k] + Digit(s, i) * Digit(t, k - i)] \in V
    <3>1. ASSUME NEW k \in 0 .. n - 1 PROVE v[k] + Digit(s, i) * Digit(t, k - i) \in Nat
      <4>1. Digit(s, i) * Digit(t, k - i) \in Nat
        BY <1>2
      <4>2. v[k] \in Nat
        OBVIOUS
      <4>3. QED
        BY <4>1, <4>2
    <3>2. QED
      BY <3>1
  <2> HIDE DEF V
  <2>2. QED
    BY <2>1
<1>5. PICK g : FollowsUpto(g, V, a, H, l)
  <2> HIDE DEF H, V, a, l
  <2>2. QED
    BY <1>1, <1>3, <1>4, RecursionUpto
<1>6. g = [i \in 0 .. l |-> [k \in 0 .. n - 1 |->
              IF i = 0 THEN 0 ELSE g[i - 1][k] + Digit(s, i - 1) * Digit(t, k - (i - 1))]]
  <2>1. ASSUME NEW i \in 0 .. l
        PROVE  g[i] = [k \in 0 .. n - 1 |->
              IF i = 0 THEN 0 ELSE g[i - 1][k] + Digit(s, i - 1) * Digit(t, k - (i - 1))]
    <3>1. CASE i = 0
      <4>1. g[i] = a
        BY <1>5, <3>1 DEF FollowsUpto
      <4>2. QED
        BY <3>1, <4>1
    <3>2. CASE i # 0
      <4>1. i - 1 \in Nat /\ i - 1 \in 0 .. l
        BY <1>1, <3>2
      <4>2. g[i - 1] \in V /\ g[i] = H[i - 1][g[i - 1]]
        BY <1>5, <3>2, <4>1 DEF FollowsUpto
      <4>3. \A v \in V : H[i - 1][v] = [k \in 0 .. n - 1 |-> v[k] + Digit(s, i - 1) * Digit(t, k - (i - 1))]
        BY <4>1
      <4> HIDE DEF H, V
      <4>4. g[i] = [k \in 0 .. n - 1 |-> g[i - 1][k] + Digit(s, i - 1) * Digit(t, k - (i - 1))]
        BY <4>2, <4>3
      <4>5. QED
        BY <3>2, <4>4
    <3>3. QED
      BY <3>1, <3>2
  <2>2. QED
    BY <1>5, <2>1 DEF FollowsUpto
<1>7. C = [i \in 0 .. l |-> [k \in 0 .. n - 1 |->
              IF i = 0 THEN 0 ELSE C[i - 1][k] + Digit(s, i - 1) * Digit(t, k - (i - 1))]]
  BY <1>6 DEF Columns
<1> HIDE DEF C, H, l
<1>8. \A k \in 0 .. n - 1 : C[0][k] = 0
  BY <1>1, <1>7
<1>9. \A i \in 0 .. l - 1 : \A k \in 0 .. n - 1 :
         C[i + 1][k] = C[i][k] + Digit(s, i) * Digit(t, k - i)
  <2>1. ASSUME NEW i \in 0 .. l - 1, NEW k \in 0 .. n - 1
        PROVE  C[i + 1][k] = C[i][k] + Digit(s, i) * Digit(t, k - i)
    <3>1. i + 1 \in 0 .. l /\ i + 1 # 0 /\ (i + 1) - 1 = i
      BY <1>1
    <3>2. C[i + 1] = [j \in 0 .. n - 1 |-> C[i][j] + Digit(s, i) * Digit(t, j - i)]
      BY <1>7, <3>1
    <3>3. QED
      BY <3>2
  <2>2. QED
    BY <2>1
<1>10. \A i \in 0 .. l : C[i] \in V
  <2> DEFINE S == {i \in Nat : i <= l => C[i] \in V}
  <2>1. 0 \in S
    BY <1>1, <1>3, <1>7
  <2>2. ASSUME NEW i \in Nat, i \in S PROVE i + 1 \in S
    <3>1. SUFFICES ASSUME i + 1 <= l PROVE C[i + 1] \in V
      OBVIOUS
    <3>2. i \in 0 .. l - 1 /\ i + 1 \in 0 .. l /\ i + 1 # 0 /\ (i + 1) - 1 = i /\ C[i] \in V
      BY <1>1, <2>2, <3>1
    <3>3. C[i + 1] = [k \in 0 .. n - 1 |-> C[i][k] + Digit(s, i) * Digit(t, k - i)]
      BY <1>7, <3>2
    <3>4. H[i] = [v \in V |-> [k \in 0 .. n - 1 |-> v[k] + Digit(s, i) * Digit(t, k - i)]]
      BY DEF H
    <3>5. H[i] \in [V -> V]
      BY <1>4
    <3> HIDE DEF V
    <3>6. H[i][C[i]] = C[i + 1]
      BY <3>2, <3>3, <3>4
    <3>7. QED
      BY <3>2, <3>5, <3>6
  <2>3. \A i \in Nat : i \in S
    <3> HIDE DEF S
    <3> QED
      BY <2>1, <2>2, Induction
  <2>4. QED
    BY <1>1, <2>3
<1>11. C \in [0 .. l -> V]
  BY <1>7, <1>10
<1>12. QED
  BY <1>8, <1>9, <1>11 DEF C, l

(* Places up to n, zeros above. *)
Upto(c, n) == [k \in Nat |-> IF k \in 0 .. n - 1 THEN c[k] ELSE 0]

(* All multiples together are the product. *)
LEMMA ColumnsValue ==
    ASSUME NEW s \in Seq(Nat), NEW t \in Seq(Nat), NEW n \in Nat, n = Len(s) + Len(t)
    PROVE  Weight(Upto(Columns(s, t, n)[Len(s)], n))[n] = Value(s) * Value(t)
<1> DEFINE l == Len(s)
           C == Columns(s, t, n)
           a == Digits(s)
           v == Value(t)
           S == {i \in Nat : i <= l => Weight(Upto(C[i], n))[n] = Weight(a)[i] * v}
<1>1. l \in Nat /\ Len(t) \in Nat /\ n = l + Len(t)
  OBVIOUS
<1>2. /\ s \in Seq(Int) /\ t \in Seq(Int) /\ v \in Nat /\ \A k \in Nat : Digit(s, k) \in Nat
  BY ValueNat
<1>3. /\ a \in [Nat -> Int] /\ (\A k \in Nat : a[k] = Digit(s, k)) /\ Value(s) = Weight(a)[l]
  BY <1>2, DigitsType
<1>4. /\ C \in [0 .. l -> [0 .. n - 1 -> Nat]]
      /\ \A k \in 0 .. n - 1 : C[0][k] = 0
      /\ \A i \in 0 .. l - 1 : \A k \in 0 .. n - 1 :
           C[i + 1][k] = C[i][k] + Digit(s, i) * Digit(t, k - i)
  BY ColumnsType
<1> HIDE DEF C, a, v, l
<1>5. ASSUME NEW i \in 0 .. l
      PROVE  /\ Upto(C[i], n) \in [Nat -> Int]
             /\ \A k \in 0 .. n - 1 : Upto(C[i], n)[k] = C[i][k] /\ C[i][k] \in Nat
  <2>1. C[i] \in [0 .. n - 1 -> Nat]
    BY <1>4
  <2> DEFINE c == C[i]
  <2>2. c \in [0 .. n - 1 -> Nat]
    BY <2>1
  <2> HIDE DEF c
  <2>3. \A k \in 0 .. n - 1 : c[k] \in Nat /\ k \in Nat
    <3>1. ASSUME NEW k \in 0 .. n - 1 PROVE c[k] \in Nat
      BY <2>2
    <3>2. ASSUME NEW k \in 0 .. n - 1 PROVE k \in Nat
      OBVIOUS
    <3>3. QED
      BY <3>1, <3>2
  <2>4. Upto(c, n) \in [Nat -> Int] /\ \A k \in 0 .. n - 1 : Upto(c, n)[k] = c[k]
    BY <2>3 DEF Upto
  <2>5. QED
    BY <2>3, <2>4 DEF c
<1>6. 0 \in S
  <2> DEFINE d == Upto(C[0], n)
  <2>1. 0 \in 0 .. l /\ 0 + n = n /\ 0 \in Nat
    BY <1>1
  <2>2. d \in [Nat -> Int] /\ \A k \in 0 .. 0 + n - 1 : d[k] = 0
    <3>1. d \in [Nat -> Int] /\ \A k \in 0 .. n - 1 : d[k] = C[0][k]
      BY <1>5, <2>1
    <3> HIDE DEF d
    <3>2. ASSUME NEW k \in 0 .. 0 + n - 1 PROVE d[k] = 0
      <4>1. k \in 0 .. n - 1
        BY <2>1
      <4>2. QED
        BY <1>4, <3>1, <4>1
    <3>3. QED
      BY <3>1, <3>2
  <2> HIDE DEF d
  <2>3. Weight(d)[0 + n] = Weight(d)[0]
    BY <2>1, <2>2, WeightZeros
  <2>4. Weight(d)[0] = 0 /\ Weight(a)[0] = 0
    BY <1>3, <2>2, WeightFacts
  <2>5. Weight(d)[n] = 0 * v
    <3>1. v \in Nat
      BY <1>2
    <3>2. 0 * v = 0
      BY <3>1
    <3>3. QED
      BY <2>1, <2>3, <2>4, <3>2
  <2>6. QED
    BY <2>4, <2>5 DEF d
<1>7. ASSUME NEW i \in Nat, i \in S PROVE i + 1 \in S
  <2>1. SUFFICES ASSUME i + 1 <= l PROVE Weight(Upto(C[i + 1], n))[n] = Weight(a)[i + 1] * v
    OBVIOUS
  <2>2. i \in 0 .. l /\ i + 1 \in 0 .. l /\ i \in 0 .. l - 1 /\ i + Len(t) <= n
    BY <1>1, <2>1
  <2> DEFINE d == Upto(C[i], n)
             f == Upto(C[i + 1], n)
             e == [k \in Nat |-> IF k \in 0 .. n - 1 THEN f[k] - d[k] ELSE 0]
             x == Digit(s, i)
  <2>3. /\ d \in [Nat -> Int] /\ \A k \in 0 .. n - 1 : d[k] = C[i][k] /\ C[i][k] \in Nat
    BY <1>5, <2>2
  <2>4. /\ f \in [Nat -> Int] /\ \A k \in 0 .. n - 1 : f[k] = C[i + 1][k] /\ C[i + 1][k] \in Nat
    BY <1>5, <2>2
  <2>5. x \in Nat /\ a[i] = x
    BY <1>2, <1>3
  <2> HIDE DEF d, f
  <2>6. e \in [Nat -> Int]
    BY <2>3, <2>4
  <2>7. \A k \in 0 .. n - 1 : e[k] = x * Digit(t, k - i) /\ f[k] = d[k] + e[k]
    <3>1. ASSUME NEW k \in 0 .. n - 1 PROVE e[k] = x * Digit(t, k - i) /\ f[k] = d[k] + e[k]
      <4> DEFINE y == x * Digit(t, k - i)
                 z == C[i][k]
                 w == C[i + 1][k]
      <4>1. k \in Nat /\ e[k] = f[k] - d[k]
        OBVIOUS
      <4>2. d[k] = z /\ f[k] = w /\ z \in Nat /\ w \in Nat
        BY <2>3, <2>4
      <4>3. w = z + y
        BY <1>4, <2>2
      <4>4. y \in Int
        <5>1. k - i \in Int
          BY <4>1
        <5>2. Digit(t, k - i) \in Nat
          BY <5>1 DEF Digit
        <5>3. \A p, q \in Int : p * q \in Int
          OBVIOUS
        <5>4. QED
          BY <2>5, <5>2, <5>3
      <4> HIDE DEF x, y, z, w, e
      <4>5. e[k] = y /\ f[k] = d[k] + e[k]
        BY <4>1, <4>2, <4>3, <4>4
      <4>6. QED
        BY <4>5 DEF y
    <3>2. QED
      BY <3>1
  <2> HIDE DEF e, x
  <2>8. Weight(f)[n] = Weight(d)[n] + Weight(e)[n]
    BY <2>3, <2>4, <2>6, <2>7, WeightSum, ZenonT(30)
  <2>9. Weight(e)[n] = x * (v * Tens[i])
    <3>1. x \in Nat
      BY <2>5
    <3>2. \A k \in 0 .. n - 1 : e[k] = x * Digit(t, k - i)
      BY <2>7
    <3>3. Weight(e)[n] = x * (Value(t) * Tens[i])
      <4>1. /\ t \in Seq(Nat) /\ x \in Nat /\ i \in Nat /\ n \in Nat
            /\ i + Len(t) <= n /\ e \in [Nat -> Int]
        BY <2>2, <2>6, <3>1
      <4>2. QED
        BY <3>2, <4>1, OneMultiple, ZenonT(60)
    <3>4. QED
      BY <3>3 DEF v
  <2>10. Weight(a)[i + 1] = Weight(a)[i] + x * Tens[i]
    <3>1. a \in [Nat -> Int]
      BY <1>3
    <3>2. QED
      BY <2>5, <3>1, WeightFacts
  <2>11. Weight(d)[n] = Weight(a)[i] * v
    BY <1>1, <1>7, <2>1, <2>2 DEF d
  <2>12. Weight(a)[i] \in Int /\ Tens[i] \in Int
    <3>1. Weight(a)[i] \in Int
      BY <1>3, WeightFacts
    <3>2. Tens[i] \in Int
      BY TensFacts
    <3>3. QED
      BY <3>1, <3>2
  <2>13. ASSUME NEW p \in Int, NEW q \in Int, NEW r \in Int, NEW u \in Int
         PROVE  p * u + q * (u * r) = (p + q * r) * u
    OBVIOUS
  <2>14. Weight(f)[n] = Weight(a)[i + 1] * v
    <3> DEFINE p == Weight(a)[i]
               q == x
               r == Tens[i]
               u == v
               w == Weight(a)[i + 1]
               z == Weight(f)[n]
    <3>1. p \in Int /\ q \in Int /\ r \in Int /\ u \in Int
      BY <1>2, <2>5, <2>12
    <3>2. z = p * u + q * (u * r)
      BY <2>8, <2>9, <2>11
    <3>3. w = p + q * r
      BY <2>10
    <3> HIDE DEF p, q, r, u, w, z
    <3>4. z = w * u
      BY <2>13, <3>1, <3>2, <3>3
    <3>5. QED
      BY <3>4 DEF w, z, u
  <2>15. QED
    BY <2>14 DEF f
<1>8. \A i \in Nat : i \in S
  <2> HIDE DEF S
  <2> QED
    BY <1>6, <1>7, Induction
<1>9. Weight(Upto(C[l], n))[n] = Weight(a)[l] * v
  BY <1>1, <1>8
<1>10. QED
  BY <1>3, <1>9 DEF C, l, v

(* imul: digits of the product of two strings of digits; digits in any case. *)
LEMMA MulDigitsFacts ==
    ASSUME NEW s \in Seq(Nat), NEW t \in Seq(Nat), Len(t) >= 1
    PROVE  /\ MulDigits(s, t) \in Seq(0 .. 9)
           /\ Len(MulDigits(s, t)) >= 1
           /\ s \in Seq(0 .. 9) /\ t \in Seq(0 .. 9) => Value(MulDigits(s, t)) = Value(s) * Value(t)
<1> DEFINE n == Len(s) + Len(t)
           column == Columns(s, t, n)[Len(s)]
           carry == CHOOSE f : f = [k \in 0 .. n |->
                        IF k = 0 THEN 0 ELSE (column[k - 1] + f[k - 1]) \div 10]
           r == [i \in 1 .. n |-> (column[n - i] + carry[n - i]) % 10]
<1>1. MulDigits(s, t) = Strip(r)
  BY DEF MulDigits, FromRight, Columns
<1>2. n \in Nat /\ n >= 1
  OBVIOUS
<1>3. column \in [0 .. n - 1 -> Nat]
  <2>1. Len(s) \in 0 .. Len(s)
    OBVIOUS
  <2> HIDE DEF n
  <2>2. Columns(s, t, n) \in [0 .. Len(s) -> [0 .. n - 1 -> Nat]]
    BY <1>2, ColumnsType
  <2>3. QED
    BY <2>1, <2>2
<1>4. Weight(Upto(column, n))[n] = Value(s) * Value(t)
  <2> DEFINE m == n
  <2>1. m \in Nat /\ m = Len(s) + Len(t)
    BY <1>2
  <2> HIDE DEF m
  <2>2. Weight(Upto(Columns(s, t, m)[Len(s)], m))[m] = Value(s) * Value(t)
    BY <2>1, ColumnsValue
  <2>3. QED
    BY <2>2 DEF m
<1>5. Tens[n] = Tens[Len(s)] * Tens[Len(t)]
  BY TensSum
<1> DEFINE c == Upto(column, n)
<1> HIDE DEF n, column
<1>6. c \in [Nat -> Int] /\ (\A k \in Nat : c[k] \in Nat) /\ \A k \in 0 .. n - 1 : c[k] = column[k]
  <2>1. \A k \in 0 .. n - 1 : k \in Nat /\ column[k] \in Nat
    BY <1>2, <1>3
  <2>2. QED
    BY <2>1 DEF Upto
<1> HIDE DEF c
<1> DEFINE H == [k \in Nat |-> [v \in Nat |-> (c[k] + v) \div 10]]
<1>7. \A x \in Nat : x \div 10 \in Nat
  <2>1. ASSUME NEW x \in Nat PROVE x \div 10 \in Nat
    <3>1. x \div 10 \in Int /\ x % 10 \in 0 .. 9 /\ x = (x % 10) + 10 * (x \div 10)
      BY ByTen
    <3> DEFINE p == x \div 10
               q == x % 10
    <3>2. p \in Int /\ q \in 0 .. 9 /\ x = q + 10 * p
      BY <3>1
    <3> HIDE DEF p, q
    <3>3. p \in Nat
      BY <3>2
    <3>4. QED
      BY <3>3 DEF p
  <2>2. QED
    BY <2>1
<1>8. H \in [Nat -> [Nat -> Nat]]
  <2>1. ASSUME NEW k \in Nat, NEW v \in Nat PROVE (c[k] + v) \div 10 \in Nat
    <3>1. c[k] + v \in Nat
      <4>1. c[k] \in Nat
        BY <1>6
      <4>2. QED
        BY <4>1
    <3>2. QED
      BY <1>7, <3>1
  <2>2. QED
    BY <2>1
<1>9. PICK g : FollowsUpto(g, Nat, 0, H, n)
  <2>1. 0 \in Nat
    OBVIOUS
  <2> HIDE DEF H
  <2>2. QED
    BY <1>2, <1>8, <2>1, RecursionUpto
<1>10. g = [k \in 0 .. n |-> IF k = 0 THEN 0 ELSE (column[k - 1] + g[k - 1]) \div 10]
  <2>1. ASSUME NEW k \in 0 .. n
        PROVE  g[k] = IF k = 0 THEN 0 ELSE (column[k - 1] + g[k - 1]) \div 10
    <3>1. CASE k = 0
      BY <1>9, <3>1 DEF FollowsUpto
    <3>2. CASE k # 0
      <4>1. k - 1 \in Nat /\ k - 1 \in 0 .. n /\ k - 1 \in 0 .. n - 1
        BY <1>2, <3>2
      <4>2. g[k - 1] \in Nat /\ g[k] = H[k - 1][g[k - 1]]
        BY <1>9, <3>2, <4>1 DEF FollowsUpto
      <4>3. \A v \in Nat : H[k - 1][v] = (c[k - 1] + v) \div 10
        BY <4>1
      <4> HIDE DEF H
      <4>4. g[k] = (c[k - 1] + g[k - 1]) \div 10 /\ c[k - 1] = column[k - 1]
        BY <1>6, <4>1, <4>2, <4>3
      <4>5. QED
        BY <3>2, <4>4
    <3>3. QED
      BY <3>1, <3>2
  <2>2. QED
    BY <1>9, <2>1 DEF FollowsUpto
<1>11. carry = [k \in 0 .. n |-> IF k = 0 THEN 0 ELSE (column[k - 1] + carry[k - 1]) \div 10]
  BY <1>10
<1> HIDE DEF carry, H
<1>12. carry[0] = 0
  BY <1>2, <1>11
<1>13. \A k \in 0 .. n - 1 : carry[k + 1] = (c[k] + carry[k]) \div 10
  <2>1. ASSUME NEW k \in 0 .. n - 1 PROVE carry[k + 1] = (c[k] + carry[k]) \div 10
    <3>1. k + 1 \in 0 .. n /\ k + 1 # 0 /\ (k + 1) - 1 = k
      BY <1>2
    <3>2. carry[k + 1] = (column[k] + carry[k]) \div 10
      BY <1>11, <3>1
    <3>3. QED
      BY <1>6, <3>2
  <2>2. QED
    BY <2>1
<1>14. \A k \in 0 .. n : carry[k] \in Nat
  <2> DEFINE S == {k \in Nat : k <= n => carry[k] \in Nat}
  <2>1. 0 \in S
    BY <1>12
  <2>2. ASSUME NEW k \in Nat, k \in S PROVE k + 1 \in S
    <3>1. SUFFICES ASSUME k + 1 <= n PROVE carry[k + 1] \in Nat
      OBVIOUS
    <3>2. carry[k] \in Nat /\ c[k] \in Nat /\ k \in 0 .. n - 1
      BY <1>2, <1>6, <2>2, <3>1
    <3>3. c[k] + carry[k] \in Nat /\ carry[k + 1] = (c[k] + carry[k]) \div 10
      BY <1>13, <3>2
    <3>4. QED
      BY <1>7, <3>3
  <2>3. \A k \in Nat : k \in S
    <3> HIDE DEF S
    <3> QED
      BY <2>1, <2>2, Induction
  <2>4. QED
    BY <1>2, <2>3
<1>15. carry \in [0 .. n -> Int]
  BY <1>11, <1>14
<1> DEFINE D == [k \in 0 .. n - 1 |-> (column[k] + carry[k]) % 10]
           w == [i \in 1 .. n |-> D[n - i]]
<1>16. \A k \in 0 .. n - 1 : D[k] \in 0 .. 9 /\ c[k] + carry[k] = D[k] + 10 * carry[k + 1]
  <2>1. ASSUME NEW k \in 0 .. n - 1
        PROVE  D[k] \in 0 .. 9 /\ c[k] + carry[k] = D[k] + 10 * carry[k + 1]
    <3>1. k \in Nat /\ k \in 0 .. n
      BY <1>2
    <3>2. D[k] = (c[k] + carry[k]) % 10 /\ carry[k + 1] = (c[k] + carry[k]) \div 10
      BY <1>6, <1>13
    <3> HIDE DEF D
    <3>3. c[k] + carry[k] \in Int
      <4>1. c[k] \in Nat
        BY <1>6, <3>1
      <4>2. carry[k] \in Nat
        BY <1>14, <3>1
      <4>3. QED
        BY <4>1, <4>2
    <3>4. QED
      BY <3>2, <3>3, ByTen
  <2>2. QED
    BY <2>1
<1>17. D \in [0 .. n - 1 -> 0 .. 9]
  BY <1>16
<1>18. r = w
  <2>1. \A i \in 1 .. n : n - i \in 0 .. n - 1
    BY <1>2
  <2>2. QED
    BY <2>1
<1> HIDE DEF D, r
<1>19. r \in Seq(0 .. 9) /\ Len(r) = n /\ \A k \in 0 .. n - 1 : Digit(r, k) = D[k]
  <2>1. w \in Seq(0 .. 9) /\ Len(w) = n /\ \A k \in 0 .. n - 1 : Digit(w, k) = D[k]
    BY <1>2, <1>17, FromRightFacts
  <2>2. QED
    BY <1>18, <2>1
<1> DEFINE d == Digits(r)
<1>20. /\ d \in [Nat -> Int] /\ (\A k \in Nat : d[k] = Digit(r, k)) /\ Value(r) = Weight(d)[n]
       /\ Value(r) \in Nat
  <2>1. r \in Seq(Int) /\ Value(r) \in Nat
    BY <1>19, ValueBound
  <2>2. QED
    BY <1>19, <2>1, DigitsType
<1>21. \A k \in 0 .. n - 1 : d[k] = D[k]
  <2>1. \A k \in 0 .. n - 1 : k \in Nat
    BY <1>2
  <2>2. QED
    BY <1>19, <1>20, <2>1
<1> HIDE DEF d
<1>22. Weight(c)[n] = Weight(d)[n] + carry[n] * Tens[n]
  <2>1. \A k \in 0 .. n - 1 : c[k] + carry[k] = d[k] + 10 * carry[k + 1]
    BY <1>16, <1>21
  <2>2. QED
    BY <1>2, <1>6, <1>12, <1>15, <1>20, <2>1, CarryFacts
<1>23. ASSUME s \in Seq(0 .. 9), t \in Seq(0 .. 9) PROVE Value(r) = Value(s) * Value(t)
  <2> DEFINE x == Value(s)
             y == Value(t)
             X == Tens[Len(s)]
             Y == Tens[Len(t)]
             z == carry[n]
             Z == Tens[n]
             v == Value(r)
  <2>1. x \in Nat /\ y \in Nat /\ x < X /\ y < Y
    BY <1>23, ValueBound
  <2>2. X \in Nat /\ Y \in Nat /\ Z \in Nat /\ Z = X * Y
    <3>1. Len(s) \in Nat /\ Len(t) \in Nat
      OBVIOUS
    <3>2. QED
      BY <1>2, <1>5, <3>1, TensFacts
  <2>3. z \in Nat /\ v \in Nat /\ x * y = v + z * Z
    <3>1. n \in 0 .. n
      BY <1>2
    <3>2. QED
      BY <1>4, <1>14, <1>20, <1>22, <3>1 DEF c
  <2> HIDE DEF x, y, X, Y, z, Z, v
  <2>4. x * y < X * Y
    <3>1. x * y <= x * Y /\ x * y \in Nat /\ x * Y \in Nat
      <4>1. x * (Y - y) >= 0 /\ x * (Y - y) = x * Y - x * y /\ x * Y \in Nat /\ x * y \in Nat
        BY <2>1, <2>2
      <4>2. QED
        BY <4>1
    <3>2. x * Y < X * Y
      <4>1. Y >= 1 /\ Y \in Nat /\ X - x \in Nat /\ X - x >= 1
        BY <2>1, <2>2
      <4>2. (X - x - 1) * Y >= 0 /\ (X - x - 1) * Y = X * Y - x * Y - Y /\ X * Y \in Nat
        BY <2>1, <2>2, <4>1
      <4>3. QED
        BY <3>1, <4>1, <4>2
    <3>3. QED
      BY <2>2, <3>1, <3>2
  <2>5. z = 0
    <3>1. SUFFICES ASSUME z >= 1 PROVE FALSE
      BY <2>3
    <3>2. (z - 1) * Z >= 0 /\ (z - 1) * Z = z * Z - Z /\ z * Z \in Nat
      BY <2>2, <2>3, <3>1
    <3>3. QED
      BY <2>2, <2>3, <2>4, <3>2, SMTT(30)
  <2>6. v = x * y
    <3>1. 0 * Z = 0
      BY <2>2
    <3>2. QED
      BY <2>3, <2>5, <3>1
  <2>7. QED
    BY <2>6 DEF v, x, y
<1>24. (0 .. 9) \in SUBSET Int /\ Len(r) >= 1
  BY <1>2, <1>19
<1>25. /\ Strip(r) \in Seq(0 .. 9) /\ Len(Strip(r)) >= 1 /\ Value(Strip(r)) = Value(r)
  BY <1>19, <1>24, StripFacts
<1>26. QED
  BY <1>1, <1>23, <1>25

-----------------------------------------------------------------------------
(* Products are rounded.                                                   *)

(* A string of nines is one less than a one with zeros. *)
LEMMA WeightOfNines ==
    ASSUME NEW d \in [Nat -> Int], NEW m \in Nat, \A k \in 0 .. m - 1 : d[k] = 9
    PROVE  Weight(d)[m] = Tens[m] - 1
<1> DEFINE S == {n \in Nat : n <= m => Weight(d)[n] = Tens[n] - 1}
<1>1. 0 \in S
  BY WeightFacts, TensFacts
<1>2. ASSUME NEW n \in Nat, n \in S PROVE n + 1 \in S
  <2>1. SUFFICES ASSUME n + 1 <= m PROVE Weight(d)[n + 1] = Tens[n + 1] - 1
    OBVIOUS
  <2> DEFINE w == Weight(d)[n]
             u == Weight(d)[n + 1]
             t == Tens[n]
             v == Tens[n + 1]
  <2>2. w = t - 1
    BY <1>2, <2>1
  <2>3. d[n] = 9
    BY <2>1
  <2>4. u = w + 9 * t
    <3>1. u = w + d[n] * t
      BY WeightFacts
    <3>2. QED
      BY <2>3, <3>1
  <2>5. v = 10 * t /\ t \in Nat
    BY TensFacts
  <2> HIDE DEF w, u, t, v
  <2>6. u = v - 1
    BY <2>2, <2>4, <2>5
  <2>7. QED
    BY <2>6 DEF u, v
<1>3. \A n \in Nat : n \in S
  <2> HIDE DEF S
  <2> QED
    BY <1>1, <1>2, Induction
<1>4. QED
  BY <1>3

(* A function on 1 .. n is a sequence. *)
LEMMA SeqOfFunction ==
    ASSUME NEW S, NEW n \in Nat, NEW f \in [1 .. n -> S]
    PROVE  f \in Seq(S) /\ Len(f) = n
  OBVIOUS

(* string_increment: digits, and one more.                                   *)
LEMMA IncrementFacts ==
    ASSUME NEW s \in Seq(Nat)
    PROVE  /\ Increment(s) \in Seq(Nat)
           /\ Len(Increment(s)) >= 1 /\ Len(Increment(s)) >= Len(s)
           /\ s \in Seq(0 .. 9) => /\ Increment(s) \in Seq(0 .. 9)
                                   /\ Value(Increment(s)) = Value(s) + 1
<1> DEFINE n == Len(s)
           low == {i \in DOMAIN s : s[i] < 9}
           r == Increment(s)
<1>1. n \in Nat /\ DOMAIN s = 1 .. n /\ s \in Seq(Int) /\ \A i \in 1 .. n : s[i] \in Nat
  OBVIOUS
<1>2. CASE low = {}
  <2>1. r = <<1>> \o Zeros(n)
    BY <1>2 DEF Increment
  <2>2. Zeros(n) \in Seq(0 .. 9) /\ Len(Zeros(n)) = n
    <3>1. Zeros(n) \in Seq(0 .. 9) /\ Len(Zeros(n)) = Larger(n, 0)
      BY <1>1, ZerosType
    <3>2. Larger(n, 0) = n
      BY <1>1 DEF Larger
    <3>3. QED
      BY <3>1, <3>2
  <2> DEFINE z == Zeros(n)
  <2> HIDE DEF z, n, r
  <2>3. z \in Seq(0 .. 9) /\ Len(z) = n /\ r = <<1>> \o z
    BY <2>1, <2>2 DEF z
  <2>4. <<1>> \in Seq(0 .. 9) /\ Len(<<1>>) = 1 /\ <<1>> \in Seq(Int)
    OBVIOUS
  <2>5. r \in Seq(0 .. 9) /\ Len(r) = 1 + n
    BY <2>3, <2>4
  <2>6. r \in Seq(Nat)
    BY <2>5, ValueBound
  <2>7. ASSUME s \in Seq(0 .. 9) PROVE Value(r) = Value(s) + 1
    <3> DEFINE one == <<1>>
    <3>0. one \in Seq(Int) /\ n \in Int /\ r = one \o Zeros(n)
      BY <1>1, <2>1, <2>4
    <3> HIDE DEF one
    <3>a. Value(r) = Value(one) * Tens[Larger(n, 0)]
      BY <3>0, ValueOfPadded
    <3>1. Value(r) = Value(<<1>>) * Tens[Larger(n, 0)]
      BY <3>a DEF one
    <3>2. Larger(n, 0) = n /\ Value(<<1>>) = 1
      BY <1>1, ValueOfShort DEF Larger
    <3>3. Tens[n] \in Nat
      BY <1>1, TensFacts
    <3>4. Value(r) = Tens[n]
      BY <3>1, <3>2, <3>3
    <3>5. /\ Digits(s) \in [Nat -> Int] /\ Value(s) = Weight(Digits(s))[n]
          /\ \A k \in 0 .. n - 1 : Digits(s)[k] = s[n - k]
      <4>1. /\ Digits(s) \in [Nat -> Int] /\ Value(s) = Weight(Digits(s))[n]
            /\ \A k \in Nat : Digits(s)[k] = Digit(s, k)
            /\ \A k \in 0 .. n - 1 : Digit(s, k) = s[n - k]
        BY <1>1, DigitsType DEF n
      <4>2. \A k \in 0 .. n - 1 : k \in Nat
        BY <1>1
      <4>3. QED
        BY <4>1, <4>2
    <3>6. ASSUME NEW k \in 0 .. n - 1 PROVE Digits(s)[k] = 9
      <4>1. n - k \in 1 .. n
        BY <1>1
      <4>2. s[n - k] \in 0 .. 9 /\ ~(s[n - k] < 9)
        BY <1>1, <1>2, <2>7, <4>1
      <4>3. s[n - k] = 9
        BY <4>2
      <4>4. QED
        BY <3>5, <4>3
    <3>7. Weight(Digits(s))[n] = Tens[n] - 1
      BY <1>1, <3>5, <3>6, WeightOfNines
    <3>8. QED
      BY <3>3, <3>4, <3>5, <3>7
  <2>8. Len(r) >= 1 /\ Len(r) >= n
    BY <1>1, <2>5
  <2>9. QED
    BY <2>5, <2>6, <2>7, <2>8 DEF n, r
<1>3. CASE low # {}
  <2> DEFINE m == Max(low)
             q == n - m
  <2>1. m \in 1 .. n /\ s[m] < 9 /\ \A i \in 1 .. n : i > m => ~(s[i] < 9)
    <3>1. low \in SUBSET (0 .. n)
      BY <1>1
    <3>2. m \in low /\ \A j \in low : j <= m
      <4> HIDE DEF low, n
      <4> QED
        BY <1>1, <1>3, <3>1, MaxNat
    <3> HIDE DEF m
    <3>3. m \in 1 .. n /\ s[m] < 9
      BY <1>1, <3>2
    <3>4. ASSUME NEW i \in 1 .. n, i > m, s[i] < 9 PROVE FALSE
      <4>1. i \in low
        BY <1>1, <3>4
      <4>2. i <= m
        BY <3>2, <4>1
      <4>3. QED
        BY <3>3, <3>4, <4>2
    <3>5. QED
      BY <3>3, <3>4
  <2> DEFINE c(i) == CASE i < m -> s[i] [] i = m -> s[i] + 1 [] i > m -> 0
             h == [i \in DOMAIN s |-> c(i)]
  <2>2. r = h /\ h = [i \in 1 .. n |-> h[i]] /\ DOMAIN h = 1 .. n
    <3>1. r = h
      BY <1>3 DEF Increment
    <3>2. DOMAIN h = DOMAIN s
      OBVIOUS
    <3>3. h = [i \in DOMAIN s |-> h[i]]
      <4> HIDE DEF c
      <4> QED
        OBVIOUS
    <3> HIDE DEF h
    <3>4. QED
      BY <1>1, <3>1, <3>2, <3>3
  <2> HIDE DEF m, n, low, r
  <2>3. ASSUME NEW i \in 1 .. n
        PROVE  /\ i < m => r[i] = s[i]
               /\ i = m => r[i] = s[i] + 1
               /\ i > m => r[i] = 0
    <3>1. i \in DOMAIN s /\ m \in Int /\ i \in Int
      BY <1>1, <2>1
    <3>2. r[i] = CASE i < m -> s[i] [] i = m -> s[i] + 1 [] i > m -> 0
      <4>1. h[i] = c(i)
        <5> HIDE DEF c
        <5> QED
          BY <3>1
      <4> HIDE DEF h
      <4>2. QED
        BY <2>2, <4>1
    <3>3. QED
      BY <3>1, <3>2
  <2>4. \A i \in 1 .. n : r[i] \in Nat /\ (s[i] \in 0 .. 9 => r[i] \in 0 .. 9)
    <3>1. ASSUME NEW i \in 1 .. n PROVE r[i] \in Nat /\ (s[i] \in 0 .. 9 => r[i] \in 0 .. 9)
      <4>1. i < m \/ i = m \/ i > m
        BY <2>1
      <4>2. s[i] \in Nat
        BY <1>1
      <4>3. CASE i < m
        BY <2>3, <4>2, <4>3
      <4>4. CASE i = m
        <5>1. r[i] = s[i] + 1 /\ s[i] < 9
          BY <2>1, <2>3, <4>4
        <5> DEFINE u == s[i]
                   v == r[i]
        <5>2. v = u + 1 /\ u < 9 /\ u \in Nat
          BY <4>2, <5>1
        <5> HIDE DEF u, v
        <5>3. v \in Nat /\ v \in 0 .. 9
          BY <5>2
        <5>4. QED
          BY <5>3 DEF v
      <4>5. CASE i > m
        <5>1. r[i] = 0
          BY <2>3, <4>5
        <5>2. QED
          BY <5>1
      <4>6. QED
        BY <4>1, <4>3, <4>4, <4>5
    <3>2. QED
      BY <3>1
  <2> HIDE DEF h
  <2>5. r \in Seq(Nat) /\ Len(r) = n /\ (s \in Seq(0 .. 9) => r \in Seq(0 .. 9))
    <3>1. r = [i \in 1 .. n |-> r[i]]
      BY <2>2
    <3>2. r \in [1 .. n -> Nat]
      BY <2>4, <3>1
    <3>3. ASSUME s \in Seq(0 .. 9) PROVE r \in [1 .. n -> 0 .. 9]
      <4>1. \A i \in 1 .. n : s[i] \in 0 .. 9
        BY <3>3 DEF n
      <4>2. \A i \in 1 .. n : r[i] \in 0 .. 9
        BY <2>4, <4>1
      <4>3. QED
        BY <3>1, <4>2
    <3>4. \A S : r \in [1 .. n -> S] => r \in Seq(S) /\ Len(r) = n
      BY <1>1, SeqOfFunction
    <3>5. QED
      BY <3>2, <3>3, <3>4
  <2>6. n >= 1
    BY <1>1, <2>1
  <2>7. ASSUME s \in Seq(0 .. 9) PROVE Value(r) = Value(s) + 1
    <3> DEFINE d == Digits(s)
               e == Digits(r)
    <3>1. /\ d \in [Nat -> Int] /\ Value(s) = Weight(d)[n]
          /\ \A k \in 0 .. n - 1 : d[k] = s[n - k]
      <4>1. /\ Digits(s) \in [Nat -> Int] /\ Value(s) = Weight(Digits(s))[n]
            /\ \A k \in Nat : Digits(s)[k] = Digit(s, k)
            /\ \A k \in 0 .. n - 1 : Digit(s, k) = s[n - k]
        BY <1>1, DigitsType DEF n
      <4>2. \A k \in 0 .. n - 1 : k \in Nat
        BY <1>1
      <4>3. QED
        BY <4>1, <4>2
    <3>2. /\ e \in [Nat -> Int] /\ Value(r) = Weight(e)[n]
          /\ \A k \in 0 .. n - 1 : e[k] = r[n - k]
      <4>1. r \in Seq(Int) /\ Len(r) = n
        BY <2>5, ValueNat
      <4>2. /\ Digits(r) \in [Nat -> Int] /\ Value(r) = Weight(Digits(r))[n]
            /\ \A k \in Nat : Digits(r)[k] = Digit(r, k)
            /\ \A k \in 0 .. n - 1 : Digit(r, k) = r[n - k]
        BY <4>1, DigitsType
      <4>3. \A k \in 0 .. n - 1 : k \in Nat
        BY <1>1
      <4>4. QED
        BY <4>2, <4>3
    <3> HIDE DEF d, e
    <3>3. q \in Nat /\ q + 1 \in Nat /\ n - (q + 1) \in Nat /\ q \in 0 .. n - 1 /\ n - q = m
          /\ (q + 1) + (n - (q + 1)) = n
      BY <1>1, <2>1
    <3> HIDE DEF q
    <3>4. ASSUME NEW k \in 0 .. q - 1 PROVE d[k] = 9 /\ e[k] = 0
      <4>1. k \in 0 .. n - 1 /\ n - k \in 1 .. n /\ n - k > m
        BY <1>1, <2>1, <3>3
      <4>2. s[n - k] \in 0 .. 9 /\ ~(s[n - k] < 9)
        BY <1>1, <2>1, <2>7, <4>1 DEF n
      <4>3. s[n - k] = 9
        BY <4>2
      <4>4. r[n - k] = 0
        BY <2>3, <4>1
      <4>5. QED
        BY <3>1, <3>2, <4>1, <4>3, <4>4
    <3>5. e[q] = d[q] + 1 /\ d[q] \in Int
      <4>1. d[q] = s[m] /\ e[q] = r[m]
        BY <3>1, <3>2, <3>3
      <4>2. r[m] = s[m] + 1
        BY <2>1, <2>3
      <4>3. d[q] \in Int
        BY <3>1, <3>3
      <4>4. QED
        BY <4>1, <4>2, <4>3
    <3>6. ASSUME NEW k \in q + 1 .. (q + 1) + (n - (q + 1)) - 1 PROVE d[k] = e[k]
      <4>1. k \in 0 .. n - 1 /\ n - k \in 1 .. n /\ n - k < m
        BY <1>1, <2>1, <3>3
      <4>2. r[n - k] = s[n - k]
        BY <2>3, <4>1
      <4>3. QED
        BY <3>1, <3>2, <4>1, <4>2
    <3>7. Weight(d)[q] = Tens[q] - 1
      BY <3>1, <3>3, <3>4, WeightOfNines
    <3>8. Weight(e)[q] = 0
      <4>1. 0 \in Nat /\ 0 + q = q
        BY <3>3
      <4>2. \A k \in 0 .. 0 + q - 1 : e[k] = 0
        <5>1. ASSUME NEW k \in 0 .. 0 + q - 1 PROVE e[k] = 0
          <6>1. k \in 0 .. q - 1
            BY <3>3
          <6>2. QED
            BY <3>4, <6>1
        <5>2. QED
          BY <5>1
      <4>3. Weight(e)[0 + q] = Weight(e)[0]
        BY <3>2, <3>3, <4>1, <4>2, WeightZeros
      <4>4. Weight(e)[0] = 0
        BY <3>2, WeightFacts
      <4>5. QED
        BY <4>1, <4>3, <4>4
    <3>9. /\ Weight(d)[q + 1] = Weight(d)[q] + d[q] * Tens[q]
          /\ Weight(e)[q + 1] = Weight(e)[q] + e[q] * Tens[q]
      <4>1. Weight(d)[q + 1] = Weight(d)[q] + d[q] * Tens[q]
        BY <3>1, <3>3, WeightFacts
      <4>2. Weight(e)[q + 1] = Weight(e)[q] + e[q] * Tens[q]
        BY <3>2, <3>3, WeightFacts
      <4>3. QED
        BY <4>1, <4>2
    <3>10. Weight(d)[(q + 1) + (n - (q + 1))] - Weight(d)[q + 1]
             = Weight(e)[(q + 1) + (n - (q + 1))] - Weight(e)[q + 1]
      BY <3>1, <3>2, <3>3, <3>6, WeightSameAbove
    <3> DEFINE a == Weight(d)[n]
               b == Weight(e)[n]
               f == Weight(d)[q + 1]
               g == Weight(e)[q + 1]
               x == d[q]
               y == Tens[q]
    <3>11. a - f = b - g
      BY <3>3, <3>10
    <3>12. f = y - 1 + x * y /\ g = (x + 1) * y
      <4>1. f = Weight(d)[q] + d[q] * Tens[q] /\ g = 0 + e[q] * Tens[q]
        BY <3>8, <3>9
      <4>2. f = (y - 1) + x * y /\ g = 0 + (x + 1) * y
        BY <3>5, <3>7, <4>1
      <4>3. x \in Int
        BY <3>5
      <4>4. y \in Int
        BY <3>3, TensFacts
      <4> HIDE DEF f, g, x, y
      <4>5. QED
        BY <4>2, <4>3, <4>4
    <3>13. a \in Int /\ b \in Int
      <4>1. a \in Int
        BY <1>1, <3>1, WeightFacts
      <4>2. b \in Int
        BY <1>1, <3>2, WeightFacts
      <4>3. QED
        BY <4>1, <4>2
    <3>14. x \in Int /\ y \in Int
      <4>1. y \in Int
        BY <3>3, TensFacts
      <4>2. QED
        BY <3>5, <4>1
    <3> HIDE DEF a, b, f, g, x, y
    <3>15. b = a + 1
      <4>1. (x + 1) * y = x * y + y /\ x * y \in Int
        BY <3>14
      <4> DEFINE z == x * y
      <4>2. f = y - 1 + z /\ g = z + y /\ z \in Int
        BY <3>12, <4>1
      <4> HIDE DEF z
      <4>3. QED
        BY <3>11, <3>13, <3>14, <4>2
    <3>16. QED
      BY <3>1, <3>2, <3>15 DEF a, b
  <2>8. Len(r) >= 1 /\ Len(r) >= n
    BY <1>1, <2>5, <2>6
  <2>9. QED
    BY <2>5, <2>7, <2>8 DEF n, r
<1>4. QED
  BY <1>2, <1>3

(* A string cut in two. *)
LEMMA SplitFacts ==
    ASSUME NEW S \in SUBSET Nat, NEW s \in Seq(S), NEW l \in 0 .. Len(s)
    PROVE  LET kept == SubSeq(s, 1, l)
               rest == SubSeq(s, l + 1, Len(s))
           IN  /\ kept \in Seq(S) /\ Len(kept) = l
               /\ rest \in Seq(S) /\ Len(rest) = Len(s) - l
               /\ \A i \in 1 .. Len(s) - l : rest[i] = s[l + i]
               /\ Value(s) = Value(kept) * Tens[Len(s) - l] + Value(rest)
<1> DEFINE kept == SubSeq(s, 1, l)
           rest == SubSeq(s, l + 1, Len(s))
<1>1. l \in Nat /\ Len(s) \in Nat /\ l <= Len(s)
  OBVIOUS
<1>2. kept \in Seq(S) /\ Len(kept) = l /\ \A i \in 1 .. l : kept[i] = s[i]
  <2>1. \A i \in 1 .. l : s[i] \in S
    BY <1>1
  <2>2. kept = [i \in 1 .. l |-> s[i]]
    BY <1>1
  <2>3. QED
    BY <1>1, <2>1, <2>2
<1>3. /\ rest \in Seq(S) /\ Len(rest) = Len(s) - l
      /\ \A i \in 1 .. Len(s) - l : rest[i] = s[l + i]
  <2>1. ASSUME NEW i \in 1 .. Len(s) - l PROVE l + i \in 1 .. Len(s) /\ s[l + i] \in S
    <3>1. l + i \in 1 .. Len(s)
      BY <1>1
    <3>2. QED
      BY <3>1
  <2>2. Len(rest) = Len(s) - l /\ \A i \in 1 .. Len(s) - l : rest[i] = s[l + i]
    BY <1>1
  <2>3. rest = [i \in 1 .. Len(s) - l |-> s[l + i]]
    BY <1>1
  <2>4. Len(s) - l \in Nat
    BY <1>1
  <2>5. QED
    BY <2>1, <2>2, <2>3, <2>4
<1>4. s = kept \o rest
  <2> HIDE DEF kept, rest
  <2>1. kept \o rest \in Seq(S) /\ Len(kept \o rest) = Len(s)
    <3>1. kept \in Seq(S) /\ rest \in Seq(S)
      BY <1>2, <1>3
    <3>2. kept \o rest \in Seq(S) /\ Len(kept \o rest) = Len(kept) + Len(rest)
      BY <3>1
    <3>3. l + (Len(s) - l) = Len(s)
      BY <1>1
    <3>4. QED
      BY <1>2, <1>3, <3>2, <3>3
  <2>2. ASSUME NEW i \in 1 .. Len(s) PROVE s[i] = (kept \o rest)[i]
    <3>1. CASE i <= l
      BY <1>1, <1>2, <1>3, <3>1
    <3>2. CASE ~(i <= l)
      <4>1. i - l \in 1 .. Len(s) - l /\ l + (i - l) = i
        BY <1>1, <3>2
      <4>2. (kept \o rest)[i] = rest[i - l]
        BY <1>1, <1>2, <1>3, <3>2
      <4>3. QED
        BY <1>3, <4>1, <4>2
    <3>3. QED
      BY <3>1, <3>2
  <2>3. QED
    BY <2>1, <2>2, SeqEqual
<1>5. kept \in Seq(Int) /\ rest \in Seq(Int)
  <2>1. S \in SUBSET Int
    OBVIOUS
  <2>2. QED
    BY <1>2, <1>3, <2>1, SeqOfInts
<1> HIDE DEF kept, rest
<1>6. Value(kept \o rest) = Value(kept) * Tens[Len(rest)] + Value(rest)
  BY <1>5, ValueOfConcat
<1>7. QED
  BY <1>2, <1>3, <1>4, <1>6 DEF kept, rest

(* The first of the digits that are dropped tells which half they are in. *)
LEMMA HalfFacts ==
    ASSUME NEW r \in Seq(0 .. 9), Len(r) >= 1
    PROVE  /\ Value(r) \in Nat
           /\ r[1] >= 5 => Tens[Len(r)] <= 2 * Value(r) /\ Value(r) <= Tens[Len(r)]
           /\ ~(r[1] >= 5) => 2 * Value(r) <= Tens[Len(r)]
<1> DEFINE d == Digits(r)
           n == Len(r)
           m == n - 1
<1>1. m \in Nat /\ n \in Nat /\ n = m + 1 /\ r[1] \in 0 .. 9
  OBVIOUS
<1>2. /\ d \in [Nat -> Int] /\ Value(r) = Weight(d)[n] /\ d[m] = r[1]
      /\ \A k \in 0 .. m - 1 : d[k] \in 0 .. 9
  <2>1. r \in Seq(Int) /\ \A k \in Nat : Digit(r, k) \in 0 .. 9
    BY ValueBound
  <2>2. /\ d \in [Nat -> Int] /\ Value(r) = Weight(d)[n]
        /\ \A k \in Nat : d[k] = Digit(r, k)
        /\ \A k \in 0 .. n - 1 : Digit(r, k) = r[n - k]
    BY <2>1, DigitsType
  <2> HIDE DEF d
  <2>3. m \in 0 .. n - 1 /\ n - m = 1
    BY <1>1
  <2>4. Digit(r, m) = r[1]
    BY <2>2, <2>3
  <2>5. \A k \in 0 .. m - 1 : k \in Nat
    BY <1>1
  <2>6. QED
    BY <1>1, <2>1, <2>2, <2>4, <2>5
<1> HIDE DEF d, m, n
<1>3. Weight(d)[m] >= 0 /\ Weight(d)[m] < Tens[m]
  BY <1>1, <1>2, WeightBound
<1> DEFINE v == Value(r)
           w == Weight(d)[m]
           t == Tens[m]
           u == Tens[n]
           x == r[1]
<1>4. v = w + x * t
  <2>1. Weight(d)[m + 1] = Weight(d)[m] + d[m] * Tens[m]
    BY <1>1, <1>2, WeightFacts
  <2>2. QED
    BY <1>1, <1>2, <2>1
<1>5. u = 10 * t /\ t \in Nat
  BY <1>1, TensFacts
<1>6. w \in Int /\ x \in 0 .. 9
  BY <1>1, <1>2, WeightFacts
<1>7. w >= 0 /\ w < t
  BY <1>3
<1>8. v \in Nat
  BY ValueBound
<1> HIDE DEF v, w, t, u, x
<1>9. x >= 5 => 5 * t <= x * t /\ x * t <= 9 * t
  BY <1>5, <1>6
<1>10. ~(x >= 5) => x * t <= 4 * t
  BY <1>5, <1>6
<1>11. (x >= 5 => u <= 2 * v /\ v <= u) /\ (~(x >= 5) => 2 * v <= u)
  <2> DEFINE y == x * t
  <2>1. y \in Int
    BY <1>5, <1>6
  <2>2. v = w + y /\ (x >= 5 => 5 * t <= y /\ y <= 9 * t) /\ (~(x >= 5) => y <= 4 * t)
    BY <1>4, <1>9, <1>10
  <2> HIDE DEF y
  <2>3. QED
    BY <1>5, <1>6, <1>7, <1>8, <2>1, <2>2
<1>12. QED
  BY <1>8, <1>11 DEF v, u, x, n

(* bf_limit_precision: at most Precision decimals, and the number is off by  *)
(* half a unit of the last one at most.                                      *)
LEMMA LimitFacts ==
    ASSUME NEW x, Shape(x), x.kind = "finite", Trimmed(x)
    PROVE  LET z == Limit(x)
               u == Value(x.digits)
           IN  /\ Shape(z) /\ Trimmed(z) /\ z.kind = "finite" /\ z.point <= x.point
               /\ x.digits \in Seq(0 .. 9) => z.digits \in Seq(0 .. 9)
               /\ Value(z.digits) = 0 => z = x \/ z = Zero
               /\ x.point <= Precision => z = x
               /\ z.point <= Precision
               /\ x.digits \in Seq(0 .. 9) /\ Len(x.digits) >= x.point /\ x.point > Precision =>
                    \E v \in Nat : /\ Units(z, x.point) = Side(x.neg) * v
                                   /\ 2 * (v - u) <= Tens[x.point - Precision]
                                   /\ 2 * (u - v) <= Tens[x.point - Precision]
<1> DEFINE s == x.digits
           n == Len(s)
           k == x.point - Precision
           l == n - k
           kept == SubSeq(s, 1, l)
           rest == SubSeq(s, l + 1, n)
           r == IF s[l + 1] >= 5 THEN Increment(kept) ELSE kept
           z == Limit(x)
<1>1. /\ s \in Seq(Nat) /\ n \in Nat /\ n >= 1 /\ x.point \in Nat /\ x.neg \in BOOLEAN
      /\ Side(x.neg) \in {-1, 1} /\ Value(s) \in Nat
  BY ShapeParts
<1>2. Precision \in Nat /\ Precision >= 1 /\ k \in Int /\ l \in Int
  BY <1>1, PrecisionAssumption
<1>3. CASE x.point <= Precision
  <2>1. x.point <= x.point /\ ~(x.point > Precision)
    BY <1>1, <1>2, <1>3
  <2>2. z = x
    BY <1>3, <2>1 DEF Limit
  <2> HIDE DEF z
  <2>3. z.point <= Precision
    BY <1>3, <2>2
  <2>4. QED
    BY <1>3, <2>1, <2>2, <2>3 DEF z
<1>4. CASE x.point > Precision /\ l <= 0
  <2>1. ~(x.point <= Precision)
    BY <1>1, <1>2, <1>4
  <2>2. z = Zero
    BY <1>4, <2>1 DEF Limit
  <2>3. ~(n >= x.point)
    BY <1>1, <1>2, <1>4
  <2>4. Shape(Zero) /\ Trimmed(Zero) /\ Zero.kind = "finite" /\ Zero.digits \in Seq(0 .. 9)
    BY SpecialFacts DEF Numeric
  <2>5. Zero.point <= x.point /\ Zero.point <= Precision
    BY <1>1, <1>2 DEF Zero, Number
  <2> HIDE DEF z, n
  <2>6. QED
    BY <2>1, <2>2, <2>3, <2>4, <2>5 DEF z, n, s
<1>5. CASE x.point > Precision /\ l > 0
  <2>1. ~(x.point <= Precision) /\ ~(l <= 0) /\ k \in Nat /\ k >= 1 /\ l \in 0 .. n /\ l \in Nat
        /\ l + 1 \in 1 .. n /\ n - l = k
    <3> DEFINE d == x.point
    <3>1. /\ n \in Nat /\ d \in Nat /\ Precision \in Nat /\ d > Precision /\ l > 0
          /\ k = d - Precision /\ l = n - k
      BY <1>1, <1>2, <1>5
    <3> HIDE DEF d, k, l, n
    <3>2. /\ ~(d <= Precision) /\ ~(l <= 0) /\ k \in Nat /\ k >= 1 /\ l \in 0 .. n /\ l \in Nat
          /\ l + 1 \in 1 .. n /\ n - l = k
      BY <3>1
    <3>3. QED
      BY <3>2 DEF d
  <2>2. z = Trim(Number(x.neg, r, Precision))
    BY <1>5, <2>1 DEF Limit
  <2>3. ASSUME NEW S \in SUBSET Nat, s \in Seq(S)
        PROVE  /\ kept \in Seq(S) /\ Len(kept) = l /\ rest \in Seq(S) /\ Len(rest) = k
               /\ rest[1] = s[l + 1] /\ Value(s) = Value(kept) * Tens[k] + Value(rest)
    <3> HIDE DEF s, l, k
    <3>1. /\ SubSeq(s, 1, l) \in Seq(S) /\ Len(SubSeq(s, 1, l)) = l
          /\ SubSeq(s, l + 1, Len(s)) \in Seq(S) /\ Len(SubSeq(s, l + 1, Len(s))) = Len(s) - l
          /\ \A i \in 1 .. Len(s) - l : SubSeq(s, l + 1, Len(s))[i] = s[l + i]
          /\ Value(s) = Value(SubSeq(s, 1, l)) * Tens[Len(s) - l] + Value(SubSeq(s, l + 1, Len(s)))
      BY <2>1, <2>3, SplitFacts
    <3>2. 1 \in 1 .. Len(s) - l
      BY <1>1, <2>1
    <3>3. QED
      BY <2>1, <3>1, <3>2
  <2>4. kept \in Seq(Nat) /\ Len(kept) = l
    BY <1>1, <2>3
  <2> HIDE DEF z, kept, rest, l, k
  <2>5. /\ Increment(kept) \in Seq(Nat) /\ Len(Increment(kept)) >= 1
        /\ kept \in Seq(0 .. 9) => /\ Increment(kept) \in Seq(0 .. 9)
                                   /\ Value(Increment(kept)) = Value(kept) + 1
    BY <2>4, IncrementFacts
  <2>6. Len(kept) >= 1
    BY <2>1, <2>4
  <2>7. r \in Seq(Nat) /\ Len(r) >= 1
    BY <2>4, <2>5, <2>6
  <2>8. s \in Seq(0 .. 9) => r \in Seq(0 .. 9)
    <3>1. 0 .. 9 \in SUBSET Nat
      OBVIOUS
    <3> HIDE DEF s
    <3>2. s \in Seq(0 .. 9) => kept \in Seq(0 .. 9)
      BY <2>3, <3>1
    <3>3. QED
      BY <2>5, <3>2
  <2> DEFINE y == Number(x.neg, r, Precision)
  <2> HIDE DEF r
  <2>9. /\ Shape(y) /\ y.kind = "finite" /\ y.digits = r /\ y.point = Precision /\ y.neg = x.neg
        /\ Units(y, Precision) = Side(x.neg) * Value(r)
    BY <1>1, <1>2, <2>7, NumberFacts
  <2> HIDE DEF y
  <2>10. z = Trim(y)
    BY <2>2 DEF y
  <2>11. /\ Shape(z) /\ z.kind = "finite"
         /\ y.digits \in Seq(0 .. 9) => z.digits \in Seq(0 .. 9)
         /\ z.point <= y.point
         /\ \A p \in Nat : p >= y.point => Units(z, p) = Units(y, p)
         /\ Value(z.digits) = 0 => z = Zero
         /\ Trimmed(z)
    BY <2>9, <2>10, TrimFacts DEF Trimmed
  <2>12. z.point <= x.point /\ z.point <= Precision
    <3>1. z.point \in Nat
      BY <2>11, ShapeParts
    <3>2. QED
      BY <1>1, <1>2, <1>5, <2>9, <2>11, <3>1
  <2>13. ASSUME s \in Seq(0 .. 9)
         PROVE  \E v \in Nat : /\ Units(z, x.point) = Side(x.neg) * v
                               /\ 2 * (v - Value(s)) <= Tens[k]
                               /\ 2 * (Value(s) - v) <= Tens[k]
    <3>1. 0 .. 9 \in SUBSET Nat
      OBVIOUS
    <3>2. /\ kept \in Seq(0 .. 9) /\ rest \in Seq(0 .. 9) /\ Len(rest) = k /\ rest[1] = s[l + 1]
          /\ Value(s) = Value(kept) * Tens[k] + Value(rest)
      <4> HIDE DEF s
      <4> QED
        BY <2>3, <2>13, <3>1
    <3>3. Len(rest) >= 1
      BY <2>1, <3>2
    <3>4. /\ Value(rest) \in Nat
          /\ rest[1] >= 5 => Tens[k] <= 2 * Value(rest) /\ Value(rest) <= Tens[k]
          /\ ~(rest[1] >= 5) => 2 * Value(rest) <= Tens[k]
      <4>1. /\ Value(rest) \in Nat
            /\ rest[1] >= 5 => Tens[Len(rest)] <= 2 * Value(rest) /\ Value(rest) <= Tens[Len(rest)]
            /\ ~(rest[1] >= 5) => 2 * Value(rest) <= Tens[Len(rest)]
        BY <3>2, <3>3, HalfFacts
      <4>2. QED
        BY <3>2, <4>1
    <3>5. Value(kept) \in Nat /\ Value(r) \in Nat
      BY <2>4, <2>7, ValueNat
    <3>6. Tens[k] \in Nat
      BY <2>1, TensFacts
    <3>7. /\ rest[1] >= 5 => Value(r) = Value(kept) + 1
          /\ ~(rest[1] >= 5) => Value(r) = Value(kept)
      BY <2>5, <3>2 DEF r
    <3> DEFINE a == Value(kept)
               b == Value(rest)
               c == Value(r)
               t == Tens[k]
               v == c * t
    <3>8. Units(z, x.point) = Side(x.neg) * v
      <4>1. Units(z, x.point) = Units(y, x.point)
        BY <1>1, <1>2, <1>5, <2>9, <2>11
      <4>2. Precision >= y.point /\ x.point >= Precision
        BY <1>1, <1>2, <1>5, <2>9
      <4>3. Units(y, x.point) = Units(y, Precision) * Tens[x.point - Precision]
        BY <1>1, <1>2, <2>9, <4>2, UnitsFacts
      <4> DEFINE e == Side(x.neg)
      <4>4. Units(z, x.point) = e * c * t
        BY <2>9, <4>1, <4>3 DEF k
      <4>5. e \in Int /\ c \in Int /\ t \in Int
        BY <1>1, <3>5, <3>6
      <4> HIDE DEF e, c, t
      <4>6. e * c * t = e * (c * t)
        BY <4>5
      <4>7. QED
        BY <4>4, <4>6 DEF e
    <3>9. v \in Nat /\ 2 * (v - Value(s)) <= Tens[k] /\ 2 * (Value(s) - v) <= Tens[k]
      <4> DEFINE m == Value(s)
                 q == a * t
                 h == rest[1] >= 5
      <4>1. a \in Nat /\ b \in Nat /\ c \in Nat /\ t \in Nat /\ m \in Nat
        BY <1>1, <3>4, <3>5, <3>6
      <4>2. m = q + b
        BY <3>2
      <4>3. (h => c = a + 1 /\ t <= 2 * b /\ b <= t) /\ (~h => c = a /\ 2 * b <= t) /\ h \in BOOLEAN
        BY <3>4, <3>7
      <4> HIDE DEF a, b, c, t, m, h
      <4>4. q \in Nat /\ v \in Nat /\ (c = a + 1 => v = q + t) /\ (c = a => v = q)
        BY <4>1
      <4> HIDE DEF q, v
      <4>5. v \in Nat /\ 2 * (v - m) <= t /\ 2 * (m - v) <= t
        BY <4>1, <4>2, <4>3, <4>4
      <4>6. QED
        BY <4>5 DEF m, t
    <3> HIDE DEF v
    <3>10. QED
      BY <3>8, <3>9
  <2>14. QED
    BY <2>1, <2>8, <2>9, <2>11, <2>12, <2>13 DEF z, s, k
<1>6. x.point <= Precision \/ (x.point > Precision /\ l <= 0) \/ (x.point > Precision /\ l > 0)
  BY <1>1, <1>2
<1>7. QED
  BY <1>3, <1>4, <1>5, <1>6

(* Multiplying by a natural number keeps the order. *)
LEMMA TimesMonotone ==
    ASSUME NEW m \in Int, NEW n \in Int, NEW c \in Nat, m <= n
    PROVE  m * c <= n * c
<1>1. (n - m) * c >= 0
  OBVIOUS
<1>2. (n - m) * c = n * c - m * c /\ n * c \in Int /\ m * c \in Int
  OBVIOUS
<1> DEFINE x == n * c
           y == m * c
           z == (n - m) * c
<1>3. z >= 0 /\ z = x - y /\ x \in Int /\ y \in Int
  BY <1>1, <1>2
<1> HIDE DEF x, y, z
<1>4. y <= x
  BY <1>3
<1>5. QED
  BY <1>4 DEF x, y

(* An error of half a unit at most, in smaller units. *)
LEMMA RoundingScaled ==
    ASSUME NEW w \in Nat, NEW u \in Nat, NEW k \in Nat, NEW t \in Nat, NEW q \in Nat,
           2 * (w - u) <= k
    PROVE  2 * (w * t - u * t) * q <= k * t * q
<1>1. t * q \in Nat
  OBVIOUS
<1> DEFINE c == t * q
           m == 2 * (w - u)
<1>2. m \in Int /\ c \in Nat /\ m <= k
  BY <1>1
<1> HIDE DEF c, m
<1>3. m * c <= k * c
  BY <1>2, TimesMonotone
<1>4. 2 * (w - u) * (t * q) <= k * (t * q)
  BY <1>3 DEF c, m
<1>5. 2 * (w * t - u * t) * q = 2 * (w - u) * (t * q) /\ k * t * q = k * (t * q)
  OBVIOUS
<1>6. QED
  BY <1>4, <1>5

(* A number that may have no digits at all, as the whole part of a fraction. *)
Loose(a) == a.neg \in BOOLEAN /\ a.digits \in Seq(Nat) /\ a.point \in Nat

(* The product z of a and b is off by half a unit of the last decimal at     *)
(* most.                                                                     *)
Rounded(z, a, b) ==
    LET p == a.point + b.point
        u == Value(a.digits) * Value(b.digits)
    IN  \E v \in Nat : /\ Units(z, p) = Side(a.neg # b.neg) * v
                       /\ 2 * (v - u) * Tens[Precision] <= Tens[p]
                       /\ 2 * (u - v) * Tens[Precision] <= Tens[p]

(* bigfloat_mul of finite numbers.                                           *)
LEMMA MulFiniteFacts ==
    ASSUME NEW a, Loose(a), NEW b, Shape(b)
    PROVE  /\ Numeric(MulFinite(a, b)) /\ Trimmed(MulFinite(a, b))
           /\ MulFinite(a, b).kind = "finite" /\ MulFinite(a, b).point <= a.point + b.point
           /\ Value(MulFinite(a, b).digits) = 0 => MulFinite(a, b).neg = FALSE
           /\ a.digits \in Seq(0 .. 9) /\ b.digits \in Seq(0 .. 9) => Rounded(MulFinite(a, b), a, b)
<1> DEFINE d == MulDigits(a.digits, b.digits)
           p == a.point + b.point
           neg == a.neg # b.neg
           f == Zeros(p - Len(d)) \o d
           x == Number(neg, f, p)
           y == Trim(x)
           z == Limit(y)
           u == Value(a.digits) * Value(b.digits)
<1>1. MulFinite(a, b) = z
  BY DEF MulFinite
<1>2. /\ b.digits \in Seq(Nat) /\ Len(b.digits) >= 1 /\ b.point \in Nat /\ b.neg \in BOOLEAN
      /\ a.digits \in Seq(Nat) /\ a.point \in Nat /\ a.neg \in BOOLEAN
  BY ShapeParts DEF Loose
<1>3. /\ d \in Seq(0 .. 9) /\ Len(d) >= 1
      /\ a.digits \in Seq(0 .. 9) /\ b.digits \in Seq(0 .. 9) => Value(d) = u
  BY <1>2, MulDigitsFacts
<1>4. p \in Nat /\ neg \in BOOLEAN /\ Precision \in Nat
  BY <1>2, PrecisionAssumption
<1> HIDE DEF d, p, neg, z
<1>5. f \in Seq(0 .. 9) /\ Len(f) >= 1 /\ Len(f) >= p /\ Value(f) = Value(d)
  <2> DEFINE n == Len(d)
             o == Zeros(p - n)
  <2>1. n \in Nat /\ p - n \in Int
    BY <1>3, <1>4
  <2> HIDE DEF n
  <2>2. o \in Seq(0 .. 9) /\ Len(o) = Larger(p - n, 0) /\ \A k \in Nat : Digit(o, k) = 0
    BY <2>1, ZerosType
  <2>3. o \o d \in Seq(0 .. 9) /\ Len(o \o d) = Len(o) + Len(d)
    <3> DEFINE S == 0 .. 9
    <3>1. o \in Seq(S) /\ d \in Seq(S)
      BY <1>3, <2>2
    <3> HIDE DEF o, S
    <3>2. o \o d \in Seq(S) /\ Len(o \o d) = Len(o) + Len(d)
      BY <3>1
    <3>3. QED
      BY <3>2 DEF S
  <2>4. Len(o) >= 0 /\ Len(o) >= p - n
    <3>1. Larger(p - n, 0) >= 0 /\ Larger(p - n, 0) >= p - n
      BY <2>1 DEF Larger
    <3>2. QED
      BY <2>2, <3>1
  <2>5. Len(o \o d) >= 1 /\ Len(o \o d) >= p
    <3>1. Len(d) = n
      BY DEF n
    <3>2. Len(o) \in Int
      BY <2>2
    <3>3. QED
      BY <1>3, <1>4, <2>1, <2>3, <2>4, <3>1, <3>2
  <2>6. Value(o \o d) = Value(d)
    <3>1. o \in Seq(Int) /\ d \in Seq(Int) /\ o \in Seq(Nat) /\ Value(d) \in Nat
      BY <1>3, <2>2, ValueBound
    <3>2. IsZero(o)
      <4>1. \A i \in 1 .. Len(o) : o[i] = 0
        BY <2>1, ZerosType
      <4> HIDE DEF o
      <4>2. DOMAIN o = 1 .. Len(o)
        BY <3>1
      <4>3. QED
        BY <4>1, <4>2 DEF IsZero
    <3>3. Tens[n] \in Nat
      BY <2>1, TensFacts
    <3> HIDE DEF o
    <3>4. Value(o) = 0
      BY <3>1, <3>2, ValueZero
    <3>5. Value(o \o d) = Value(o) * Tens[n] + Value(d)
      BY <3>1, ValueOfConcat DEF n
    <3> DEFINE v == Value(d)
               t == Tens[n]
    <3>6. Value(o \o d) = 0 * t + v /\ t \in Nat /\ v \in Nat
      BY <3>1, <3>3, <3>4, <3>5
    <3> HIDE DEF v, t
    <3>7. Value(o \o d) = v
      BY <3>6
    <3>8. QED
      BY <3>7 DEF v
  <2>7. f = o \o d
    BY DEF n
  <2> HIDE DEF f, o
  <2>8. QED
    BY <2>3, <2>5, <2>6, <2>7
<1> HIDE DEF f
<1>6. /\ Shape(x) /\ x.kind = "finite" /\ x.neg = neg /\ x.digits = f /\ x.point = p
      /\ Units(x, p) = Side(neg) * Value(f)
  <2>1. f \in Seq(Nat)
    BY <1>5, ValueBound
  <2>2. QED
    BY <1>4, <1>5, <2>1, NumberFacts
<1> HIDE DEF x
<1>7. /\ Shape(y) /\ y.kind = "finite" /\ y.digits \in Seq(0 .. 9)
      /\ y.point <= p
      /\ \A q \in Nat : q >= p => Units(y, q) = Units(x, q)
      /\ Value(y.digits) = 0 => y = Zero
      /\ Value(y.digits) # 0 => y.neg = neg
      /\ Trimmed(y)
      /\ Len(y.digits) >= y.point
  BY <1>5, <1>6, TrimFacts DEF Trimmed
<1> HIDE DEF y
<1>8. /\ Shape(z) /\ Trimmed(z) /\ z.kind = "finite" /\ z.point <= y.point
      /\ z.digits \in Seq(0 .. 9)
      /\ Value(z.digits) = 0 => z = y \/ z = Zero
      /\ y.point <= Precision => z = y
      /\ y.point > Precision =>
           \E v \in Nat : /\ Units(z, y.point) = Side(y.neg) * v
                          /\ 2 * (v - Value(y.digits)) <= Tens[y.point - Precision]
                          /\ 2 * (Value(y.digits) - v) <= Tens[y.point - Precision]
  BY <1>7, LimitFacts DEF z
<1>9. Value(z.digits) = 0 => z.neg = FALSE
  <2>1. Zero.neg = FALSE
    BY SpecialFacts
  <2>2. QED
    BY <1>7, <1>8, <2>1
<1>10. y.point \in Nat /\ y.neg \in BOOLEAN /\ Value(y.digits) \in Nat
  BY <1>7, ShapeParts
<1>11. ASSUME a.digits \in Seq(0 .. 9), b.digits \in Seq(0 .. 9)
       PROVE  \E v \in Nat : /\ Units(z, p) = Side(neg) * v
                             /\ 2 * (v - u) * Tens[Precision] <= Tens[p]
                             /\ 2 * (u - v) * Tens[Precision] <= Tens[p]
  <2>1. u \in Nat /\ Value(f) = u
    <3>1. Value(a.digits) \in Nat /\ Value(b.digits) \in Nat
      BY <1>2, ValueNat
    <3>2. QED
      BY <1>3, <1>5, <1>11, <3>1
  <2> HIDE DEF u
  <2>2. Units(y, p) = Side(neg) * u
    BY <1>4, <1>6, <1>7, <2>1
  <2>3. Tens[Precision] \in Nat /\ Tens[p] \in Nat
    BY <1>4, TensFacts
  <2>4. CASE y.point <= Precision
    <3>1. z = y
      BY <1>8, <2>4
    <3>2. 2 * (u - u) * Tens[Precision] <= Tens[p]
      <4> DEFINE t == Tens[Precision]
                 e == Tens[p]
      <4>1. t \in Nat /\ e \in Nat
        BY <2>3
      <4> HIDE DEF t, e
      <4>2. 2 * (u - u) * t <= e
        BY <2>1, <4>1
      <4>3. QED
        BY <4>2 DEF t, e
    <3>3. QED
      BY <2>1, <2>2, <3>1, <3>2
  <2>5. CASE y.point > Precision
    <3> DEFINE i == y.point - Precision
               j == p - y.point
               V == Value(y.digits)
    <3>1. i \in Nat /\ j \in Nat /\ i + j \in Nat /\ (i + j) + Precision = p
      <4> DEFINE g == y.point
      <4>1. g \in Nat /\ p \in Nat /\ Precision \in Nat /\ g > Precision /\ g <= p
            /\ i = g - Precision /\ j = p - g
        BY <1>4, <1>7, <1>10, <2>5
      <4> HIDE DEF g, i, j
      <4>2. QED
        BY <4>1
    <3>2. PICK w \in Nat : /\ Units(z, y.point) = Side(y.neg) * w
                           /\ 2 * (w - V) <= Tens[i]
                           /\ 2 * (V - w) <= Tens[i]
      BY <1>8, <2>5
    <3>3. y.neg = neg
      <4>1. SUFFICES ASSUME V = 0 PROVE FALSE
        BY <1>7
      <4>2. y = Zero
        BY <1>7, <4>1
      <4>3. y.point = 0
        BY <4>2 DEF Zero, Number
      <4>4. QED
        BY <1>4, <2>5, <4>3
    <3>4. p >= y.point /\ y.point >= z.point /\ z.point \in Nat /\ y.point >= y.point
      <4>1. z.point \in Nat
        BY <1>8, ShapeParts
      <4>2. QED
        BY <1>4, <1>7, <1>8, <1>10, <4>1
    <3>5. Units(z, p) = Units(z, y.point) * Tens[j]
      BY <1>4, <1>8, <1>10, <3>4, UnitsFacts
    <3>6. Units(y, p) = Side(neg) * V * Tens[j]
      BY <3>3 DEF Units
    <3>7. Tens[i] \in Nat /\ Tens[j] \in Nat
      <4> HIDE DEF i, j
      <4> QED
        BY <3>1, TensFacts
    <3>8. Tens[p] = Tens[i] * Tens[j] * Tens[Precision]
      <4> HIDE DEF i, j
      <4>1. Tens[(i + j) + Precision] = Tens[i + j] * Tens[Precision]
        BY <1>4, <3>1, TensSum
      <4>2. Tens[i + j] = Tens[i] * Tens[j]
        BY <3>1, TensSum
      <4>3. QED
        BY <3>1, <4>1, <4>2
    <3> DEFINE k == Tens[i]
               t == Tens[j]
               q == Tens[Precision]
               e == Side(neg)
    <3>9. k \in Nat /\ t \in Nat /\ q \in Nat /\ V \in Nat /\ e \in {-1, 1}
      <4>1. e \in {-1, 1}
        BY DEF Side
      <4>2. QED
        BY <1>10, <2>3, <3>7, <4>1
    <3>10. e * V * t = e * u /\ Units(z, p) = e * w * t
      BY <2>2, <3>2, <3>3, <3>5, <3>6
    <3>11. 2 * (w - V) <= k /\ 2 * (V - w) <= k /\ Tens[p] = k * t * q
      BY <3>2, <3>8
    <3> HIDE DEF i, j, V, k, t, q, e
    <3>12. V * t = u
      <4> DEFINE g == V * t
      <4>1. g \in Nat /\ e * V * t = e * g
        BY <3>9
      <4>2. e * g = e * u
        BY <3>10, <4>1
      <4> HIDE DEF g
      <4>3. g = u
        BY <2>1, <3>9, <4>1, <4>2
      <4>4. QED
        BY <4>3 DEF g
    <3>13. w * t \in Nat /\ Units(z, p) = e * (w * t)
      BY <3>9, <3>10
    <3>14. 2 * (w * t - V * t) * q <= k * t * q /\ 2 * (V * t - w * t) * q <= k * t * q
      BY <3>9, <3>11, RoundingScaled
    <3>15. 2 * (w * t - u) * q <= Tens[p] /\ 2 * (u - w * t) * q <= Tens[p]
      BY <3>11, <3>12, <3>14
    <3>16. QED
      BY <3>13, <3>15 DEF q, e
  <2>6. QED
    BY <1>4, <1>10, <2>4, <2>5
<1>12. Numeric(z)
  BY <1>8 DEF Numeric
<1>13. a.digits \in Seq(0 .. 9) /\ b.digits \in Seq(0 .. 9) => Rounded(z, a, b)
  BY <1>11 DEF Rounded, p, neg
<1>14. z.point <= p
  <2>1. z.point \in Nat /\ y.point \in Nat
    BY <1>7, <1>8, ShapeParts
  <2>2. QED
    BY <1>4, <1>7, <1>8, <2>1
<1>15. QED
  BY <1>1, <1>8, <1>9, <1>12, <1>13, <1>14 DEF p

(* bigfloat_mul, with infinities and NaN.                                    *)
LEMMA MulFacts ==
    ASSUME NEW a, Loose(a), NEW b, Shape(b)
    PROVE  /\ Numeric(Mul(a, b)) /\ Trimmed(Mul(a, b))
           /\ Mul(a, b).kind = "finite" /\ Value(Mul(a, b).digits) = 0 => Mul(a, b).neg = FALSE
           /\ Kinds(a, b) = {"finite"} => Mul(a, b) = MulFinite(a, b)
<1>1. (a.neg # b.neg) \in BOOLEAN
  OBVIOUS
<1>2. CASE Kinds(a, b) = {"finite"}
  <2>1. Mul(a, b) = MulFinite(a, b)
    <3>1. a.kind = "finite" /\ b.kind = "finite"
      BY <1>2 DEF Kinds
    <3>2. "nan" \notin Kinds(a, b) /\ a.kind # "inf" /\ b.kind # "inf"
      BY <1>2, <3>1
    <3>3. QED
      BY <1>2, <3>2 DEF Mul
  <2> DEFINE z == MulFinite(a, b)
  <2>2. Numeric(z) /\ Trimmed(z) /\ (Value(z.digits) = 0 => z.neg = FALSE)
    BY MulFiniteFacts
  <2> HIDE DEF z
  <2>3. QED
    BY <2>1, <2>2 DEF z
<1>3. CASE Kinds(a, b) # {"finite"}
  <2>1. Mul(a, b) = NaN \/ Mul(a, b) = Inf(a.neg # b.neg)
    BY <1>3 DEF Mul
  <2>2. QED
    BY <1>1, <1>3, <2>1, SpecialFacts
<1>4. QED
  BY <1>2, <1>3
=============================================================================
