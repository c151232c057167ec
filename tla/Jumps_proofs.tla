----------------------------- MODULE Jumps_proofs -----------------------------
(***************************************************************************)
(* Where jumps lead.  First those of a loop as the compiler emits it, for  *)
(* conditions, steps and bodies of any length: positions count from 1, and *)
(* the machine has moved behind a jump when it adds or subtracts the       *)
(* offset.  Then what recalculate_jumps of jit/const_folding.c, which      *)
(* every pass of the optimiser relies on, makes of any jump: squeezing out *)
(* the NOPs moves no jump's destination, whatever the code and wherever    *)
(* its NOPs are.                                                           *)
(***************************************************************************)
EXTENDS Rewriting, FiniteSetTheorems, SequenceTheorems, TLAPS

-----------------------------------------------------------------------------
(* Emission.                                                               *)

(* One instruction between two pieces of code. *)
LEMMA Between ==
    ASSUME NEW S, NEW s \in Seq(S), NEW e \in S, NEW t \in Seq(S)
    PROVE  LET c == s \o <<e>> \o t
           IN  /\ c \in Seq(S)
               /\ Len(c) = Len(s) + 1 + Len(t)
               /\ c[Len(s) + 1] = e
               /\ \A i \in 1 .. Len(s) : c[i] = s[i]
  OBVIOUS

(* The loop of compiler_compile_while_statement: a condition that is false  *)
(* leads right behind the LOOP_END, and the end of the body leads right     *)
(* behind the LOOP_START, where CONTINUE_LOOP leads as well.                *)
THEOREM WhileJumps ==
    ASSUME NEW S, NEW cond \in Seq(S), NEW body \in Seq(S),
           Plain("LOOP_START") \in S, Plain("LOOP_END") \in S,
           Instr("POP_JUMP_IF_FALSE", Len(body) + 2) \in S,
           Instr("JUMP_BACKWARD", Len(cond) + 1 + Len(body) + 1) \in S
    PROVE  LET c == CompileWhile(cond, body)
               exit == Len(cond) + 2
               back == exit + Len(body) + 1
           IN  /\ c[1] = Plain("LOOP_START")
               /\ c[Len(c)] = Plain("LOOP_END")
               /\ c[exit].op = "POP_JUMP_IF_FALSE"
               /\ exit + 1 + c[exit].arg = Len(c) + 1
               /\ c[back].op = "JUMP_BACKWARD"
               /\ back + 1 - c[back].arg = 2
  <1> DEFINE pop == Instr("POP_JUMP_IF_FALSE", Len(body) + 2)
             jump == Instr("JUMP_BACKWARD", Len(cond) + 1 + Len(body) + 1)
             test == <<Plain("LOOP_START")>> \o cond
             round == test \o <<pop>> \o body
             loop == round \o <<jump>> \o <<Plain("LOOP_END")>>
  <1>1. /\ test \in Seq(S)
        /\ Len(test) = Len(cond) + 1
        /\ test[1] = Plain("LOOP_START")
    OBVIOUS
  <1>2. /\ round \in Seq(S)
        /\ Len(round) = Len(test) + 1 + Len(body)
        /\ round[Len(test) + 1] = pop
        /\ round[1] = test[1]
    BY <1>1, Between
  <1>3. /\ Len(loop) = Len(round) + 2
        /\ loop[Len(round) + 1] = jump
        /\ loop[Len(round) + 2] = Plain("LOOP_END")
        /\ \A i \in 1 .. Len(round) : loop[i] = round[i]
    BY <1>2
  <1>4. CompileWhile(cond, body) = loop
    BY DEF CompileWhile
  <1>5. pop.op = "POP_JUMP_IF_FALSE" /\ pop.arg = Len(body) + 2
    BY DEF Instr
  <1>6. jump.op = "JUMP_BACKWARD" /\ jump.arg = Len(cond) + 1 + Len(body) + 1
    BY DEF Instr
  <1>7. Len(cond) \in Nat /\ Len(body) \in Nat
    OBVIOUS
  <1> HIDE DEF pop, jump, test, round, loop
  <1>8. /\ loop[1] = Plain("LOOP_START")
        /\ loop[Len(cond) + 2] = pop
        /\ loop[Len(cond) + 2 + Len(body) + 1] = jump
        /\ loop[Len(loop)] = Plain("LOOP_END")
        /\ Len(loop) = Len(cond) + Len(body) + 4
    BY <1>1, <1>2, <1>3, <1>7
  <1> QED
    BY <1>4, <1>5, <1>6, <1>7, <1>8

(* The loop of compiler_compile_for_statement with a condition: the first   *)
(* jump leads behind the step to the condition, a condition that is false   *)
(* leads right behind the LOOP_END, and the end of the body leads to the    *)
(* LOOP_START, so to the step.                                              *)
THEOREM ForJumps ==
    ASSUME NEW S, NEW init \in Seq(S), NEW cond \in Seq(S), Len(cond) > 0,
           NEW step \in Seq(S), NEW body \in Seq(S),
           Plain("LOOP_START") \in S, Plain("LOOP_END") \in S,
           Instr("JUMP_FORWARD", Len(step) + 1) \in S,
           Instr("POP_JUMP_IF_FALSE", Len(body) + 2) \in S,
           Instr("JUMP_BACKWARD", Len(step) + Len(cond) + Len(body) + 3) \in S
    PROVE  LET c == CompileFor(init, cond, step, body)
               enter == Len(init) + 1
               first == enter + 1 + Len(step) + 1
               exit == first + Len(cond)
               back == exit + Len(body) + 1
           IN  /\ c[enter].op = "JUMP_FORWARD"
               /\ enter + 1 + c[enter].arg = first
               /\ c[first] = cond[1]
               /\ c[exit].op = "POP_JUMP_IF_FALSE"
               /\ exit + 1 + c[exit].arg = Len(c) + 1
               /\ c[back].op = "JUMP_BACKWARD"
               /\ c[back + 1 - c[back].arg] = Plain("LOOP_START")
  <1> DEFINE skip == Instr("JUMP_FORWARD", Len(step) + 1)
             pop == Instr("POP_JUMP_IF_FALSE", Len(body) + 2)
             jump == Instr("JUMP_BACKWARD", Len(step) + Len(cond) + Len(body) + 3)
  <1>1. /\ Len(init) \in Nat /\ Len(step) \in Nat
        /\ Len(cond) \in Nat /\ Len(body) \in Nat
    OBVIOUS
  <1>2. skip.op = "JUMP_FORWARD" /\ skip.arg = Len(step) + 1
    BY DEF Instr
  <1>3. pop.op = "POP_JUMP_IF_FALSE" /\ pop.arg = Len(body) + 2
    BY DEF Instr
  <1>4. /\ jump.op = "JUMP_BACKWARD"
        /\ jump.arg = Len(step) + Len(cond) + Len(body) + 3
    BY DEF Instr
  <1>5. skip \in S /\ pop \in S /\ jump \in S
    OBVIOUS
  <1> HIDE DEF skip, pop, jump
  <1> DEFINE Goal ==
        LET c == CompileFor(init, cond, step, body)
            enter == Len(init) + 1
            first == enter + 1 + Len(step) + 1
            exit == first + Len(cond)
            back == exit + Len(body) + 1
        IN  /\ c[enter].op = "JUMP_FORWARD"
            /\ enter + 1 + c[enter].arg = first
            /\ c[first] = cond[1]
            /\ c[exit].op = "POP_JUMP_IF_FALSE"
            /\ exit + 1 + c[exit].arg = Len(c) + 1
            /\ c[back].op = "JUMP_BACKWARD"
            /\ c[back + 1 - c[back].arg] = Plain("LOOP_START")
  <1> SUFFICES Goal
    OBVIOUS
  <1> HIDE DEF Goal
  <1>start. SUFFICES ASSUME NEW start, start = <<Plain("LOOP_START")>> \o step PROVE Goal
    OBVIOUS
  <1>test. SUFFICES ASSUME NEW test, test = cond \o <<pop>> PROVE Goal
    OBVIOUS
  <1>both. SUFFICES ASSUME NEW both, both = start \o test PROVE Goal
    OBVIOUS
  <1>round. SUFFICES ASSUME NEW round, round = both \o body PROVE Goal
    OBVIOUS
  <1>front. SUFFICES ASSUME NEW front, front = init \o <<skip>> PROVE Goal
    OBVIOUS
  <1>all. SUFFICES ASSUME NEW all, all = front \o round PROVE Goal
    OBVIOUS
  <1>end. SUFFICES ASSUME NEW end, end = <<jump>> \o <<Plain("LOOP_END")>> PROVE Goal
    OBVIOUS
  <1>loop. SUFFICES ASSUME NEW loop, loop = all \o end PROVE Goal
    OBVIOUS
  <1>6. start \in Seq(S)
    BY <1>start
  <1>7. Len(start) = Len(step) + 1 /\ start[1] = Plain("LOOP_START")
    BY <1>start
  <1>8. test \in Seq(S)
    BY <1>5, <1>test
  <1>9. Len(test) = Len(cond) + 1 /\ test[1] = cond[1] /\ test[Len(cond) + 1] = pop
    BY <1>5, <1>test
  <1>10. both \in Seq(S)
    BY <1>6, <1>8, <1>both
  <1>11. /\ Len(both) = Len(start) + Len(test)
         /\ \A i \in 1 .. Len(start) : both[i] = start[i]
         /\ \A i \in 1 .. Len(test) : both[Len(start) + i] = test[i]
    BY <1>6, <1>8, <1>both
  <1>12. round \in Seq(S)
    BY <1>10, <1>round
  <1>13. /\ Len(round) = Len(both) + Len(body)
         /\ \A i \in 1 .. Len(both) : round[i] = both[i]
    BY <1>10, <1>round
  <1>14. front \in Seq(S)
    BY <1>5, <1>front
  <1>15. Len(front) = Len(init) + 1 /\ front[Len(init) + 1] = skip
    BY <1>5, <1>front
  <1>16. all \in Seq(S)
    BY <1>12, <1>14, <1>all
  <1>17. /\ Len(all) = Len(front) + Len(round)
         /\ \A i \in 1 .. Len(front) : all[i] = front[i]
         /\ \A i \in 1 .. Len(round) : all[Len(front) + i] = round[i]
    BY <1>12, <1>14, <1>all
  <1>18. end \in Seq(S)
    BY <1>5, <1>end
  <1>19. Len(end) = 2 /\ end[1] = jump
    BY <1>5, <1>end
  <1>20. /\ Len(loop) = Len(all) + Len(end)
         /\ \A i \in 1 .. Len(all) : loop[i] = all[i]
         /\ \A i \in 1 .. Len(end) : loop[Len(all) + i] = end[i]
    BY <1>16, <1>18, <1>loop
  <1>21. /\ Len(both) = Len(step) + Len(cond) + 2
         /\ Len(round) = Len(step) + Len(cond) + Len(body) + 2
         /\ Len(all) = Len(init) + Len(step) + Len(cond) + Len(body) + 3
         /\ Len(loop) = Len(init) + Len(step) + Len(cond) + Len(body) + 5
    BY <1>1, <1>7, <1>9, <1>11, <1>13, <1>15, <1>17, <1>19, <1>20
  <1>22. CompileFor(init, cond, step, body) = loop
    <2>1. cond # <<>>
      OBVIOUS
    <2>2. round = <<Plain("LOOP_START")>> \o step \o (cond \o <<pop>>) \o body
      BY <1>start, <1>test, <1>both, <1>round
    <2>3. loop = init \o <<skip>> \o round \o <<jump>> \o <<Plain("LOOP_END")>>
      <3>1. all = init \o <<skip>> \o round
        BY <1>front, <1>all
      <3> QED
        BY <1>5, <1>16, <1>loop, <1>end, <3>1, SMTT(30)
    <2>4. Instr("JUMP_BACKWARD", Len(round) + 1) = jump
      BY <1>1, <1>21 DEF jump, Instr
    <2> QED
      BY <2>1, <2>2, <2>3, <2>4 DEF CompileFor, skip, pop
  <1>23. /\ both[1] = Plain("LOOP_START")
         /\ both[Len(step) + 2] = cond[1]
         /\ both[Len(step) + Len(cond) + 2] = pop
    <2>1. 1 \in 1 .. Len(start) /\ 1 \in 1 .. Len(test) /\ Len(cond) + 1 \in 1 .. Len(test)
      BY <1>1, <1>7, <1>9
    <2>2. /\ both[1] = start[1]
          /\ both[Len(start) + 1] = test[1]
          /\ both[Len(start) + (Len(cond) + 1)] = test[Len(cond) + 1]
      BY <1>11, <2>1
    <2>3. /\ Len(start) + 1 = Len(step) + 2
          /\ Len(start) + (Len(cond) + 1) = Len(step) + Len(cond) + 2
      BY <1>1, <1>7
    <2> QED
      BY <1>7, <1>9, <2>2, <2>3
  <1>24. /\ round[1] = Plain("LOOP_START")
         /\ round[Len(step) + 2] = cond[1]
         /\ round[Len(step) + Len(cond) + 2] = pop
    BY <1>1, <1>13, <1>21, <1>23
  <1>25. /\ all[Len(init) + 1] = skip
         /\ all[Len(init) + 2] = Plain("LOOP_START")
         /\ all[Len(init) + Len(step) + 3] = cond[1]
         /\ all[Len(init) + Len(step) + Len(cond) + 3] = pop
    <2>1. /\ Len(init) + 1 \in 1 .. Len(front)
          /\ 1 \in 1 .. Len(round)
          /\ Len(step) + 2 \in 1 .. Len(round)
          /\ Len(step) + Len(cond) + 2 \in 1 .. Len(round)
      BY <1>1, <1>15, <1>21
    <2>2. /\ all[Len(init) + 1] = front[Len(init) + 1]
          /\ all[Len(front) + 1] = round[1]
          /\ all[Len(front) + (Len(step) + 2)] = round[Len(step) + 2]
          /\ all[Len(front) + (Len(step) + Len(cond) + 2)] = round[Len(step) + Len(cond) + 2]
      BY <1>17, <2>1
    <2>3. /\ Len(front) + 1 = Len(init) + 2
          /\ Len(front) + (Len(step) + 2) = Len(init) + Len(step) + 3
          /\ Len(front) + (Len(step) + Len(cond) + 2) = Len(init) + Len(step) + Len(cond) + 3
      BY <1>1, <1>15
    <2> QED
      BY <1>15, <1>24, <2>2, <2>3
  <1>26. /\ loop[Len(init) + 1] = skip
         /\ loop[Len(init) + 2] = Plain("LOOP_START")
         /\ loop[Len(init) + Len(step) + 3] = cond[1]
         /\ loop[Len(init) + Len(step) + Len(cond) + 3] = pop
    <2>1. /\ Len(init) + 1 \in 1 .. Len(all)
          /\ Len(init) + 2 \in 1 .. Len(all)
          /\ Len(init) + Len(step) + 3 \in 1 .. Len(all)
          /\ Len(init) + Len(step) + Len(cond) + 3 \in 1 .. Len(all)
      BY <1>1, <1>21
    <2> QED
      BY <1>20, <1>25, <2>1
  <1>27. loop[Len(init) + Len(step) + Len(cond) + Len(body) + 4] = jump
    <2>1. loop[Len(all) + 1] = end[1]
      BY <1>19, <1>20
    <2>2. Len(all) + 1 = Len(init) + Len(step) + Len(cond) + Len(body) + 4
      BY <1>1, <1>21
    <2> QED
      BY <1>19, <2>1, <2>2
  <1> DEFINE enter == Len(init) + 1
             first == enter + 1 + Len(step) + 1
             exit == first + Len(cond)
             back == exit + Len(body) + 1
  <1>28. /\ loop[enter] = skip /\ loop[first] = cond[1]
         /\ loop[exit] = pop /\ loop[back] = jump
    <2>1. /\ first = Len(init) + Len(step) + 3
          /\ exit = Len(init) + Len(step) + Len(cond) + 3
          /\ back = Len(init) + Len(step) + Len(cond) + Len(body) + 4
      BY <1>1
    <2> QED
      BY <1>26, <1>27, <2>1
  <1>29. enter + 1 + skip.arg = first
    BY <1>1, <1>2
  <1>30. exit + 1 + pop.arg = Len(loop) + 1
    BY <1>1, <1>3, <1>21
  <1>31. back + 1 - jump.arg = Len(init) + 2
    BY <1>1, <1>4
  <1> QED
    BY <1>2, <1>3, <1>4, <1>22, <1>26, <1>28, <1>29, <1>30, <1>31 DEF Goal

-----------------------------------------------------------------------------
(* Recalculation.                                                          *)

Instructions(A) == [op : STRING, arg : A]

(* The instructions that are kept before i. *)
Before(code, i) == {j \in Kept(code) : j < i}

-----------------------------------------------------------------------------
(* The kept instructions are finitely many. *)
LEMMA KeptFinite ==
    ASSUME NEW code, Len(code) \in Nat
    PROVE  /\ Kept(code) \subseteq 1 .. Len(code)
           /\ IsFiniteSet(Kept(code))
           /\ Cardinality(Kept(code)) \in Nat
  <1>1. Kept(code) \subseteq 1 .. Len(code)
    BY DEF Kept
  <1>2. IsFiniteSet(1 .. Len(code))
    BY FS_Interval
  <1>3. IsFiniteSet(Kept(code))
    BY <1>1, <1>2, FS_Subset
  <1> QED
    BY <1>1, <1>3, FS_CardinalityType

(* A rank is a number. *)
LEMMA RankType ==
    ASSUME NEW code, Len(code) \in Nat, NEW i
    PROVE  /\ IsFiniteSet(Before(code, i))
           /\ Cardinality(Before(code, i)) \in Nat
           /\ Rank(code, i) = Cardinality(Before(code, i)) + 1
           /\ Rank(code, i) \in Nat
  <1>1. IsFiniteSet(Kept(code))
    BY KeptFinite
  <1>2. Before(code, i) \subseteq Kept(code)
    BY DEF Before
  <1>3. IsFiniteSet(Before(code, i))
    BY <1>1, <1>2, FS_Subset
  <1>4. Cardinality(Before(code, i)) \in Nat
    BY <1>3, FS_CardinalityType
  <1> QED
    BY <1>3, <1>4 DEF Rank, Before

(* What is kept gets a place of its own; what is not, that of the next.     *)
LEMMA RankNext ==
    ASSUME NEW code, Len(code) \in Nat, NEW i \in Int
    PROVE  Rank(code, i + 1) = IF i \in Kept(code) THEN Rank(code, i) + 1 ELSE Rank(code, i)
  <1>1. Kept(code) \subseteq Int
    BY KeptFinite
  <1>2. CASE i \in Kept(code)
    <2>1. Before(code, i + 1) = Before(code, i) \cup {i}
      BY <1>1, <1>2 DEF Before
    <2>2. i \notin Before(code, i)
      BY DEF Before
    <2>3. Cardinality(Before(code, i + 1)) = Cardinality(Before(code, i)) + 1
      BY <2>1, <2>2, RankType, FS_AddElement
    <2> QED
      BY <1>2, <2>3, RankType
  <1>3. CASE i \notin Kept(code)
    <2>1. Before(code, i + 1) = Before(code, i)
      BY <1>1, <1>3 DEF Before
    <2> QED
      BY <1>3, <2>1, RankType
  <1> QED
    BY <1>2, <1>3

(* Ranks do not decrease. *)
LEMMA RankMonotone ==
    ASSUME NEW code, Len(code) \in Nat, NEW i \in Int, NEW j \in Int, i <= j
    PROVE  Rank(code, i) <= Rank(code, j)
  <1>1. Kept(code) \subseteq Int
    BY KeptFinite
  <1>2. Before(code, i) \subseteq Before(code, j)
    BY <1>1 DEF Before
  <1>3. Cardinality(Before(code, i)) <= Cardinality(Before(code, j))
    BY <1>2, RankType, FS_Subset
  <1> QED
    BY <1>3, RankType

(* A kept instruction has a lower rank than every later place. *)
LEMMA RankStrict ==
    ASSUME NEW code, Len(code) \in Nat, NEW i \in Kept(code), NEW j \in Int, i < j
    PROVE  Rank(code, i) < Rank(code, j)
  <1>1. i \in Int
    BY KeptFinite
  <1>2. Rank(code, i + 1) = Rank(code, i) + 1
    BY <1>1, RankNext
  <1>3. Rank(code, i + 1) <= Rank(code, j)
    BY <1>1, RankMonotone
  <1> QED
    BY <1>2, <1>3, RankType

(* The rank of a kept instruction is a place of the new code. *)
LEMMA RankInPlaces ==
    ASSUME NEW code, Len(code) \in Nat, NEW i \in Kept(code)
    PROVE  Rank(code, i) \in Places(code)
  <1>1. IsFiniteSet(Kept(code)) /\ Cardinality(Kept(code)) \in Nat
    BY KeptFinite
  <1>2. Before(code, i) \subseteq Kept(code) /\ i \notin Before(code, i)
    BY KeptFinite DEF Before
  <1>3. Cardinality(Before(code, i)) <= Cardinality(Kept(code))
    BY <1>1, <1>2, FS_Subset
  <1>4. Cardinality(Before(code, i)) # Cardinality(Kept(code))
    BY <1>1, <1>2, FS_Subset
  <1> QED
    BY <1>1, <1>3, <1>4, RankType DEF Places

(* Instructions move to the front only. *)
LEMMA RankBelow ==
    ASSUME NEW code, Len(code) \in Nat, NEW i \in Kept(code)
    PROVE  Rank(code, i) <= i
  <1>1. i \in Nat \ {0}
    BY KeptFinite
  <1>2. Before(code, i) \subseteq 1 .. (i - 1)
    BY <1>1, KeptFinite DEF Before
  <1>3. IsFiniteSet(1 .. (i - 1)) /\ Cardinality(1 .. (i - 1)) = i - 1
    <2>1. 1 \in Int /\ i - 1 \in Int
      BY <1>1
    <2>2. /\ IsFiniteSet(1 .. (i - 1))
          /\ Cardinality(1 .. (i - 1)) = IF 1 > i - 1 THEN 0 ELSE i - 1 - 1 + 1
      BY <2>1, FS_Interval
    <2> QED
      BY <1>1, <2>2
  <1>4. Cardinality(Before(code, i)) <= i - 1
    BY <1>2, <1>3, FS_Subset
  <1> QED
    BY <1>1, <1>4, RankType

(* The instruction that comes to a rank is the kept one of that rank. *)
LEMMA PlaceOfRank ==
    ASSUME NEW code, Len(code) \in Nat, NEW i \in Kept(code)
    PROVE  Place(code, Rank(code, i)) = i
  <1> DEFINE IsPlace(p) == p >= Rank(code, i) /\ Rank(code, p) = Rank(code, i)
             place == CHOOSE p \in Kept(code) : IsPlace(p)
  <1>1. Kept(code) \subseteq Int
    BY KeptFinite
  <1>2. IsPlace(i)
    BY <1>1, RankBelow, RankType
  <1>3. place \in Kept(code) /\ IsPlace(place)
    BY <1>2
  <1>4. ~(place < i)
    BY <1>1, <1>3, RankStrict, RankType
  <1>5. ~(i < place)
    BY <1>1, <1>3, RankStrict, RankType
  <1>6. place = i
    BY <1>1, <1>3, <1>4, <1>5
  <1> QED
    BY <1>6 DEF Place

-----------------------------------------------------------------------------
(* A jump with a new target is the same jump. *)
LEMMA RetargetedType ==
    ASSUME NEW A, NEW code \in Seq(Instructions(A)), NEW i \in Kept(code)
    PROVE  /\ code[i] \in Instructions(A)
           /\ Retargeted(code, i).op = code[i].op
  <1>1. code[i] \in Instructions(A)
    BY KeptFinite
  <1> QED
    BY <1>1 DEF Retargeted, Instructions

(* Recalculate puts what it makes of an instruction where its rank says.    *)
LEMMA RecalculateAtRank ==
    ASSUME NEW A, NEW code \in Seq(Instructions(A)), NEW i \in Kept(code)
    PROVE  /\ Rank(code, i) \in 1 .. Len(Recalculate(code))
           /\ Recalculate(code)[Rank(code, i)] = Retargeted(code, i)
  <1> DEFINE new == [r \in Places(code) |-> Retargeted(code, Place(code, r))]
             S == {new[r] : r \in Places(code)}
  <1>1. Cardinality(Kept(code)) \in Nat
    BY KeptFinite
  <1>2. new \in Seq(S)
    BY <1>1 DEF Places
  <1>3. Len(new) = Cardinality(Kept(code))
    BY <1>1 DEF Places
  <1>4. Recalculate(code) = new
    BY <1>2, ConcatEmptySeq DEF Recalculate, Whole
  <1>5. Rank(code, i) \in Places(code)
    BY RankInPlaces
  <1>6. new[Rank(code, i)] = Retargeted(code, i)
    BY <1>5, PlaceOfRank
  <1> QED
    BY <1>3, <1>4, <1>5, <1>6 DEF Places

(* A jump in code the compiler or a pass has made: it leads to a place of   *)
(* the code, where the way goes on.                                         *)
IsJump(code, i) ==
    /\ i \in Kept(code)
    /\ code[i].op \in Jumps
    /\ code[i].arg \in Nat
    /\ JumpTarget(code, i) \in 1 .. Len(code)
    /\ IF code[i].op = "JUMP_BACKWARD"
       THEN \E j \in Kept(code) : j <= JumpTarget(code, i) /\ (j > 1 \/ j = JumpTarget(code, i))
       ELSE \E j \in Kept(code) : j >= JumpTarget(code, i)

(* Jumps whose target is inside the code or at its end are the ones that
   get a new target. *)
LEMMA JumpIsRetargeted ==
    ASSUME NEW code, Len(code) \in Nat, NEW i, IsJump(code, i)
    PROVE  CanRetarget(code, i)
  <1> DEFINE t == JumpTarget(code, i)
  <1>1. i \in Kept(code) /\ i \in Int /\ t \in Int
    BY KeptFinite DEF IsJump
  <1>2. CASE code[i].op = "JUMP_BACKWARD"
    <2>1. t <= i
      BY <1>1, <1>2 DEF IsJump, JumpTarget
    <2>2. Rank(code, t) <= Rank(code, i)
      BY <1>1, <2>1, RankMonotone
    <2>3. NewTarget(code, i) <= Rank(code, i)
      BY <1>1, <2>2, RankType DEF NewTarget
    <2> QED
      BY <1>2, <2>3 DEF IsJump, CanRetarget
  <1>3. CASE code[i].op # "JUMP_BACKWARD"
    <2>1. i < t
      BY <1>1, <1>3 DEF IsJump, JumpTarget
    <2>2. Rank(code, i) < Rank(code, t)
      BY <1>1, <2>1, RankStrict
    <2>3. NewTarget(code, i) = Rank(code, t)
      BY <1>3, RankType DEF NewTarget
    <2> QED
      BY <1>3, <2>2, <2>3, RankType DEF IsJump, CanRetarget
  <1> QED
    BY <1>2, <1>3

(* Wherever the NOPs are, the jump leads to the same instruction as before, *)
(* or if that one is deleted to the next one that is not.  The place too    *)
(* early that get_jump_target gives for JUMP_BACKWARD makes no difference.  *)
THEOREM DestinationsKept ==
    ASSUME NEW A, NEW code \in Seq(Instructions(A)), NEW i, IsJump(code, i)
    PROVE  /\ Rank(code, i) \in 1 .. Len(Recalculate(code))
           /\ Recalculate(code)[Rank(code, i)].op = code[i].op
           /\ Destination(Recalculate(code), Rank(code, i)) = Rank(code, Destination(code, i))
  <1> DEFINE t == JumpTarget(code, i)
             r == Rank(code, i)
             new == Recalculate(code)[r]
  <1>1. /\ i \in Kept(code) /\ i \in Int /\ t \in Int
        /\ code[i].op \in Jumps
        /\ code[i].arg \in Nat
    BY KeptFinite DEF IsJump
  <1>2. /\ r \in 1 .. Len(Recalculate(code))
        /\ new = Retargeted(code, i)
    BY <1>1, RecalculateAtRank
  <1>3. /\ new.op = code[i].op
        /\ code[i] \in Instructions(A)
    BY <1>1, <1>2, RetargetedType
  <1>4. new.arg = Offset(code[i].op, r, NewTarget(code, i))
    <2>1. CanRetarget(code, i)
      BY JumpIsRetargeted
    <2> QED
      BY <1>1, <1>2, <1>3, <2>1 DEF Retargeted, Instructions
  <1>5. r \in Nat /\ Rank(code, t) \in Nat
    BY RankType
  <1>6. CASE code[i].op = "JUMP_BACKWARD"
    <2>1. Destination(code, i) = t + 1
      BY <1>1, <1>6 DEF Destination, JumpTarget
    <2>2. Rank(code, t + 1) = IF t \in Kept(code) THEN Rank(code, t) + 1 ELSE Rank(code, t)
      <3>1. Len(code) \in Nat
        OBVIOUS
      <3> QED
        BY <1>1, <3>1, RankNext
    <2>3. /\ NewTarget(code, i) \in Int
          /\ Rank(code, t + 1) = NewTarget(code, i) + 1
      <3>1. CASE t \in Kept(code)
        <4>1. NewTarget(code, i) = Rank(code, t) - 0
          BY <3>1 DEF NewTarget
        <4> QED
          BY <1>5, <2>2, <3>1, <4>1
      <3>2. CASE t \notin Kept(code)
        <4>1. NewTarget(code, i) = Rank(code, t) - 1
          BY <1>6, <3>2 DEF NewTarget
        <4> QED
          BY <1>5, <2>2, <3>2, <4>1
      <3> QED
        BY <3>1, <3>2
    <2>4. Destination(Recalculate(code), r) = r + 1 - (r - NewTarget(code, i))
      BY <1>3, <1>4, <1>6 DEF Destination, Offset
    <2> QED
      BY <1>2, <1>3, <1>5, <2>1, <2>3, <2>4
  <1>7. CASE code[i].op # "JUMP_BACKWARD"
    <2>1. Destination(code, i) = t
      BY <1>7 DEF Destination, JumpTarget
    <2>2. NewTarget(code, i) = Rank(code, t)
      BY <1>5, <1>7 DEF NewTarget
    <2>3. Destination(Recalculate(code), r) = r + 1 + (Rank(code, t) - r - 1)
      BY <1>3, <1>4, <1>7, <2>2 DEF Destination, Offset
    <2> QED
      BY <1>2, <1>3, <1>5, <2>1, <2>3
  <1> QED
    BY <1>6, <1>7

(* What is no jump is moved as it is, and nothing overtakes anything.       *)
THEOREM OthersKept ==
    ASSUME NEW A, NEW code \in Seq(Instructions(A)),
           NEW i \in Kept(code), code[i].op \notin Jumps, NEW j \in Kept(code)
    PROVE  /\ Recalculate(code)[Rank(code, i)] = code[i]
           /\ i < j <=> Rank(code, i) < Rank(code, j)
  <1>1. i \in Int /\ j \in Int
    BY KeptFinite
  <1>2. Recalculate(code)[Rank(code, i)] = code[i]
    BY RecalculateAtRank DEF Retargeted
  <1>3. i < j => Rank(code, i) < Rank(code, j)
    BY <1>1, RankStrict
  <1>4. j <= i => Rank(code, j) <= Rank(code, i)
    BY <1>1, RankMonotone
  <1> QED
    BY <1>1, <1>2, <1>3, <1>4, RankType
=============================================================================
