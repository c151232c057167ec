------------------------------- MODULE DeadCode -------------------------------
(***************************************************************************)
(* jit/dce.c: loops that seem to have no effect are deleted, and so are    *)
(* loads whose value is dropped at once.                                   *)
(*                                                                         *)
(* A function has at most 256 locals: the code keeps their indices in one  *)
(* byte.                                                                   *)
(***************************************************************************)
EXTENDS Patterns, Markers

Loads == {"LOAD_CONST", "LOAD", "PUSH_NULL"}

(* The instructions between the LOOP_START at i and its LOOP_END.           *)
IsLoop(code, i) == code[i].op = "LOOP_START" /\ LoopEnds(code, i + 1) # {}
LoopEnd(code, i) == Min(LoopEnds(code, i + 1))
Inside(code, i) == i + 1 .. LoopEnd(code, i) - 1

DeleteLoop(code, i) == Delete(code, i .. LoopEnd(code, i))

Used(code, x, places) == \E j \in places : code[j].op = "LOAD" /\ code[j].arg = x

-----------------------------------------------------------------------------
(* remove_empty_loops: nothing inside but loads, operators, conditions,     *)
(* jumps, and stores to locals that are not loaded anywhere.                *)
Harmless ==
    {"NOP", "JUMP_BACKWARD", "JUMP_FORWARD", "CONTINUE_LOOP", "BREAK_LOOP", "LOOP_START",
     "LOOP_END", "POP_JUMP_IF_FALSE", "BINARY_OP", "UNARY_OP", "POP_TOP"} \cup Loads

IsEmptyLoop(code, i) ==
    /\ IsLoop(code, i)
    /\ \A k \in Inside(code, i) :
         \/ code[k].op \in Harmless
         \/ StoresLocal(code[k]) /\ ~Used(code, code[k].arg, 1 .. Len(code))

(* remove_empty_loops_aggressive: no effect outside the activation inside,  *)
(* and no local stored inside is loaded outside.                            *)
HasEffect(c) ==
    \/ c.op \in {"CALL_FUNCTION", "STORE_SUBSCR", "DEL_SUBSCR", "RETURN_VALUE", "COMPARE_AND_SWAP"}
    \/ c.op = "STORE" /\ ~StoresLocal(c)

(* Mutant of IsDeadLoop: what the loop computes may be used afterwards.     *)
IsDeadLoopUsed(code, i) ==
    IsLoop(code, i) /\ \A k \in Inside(code, i) : ~HasEffect(code[k])

IsDeadLoop(code, i) ==
    /\ IsLoop(code, i)
    /\ \A k \in Inside(code, i) :
         /\ ~HasEffect(code[k])
         /\ StoresLocal(code[k]) =>
              ~Used(code, code[k].arg, 1 .. Len(code) \ Inside(code, i))

RemoveLoops(Removable(_, _), code) ==
    LET Visit(c, i) == IF Removable(c, i) THEN DeleteLoop(c, i) ELSE c
    IN  FoldLeftDomain(Visit, code, code)

-----------------------------------------------------------------------------
(* remove_dead_loads: a load before a POP_TOP goes with it, if nothing that *)
(* follows uses the stack.  The jumps are not recalculated.                 *)
UsesStack ==
    {"STORE", "STORE_SUBSCR", "CALL_FUNCTION", "RETURN_VALUE", "BINARY_OP", "UNARY_OP"}

DeadLoads(code) ==
    {i \in 1 .. Len(code) :
        /\ code[i].op \in {"LOAD_CONST", "LOAD"}
        /\ i < Len(code) /\ code[i + 1].op = "POP_TOP"
        /\ \A k \in i + 2 .. Len(code) : code[k].op \notin UsesStack}

RemoveDeadLoads(code) ==
    Compact(Delete(code, DeadLoads(code) \cup {i + 1 : i \in DeadLoads(code)}))

-----------------------------------------------------------------------------
(* validate_bytecode_stack: the depth of the stack if the code is executed  *)
(* from the first instruction to the last, jumps ignored; Underflow once an *)
(* instruction finds too few operands.  Element loads and stores, arrays    *)
(* and swaps are counted wrongly or not at all.                             *)
Underflow == -1

Takes(c) ==
    CASE c.op = "CALL_FUNCTION" -> c.arg
      [] c.op \in {"BINARY_OP", "COMPARE_AND_SWAP"} -> 2
      [] c.op \in {"UNARY_OP", "STORE", "STORE_SUBSCR", "DEL_SUBSCR", "RETURN_VALUE", "POP_TOP",
                   "POP_JUMP_IF_FALSE"} -> 1
      [] OTHER -> 0

Leaves(c) ==
    IF c.op \in Loads \cup {"CALL_FUNCTION", "BINARY_OP", "COMPARE_AND_SWAP", "UNARY_OP"}
    THEN 1 ELSE 0

Depth(depth, c) ==
    IF depth = Underflow \/ depth < Takes(c) THEN Underflow ELSE depth - Takes(c) + Leaves(c)

IsBalanced(code) == FoldLeft(Depth, 0, code) # Underflow

-----------------------------------------------------------------------------
MaxRounds == 10

(* optimize_dead_vars_and_loops and the rest of a round.                    *)
Round(code) ==
    Recalculate(RemoveDeadLoads(Recalculate(
        RemoveLoops(IsDeadLoop, RemoveLoops(IsEmptyLoop, code)))))

RECURSIVE Rounds(_, _)
Rounds(code, n) ==
    LET next == Round(code)
    IN  IF Len(next) = Len(code) \/ n = 1 THEN next ELSE Rounds(next, n - 1)

(* jit_optimize_dce: code that is not balanced is thrown away.              *)
EliminateDeadCode(code) ==
    LET result == Rounds(code, MaxRounds)
    IN  IF Len(result) < Len(code) /\ IsBalanced(result) THEN result ELSE code
=============================================================================
