--------------------------------- MODULE Emit ---------------------------------
(***************************************************************************)
(* compiler/compiler.c: the code of an expression or a statement, given    *)
(* the code of its parts.  An operator Compile... puts them together as    *)
(* the function of that name does: order, markers and jump offsets.        *)
(*                                                                         *)
(* The tables of constants, global and local names are abstracted: an      *)
(* instruction holds the constant or the name itself, and LOAD and STORE   *)
(* stand for the _FAST and the _GLOBAL form.  Every name is declared       *)
(* before its use, as the language demands: the NOP that stands for an     *)
(* undeclared one (compiler.c:790) is not here.  Offsets are below 2^24.   *)
(***************************************************************************)
EXTENDS Integers, Sequences, SequencesExt

Instr(op, arg) == [op |-> op, arg |-> arg]
Plain(op) == Instr(op, 0)

-----------------------------------------------------------------------------
(* Expressions. *)
CompileConst(c) == <<Instr("LOAD_CONST", c)>>
CompileVariable(x) == <<Instr("LOAD", x)>>
CompileUnary(o, operand) == operand \o <<Instr("UNARY_OP", o)>>
CompileBinary(o, operands) == operands \o <<Instr("BINARY_OP", o)>>

(* Mutant of CompileCall: nothing separates the callee from the arguments.  *)
CompileCallBare(f, args, count) ==
    CompileVariable(f) \o args \o <<Instr("CALL_FUNCTION", count)>>

CompileCall(f, args, count) ==
    CompileVariable(f) \o <<Plain("PUSH_NULL")>> \o args \o <<Instr("CALL_FUNCTION", count)>>
CompileArray(elements, count) == elements \o <<Instr("BUILD_ARRAY", count)>>
CompileSubscript(arrayAndIndex) == arrayAndIndex \o <<Plain("LOAD_SUBSCR")>>

-----------------------------------------------------------------------------
(* Statements without jumps.  The value of an expression statement stays    *)
(* on the operand stack; one that is an array or an element of one is       *)
(* refused with a message, and the compiler goes on without it.             *)
CompileExpressionStatement(kind, value) ==
    IF kind \in {"array", "subscript"} THEN <<>> ELSE value

(* A declaration without a value compiles as if it had the value none.      *)
CompileStore(x, value) == value \o <<Instr("STORE", x)>>
CompileStoreItem(array, index, value) ==
    value \o array \o index \o <<Plain("STORE_SUBSCR")>>

(* The size of an array is compiled even if there is an initializer; then   *)
(* nothing consumes it.  The parser demands a size (parser.c:656), so that  *)
(* the branch for a declaration without one (:915) is never taken and left  *)
(* out.                                                                     *)
CompileArrayDeclaration(x, size, init) ==
    size \o (IF init = <<>> THEN <<Instr("BUILD_ARRAY", 0)>> ELSE init) \o <<Instr("STORE", x)>>

CompileFunctionDeclaration(f) ==
    <<Instr("LOAD_CONST", f), Plain("MAKE_FUNCTION"), Instr("STORE", f)>>

CompileReturn(value) == value \o <<Plain("RETURN_VALUE")>>

-----------------------------------------------------------------------------
(* Jumps.  An offset counts from the instruction after the jump.  Those of  *)
(* the jumps that belong to an elif are never filled in.                    *)

(* Mutant of CompileIf: a false condition does not skip the branch's jump.  *)
CompileIfShort(cond, then, elifs, else) ==
    cond \o <<Instr("POP_JUMP_IF_FALSE", Len(then))>>
         \o then \o <<Instr("JUMP_FORWARD", Len(FlattenSeq(else)))>>
         \o FlattenSeq(else)

CompileIf(cond, then, elifs, else) ==
    LET ElifCode(i) ==
            elifs[i].cond \o <<Instr("POP_JUMP_IF_FALSE", 0)>> \o elifs[i].then
                \o (IF i < Len(elifs) \/ else # <<>> THEN <<Instr("JUMP_FORWARD", 0)>> ELSE <<>>)
        rest == FlattenSeq([i \in DOMAIN elifs |-> ElifCode(i)]) \o FlattenSeq(else)
    IN  cond \o <<Instr("POP_JUMP_IF_FALSE", Len(then) + 1)>>
             \o then \o <<Instr("JUMP_FORWARD", Len(rest))>>
             \o rest

(* Mutants of CompileWhile: the exit is one too far, there is no LOOP_END,  *)
(* the way back does not count the condition.                               *)
CompileWhileFar(cond, body) ==
    <<Plain("LOOP_START")>> \o cond \o <<Instr("POP_JUMP_IF_FALSE", Len(body) + 3)>>
        \o body \o <<Instr("JUMP_BACKWARD", Len(cond) + 1 + Len(body) + 1)>>
        \o <<Plain("LOOP_END")>>
CompileWhileOpen(cond, body) ==
    <<Plain("LOOP_START")>> \o cond \o <<Instr("POP_JUMP_IF_FALSE", Len(body) + 1)>>
        \o body \o <<Instr("JUMP_BACKWARD", Len(cond) + 1 + Len(body) + 1)>>
CompileWhileBody(cond, body) ==
    <<Plain("LOOP_START")>> \o cond \o <<Instr("POP_JUMP_IF_FALSE", Len(body) + 2)>>
        \o body \o <<Instr("JUMP_BACKWARD", Len(body) + 1)>>
        \o <<Plain("LOOP_END")>>

CompileWhile(cond, body) ==
    <<Plain("LOOP_START")>> \o cond \o <<Instr("POP_JUMP_IF_FALSE", Len(body) + 2)>>
        \o body \o <<Instr("JUMP_BACKWARD", Len(cond) + 1 + Len(body) + 1)>>
        \o <<Plain("LOOP_END")>>

(* The first jump skips the step; without a condition it skips only the     *)
(* LOOP_START, so the step is executed before the first round as well.      *)
CompileFor(init, cond, step, body) ==
    LET test == IF cond = <<>> THEN <<>>
                ELSE cond \o <<Instr("POP_JUMP_IF_FALSE", Len(body) + 2)>>
        loop == <<Plain("LOOP_START")>> \o step \o test \o body
        skip == IF cond = <<>> THEN 1 ELSE Len(step) + 1
    IN  init \o <<Instr("JUMP_FORWARD", skip)>>
             \o loop \o <<Instr("JUMP_BACKWARD", Len(loop) + 1)>>
             \o <<Plain("LOOP_END")>>
=============================================================================
