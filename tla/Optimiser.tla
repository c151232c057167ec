------------------------------- MODULE Optimiser -------------------------------
(***************************************************************************)
(* The passes of the optimiser in their order (jit_compile_function of     *)
(* jit/jit.c).                                                             *)
(***************************************************************************)
EXTENDS ConstantFolding, DeadCode

(* The first two passes do nothing for a function without constants.       *)
Optimised(code) ==
    IF \E i \in DOMAIN code : IsConst(code[i])
    THEN EliminateDeadCode(ReplacePatterns(FoldConstants(code)))
    ELSE EliminateDeadCode(code)
================================================================================
