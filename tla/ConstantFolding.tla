---------------------------- MODULE ConstantFolding ----------------------------
(***************************************************************************)
(* jit/const_folding.c: operations on constants are done beforehand, and   *)
(* conditions that are constants decided.                                  *)
(*                                                                         *)
(* An instruction LOAD_CONST holds the constant itself, so the search for  *)
(* an equal one in the table of constants leaves no trace.  The limit of   *)
(* 101 rounds is left out: a round folds at least one chain, and no code   *)
(* here has as many.                                                       *)
(***************************************************************************)
EXTENDS Rewriting, Values

Constant(v) == Instr("LOAD_CONST", v)
IsConst(c) == c.op = "LOAD_CONST"

IsFoldable(a, b, op) ==
    CASE op \in ArithmeticOps -> Both(a, b, "int")
      [] op \in CompareOps -> Both(a, b, "int") \/ Both(a, b, "bool")
      [] op \in LogicOps -> Both(a, b, "bool")

(* The order of booleans, false in the machine, folds to none.              *)
FoldBinary(a, b, op) ==
    CASE Both(a, b, "int") -> IntValue(op, a.n, b.n)
      [] Both(a, b, "bool") /\ op \in LogicOps -> Boolean(Logic(op, a, b))
      [] Both(a, b, "bool") /\ op \in {"==", "!="} -> Boolean(Compare(op, a.n, b.n))
      [] OTHER -> None

-----------------------------------------------------------------------------
(* aggressive_constant_folding: two constants and an operator.  The         *)
(* operator may come behind NOPs; the two instructions after the first      *)
(* constant are deleted in any case.                                        *)

IsPair(code, i) ==
    LET o == SkipNops(code, i + 2)
    IN  /\ o <= Len(code)
        /\ IsConst(code[i]) /\ IsConst(code[i + 1]) /\ code[o].op = "BINARY_OP"
        /\ IsFoldable(code[i].arg, code[i + 1].arg, code[o].arg)

(* Mutant of FoldPairsOnce: the operator stays.                             *)
FoldPairsOnceShort(code) ==
    LET pairs == {i \in 1 .. Len(code) : IsPair(code, i)}
    IN  [i \in 1 .. Len(code) |->
            IF i \in pairs
            THEN Constant(FoldBinary(code[i].arg, code[i + 1].arg, code[SkipNops(code, i + 2)].arg))
            ELSE IF i - 1 \in pairs THEN Nop
            ELSE code[i]]

FoldPairsOnce(code) ==
    LET pairs == {i \in 1 .. Len(code) : IsPair(code, i)}
    IN  [i \in 1 .. Len(code) |->
            IF i \in pairs
            THEN Constant(FoldBinary(code[i].arg, code[i + 1].arg, code[SkipNops(code, i + 2)].arg))
            ELSE IF {i - 1, i - 2} \cap pairs # {} THEN Nop
            ELSE code[i]]

RECURSIVE FoldPairs(_)
FoldPairs(code) ==
    IF \E i \in 1 .. Len(code) : IsPair(code, i) THEN FoldPairs(Recalculate(FoldPairsOnce(code)))
    ELSE code

-----------------------------------------------------------------------------
(* fold_operation_chain: a run of constants and arithmetic operators from   *)
(* the constant at i.  It is evaluated from left to right as if each        *)
(* operator stood between the constants around it, whatever the stack; an   *)
(* operator at the end, whose second operand is this constant, is dropped.  *)
InChain(c) == IsConst(c) \/ (c.op = "BINARY_OP" /\ c.arg \in ArithmeticOps)

ChainEnd(code, i) ==
    Max({j \in Kept(code) : j >= i /\ \A k \in Kept(code) \cap (i .. j) : InChain(code[k])})

Chain(code, i) ==
    LET NoOp == "none"
        Extend(c, ins) ==
            CASE c.stopped -> c
              [] ~c.stopped /\ ~IsConst(ins) -> [c EXCEPT !.op = ins.arg]
              [] ~c.stopped /\ IsConst(ins) /\ c.op = NoOp -> c
              [] OTHER -> IF IsFoldable(c.value, ins.arg, c.op)
                          THEN [c EXCEPT !.value = FoldBinary(@, ins.arg, c.op), !.folded = TRUE]
                          ELSE [c EXCEPT !.stopped = TRUE]
        run == SelectSeq(SubSeq(code, i + 1, ChainEnd(code, i)), LAMBDA ins : ins.op # "NOP")
    IN  FoldLeft(Extend, [value |-> code[i].arg, op |-> NoOp, folded |-> FALSE, stopped |-> FALSE], run)

FoldsAt(code) ==
    {i \in 1 .. Len(code) : IsConst(code[i]) /\ ChainEnd(code, i) >= i + 2 /\ Chain(code, i).folded}

(* find_and_fold_chains folds the first chain that it can.                  *)
FoldChain(code) ==
    IF FoldsAt(code) = {} THEN code
    ELSE LET i == Min(FoldsAt(code))
             gone == i + 1 .. ChainEnd(code, i)
         IN  Recalculate([Delete(code, gone) EXCEPT ![i] = Constant(Chain(code, i).value)])

-----------------------------------------------------------------------------
(* optimize_constant_ifs: only booleans and integers can be true.           *)
FoldConditions(code) ==
    LET jump(i) == SkipNops(code, i + 1)
        tested == {i \in 1 .. Len(code) : /\ IsConst(code[i])
                                       /\ jump(i) <= Len(code)
                                       /\ code[jump(i)].op = "POP_JUMP_IF_FALSE"}
        never == {jump(i) : i \in {j \in tested : Truth(code[j].arg)}}
        always == {jump(i) : i \in tested} \ never
    IN  Recalculate([i \in 1 .. Len(code) |->
            IF i \in tested \cup never THEN Nop
            ELSE IF i \in always THEN Instr("JUMP_FORWARD", code[i].arg)
            ELSE code[i]])

-----------------------------------------------------------------------------
(* jit_optimize_constant_folding: until a round changes nothing; one that does *)
(* leaves fewer instructions.                                               *)
RECURSIVE FoldConstants(_)
FoldConstants(code) ==
    LET round == FoldConditions(FoldChain(FoldPairs(code)))
    IN  IF Len(round) = Len(code) THEN code ELSE FoldConstants(round)
=============================================================================
