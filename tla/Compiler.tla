------------------------------- MODULE Compiler -------------------------------
(***************************************************************************)
(* compiler/compiler.c: the code of the trees of module Program, put       *)
(* together by the operators of module Emit.                               *)
(***************************************************************************)
EXTENDS Program, Emit

RECURSIVE ExprCode(_)
ExprCode(e) ==
    LET parts == FlattenSeq([i \in DOMAIN e.parts |-> ExprCode(e.parts[i])])
    IN  CASE e.is = "const" -> CompileConst(e.name)
          [] e.is = "var" -> CompileVariable(e.name)
          [] e.is = "unary" -> CompileUnary(e.name, parts)
          [] e.is = "binary" -> CompileBinary(e.name, parts)
          [] e.is = "call" -> CompileCall(e.name, parts, Len(e.parts))
          [] e.is = "array" -> CompileArray(parts, Len(e.parts))
          [] e.is = "subscript" -> CompileSubscript(parts)

-----------------------------------------------------------------------------
(* compiler_compile_statement, compiler_compile_block_statement.            *)
RECURSIVE Code(_)
Block(statements) == FlattenSeq([i \in DOMAIN statements |-> Code(statements[i])])
Part(exprs) == FlattenSeq([i \in DOMAIN exprs |-> ExprCode(exprs[i])])

Code(s) ==
    CASE s.is = "expression" -> CompileExpressionStatement(s.value.is, ExprCode(s.value))
      [] s.is = "assign" -> CompileStore(s.name, ExprCode(s.value))
      [] s.is = "assignItem" ->
            CompileStoreItem(ExprCode(s.array), ExprCode(s.index), ExprCode(s.value))
      [] s.is = "array" -> CompileArrayDeclaration(s.name, ExprCode(s.size), Part(s.init))
      [] s.is = "function" -> CompileFunctionDeclaration(s.name)
      [] s.is = "return" -> CompileReturn(ExprCode(s.value))
      [] s.is = "if" ->
            CompileIf(ExprCode(s.cond), Block(s.then),
                      [i \in DOMAIN s.elifs |-> [cond |-> ExprCode(s.elifs[i].cond),
                                                 then |-> Block(s.elifs[i].then)]],
                      [i \in DOMAIN s.else |-> Block(s.else[i])])
      [] s.is = "loop" -> CompileWhile(ExprCode(s.cond[1]), Block(s.body))
      [] s.is = "for" -> CompileFor(Block(s.init), Part(s.cond), Block(s.step), Block(s.body))
      [] s.is = "break" -> <<Plain("BREAK_LOOP")>>
      [] s.is = "continue" -> <<Plain("CONTINUE_LOOP")>>

(* The body of a function.  One of return type none that does not end in a  *)
(* return gets "return none", unless it is empty.                           *)
CompileFunction(f) ==
    LET body == Block(f.body)
    IN  IF f.returnsNone /\ body # <<>> /\ Last(body).op # "RETURN_VALUE"
        THEN body \o CompileConst("none") \o <<Plain("RETURN_VALUE")>>
        ELSE body
=============================================================================
