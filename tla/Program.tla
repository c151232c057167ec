------------------------------- MODULE Program -------------------------------
(***************************************************************************)
(* Programs as trees, and what they do: the meaning of statements as the   *)
(* language specification and the tests give it, against which the         *)
(* compiler and the machine are checked.                                   *)
(*                                                                         *)
(* A program does events: it calls a function, stores into a variable or   *)
(* an element, tests a condition, returns a value.  Values are symbolic:   *)
(* the value of an expression is its tree.  So a test may come out either  *)
(* way, and two events are the same only if they concern the same          *)
(* expression.                                                             *)
(*                                                                         *)
(* What remains to be done is a sequence of statements, events and the     *)
(* marks of the loops being executed, innermost first.                     *)
(***************************************************************************)
EXTENDS Integers, Sequences, SequencesExt

-----------------------------------------------------------------------------
(* Expressions (AST/ast.h).  A callee is a name: the parser makes no other. *)

Expr(is, name, parts) == [is |-> is, name |-> name, parts |-> parts]

Const(c) == Expr("const", c, <<>>)
Var(x) == Expr("var", x, <<>>)
Unary(o, e) == Expr("unary", o, <<e>>)
Binary(o, l, r) == Expr("binary", o, <<l, r>>)
CallOf(f, args) == Expr("call", f, args)
ArrayOf(elements) == Expr("array", "", elements)
Subscript(a, i) == Expr("subscript", "", <<a, i>>)

(* Values that no expression of a program denotes: a new array of a size,   *)
(* a function made from its code, and the NULL of PUSH_NULL.                *)
Sized(size) == Expr("sized", "", <<size>>)
Function(f) == Expr("function", f, <<>>)
NoneValue == Const("none")
Null == Expr("null", "", <<>>)

(* Statements.  A block is a sequence of statements; a part that may be     *)
(* missing is a sequence of at most one.                                    *)
Expression(e) == [is |-> "expression", value |-> e]
Assign(x, e) == [is |-> "assign", name |-> x, value |-> e]
AssignItem(a, i, e) == [is |-> "assignItem", array |-> a, index |-> i, value |-> e]
DeclareArray(x, size, init) ==
    [is |-> "array", name |-> x, size |-> size, init |-> init]
DeclareFunction(f) == [is |-> "function", name |-> f]
Return(e) == [is |-> "return", value |-> e]
If(c, then, elifs, else) ==
    [is |-> "if", cond |-> c, then |-> then, elifs |-> elifs, else |-> else]
Elif(c, then) == [cond |-> c, then |-> then]
While(c, body) ==
    [is |-> "loop", init |-> <<>>, cond |-> <<c>>, step |-> <<>>, body |-> body]
For(init, cond, step, body) ==
    [is |-> "for", init |-> init, cond |-> cond, step |-> step, body |-> body]
Break == [is |-> "break"]
Continue == [is |-> "continue"]

-----------------------------------------------------------------------------
(* Events. *)
Event(what, about) == [is |-> "event", what |-> what, about |-> about]

(* The calls in an expression, in the order in which they are made:         *)
(* operands from left to right, arguments before the call.  "and" and "or"  *)
(* evaluate both operands.                                                  *)
RECURSIVE Calls(_)
Calls(e) ==
    FlattenSeq([i \in DOMAIN e.parts |-> Calls(e.parts[i])])
        \o (IF e.is = "call" THEN <<Event("call", <<e>>)>> ELSE <<>>)

(* A condition: the value tested, and what follows for either answer.       *)
Test(e, inLoop, yes, no) ==
    Calls(e) \o <<[is |-> "test", value |-> e, inLoop |-> inLoop, yes |-> yes, no |-> no]>>

(* The marks of a loop: after its body, and after its step.                 *)
Again(s) == [is |-> "again", loop |-> s]
Retest(s) == [is |-> "retest", loop |-> s]

FirstMark(k) == SelectInSeq(k, LAMBDA s : s.is = "again")

(* What has to be done for the statement s when k follows it. *)
Unfold(s, k) ==
    CASE s.is = "expression" -> Calls(s.value) \o k
      [] s.is = "assign" ->
            Calls(s.value) \o <<Event("store", <<s.name, s.value>>)>> \o k
      [] s.is = "assignItem" ->
            Calls(s.value) \o Calls(s.array) \o Calls(s.index)
                \o <<Event("storeItem", <<s.array, s.index, s.value>>)>> \o k
      [] s.is = "array" ->
            LET made == IF s.init = <<>> THEN Sized(s.size) ELSE s.init[1]
            IN  Calls(s.size) \o (IF s.init = <<>> THEN <<>> ELSE Calls(made))
                    \o <<Event("store", <<s.name, made>>)>> \o k
      [] s.is = "function" -> <<Event("store", <<s.name, Function(s.name)>>)>> \o k
      [] s.is = "return" -> Calls(s.value) \o <<Event("return", <<s.value>>)>> \o k
      [] s.is = "if" ->
            LET otherwise == IF s.elifs = <<>> THEN FlattenSeq(s.else)
                             ELSE <<If(s.elifs[1].cond, s.elifs[1].then, Tail(s.elifs), s.else)>>
            IN  Test(s.cond, FALSE, s.then, otherwise) \o k
      [] s.is = "loop" -> <<Retest(s)>> \o k
      [] s.is = "for" ->
            IF s.init # <<>> THEN s.init \o <<[s EXCEPT !.init = <<>>]>> \o k
            ELSE <<IF s.cond = <<>> THEN Again(s) ELSE Retest(s)>> \o k
      [] s.is = "again" -> s.loop.step \o <<Retest(s.loop)>> \o k
      [] s.is = "retest" ->
            LET round == s.loop.body \o <<Again(s.loop)>>
            IN  (IF s.loop.cond = <<>> THEN round
                 ELSE Test(s.loop.cond[1], TRUE, round, <<>>)) \o k
      [] s.is = "break" -> SubSeq(k, FirstMark(k) + 1, Len(k))
      [] s.is = "continue" -> SubSeq(k, FirstMark(k), Len(k))

(* Unfolds up to the next event or test.  A loop without a condition whose  *)
(* body and step do nothing has no next event and is not unfolded.          *)
RECURSIVE Expand(_)
Expand(k) ==
    IF k = <<>> \/ (k # <<>> /\ Head(k).is \in {"event", "test"}) THEN k
    ELSE Expand(Unfold(Head(k), Tail(k)))

(* The next event.  A function that ends without a return returns none.     *)
NextEvent(k) ==
    CASE k = <<>> -> Event("return", <<NoneValue>>)
      [] k # <<>> /\ Head(k).is = "test" -> Event("test", <<Head(k).value>>)
      [] OTHER -> Head(k)

(* What remains after it; the answer matters after a test. *)
After(k, answer) ==
    CASE k = <<>> \/ NextEvent(k).what = "return" -> <<>>
      [] k # <<>> /\ Head(k).is = "test" ->
            Expand((IF answer THEN Head(k).yes ELSE Head(k).no) \o Tail(k))
      [] OTHER -> Expand(Tail(k))

(* The loops being executed: their marks, and the test of the one whose     *)
(* condition is being evaluated.                                            *)
LoopDepth(k) ==
    Len(SelectSeq(k, LAMBDA s : \/ s.is \in {"again", "retest"}
                                \/ s.is = "test" /\ s.inLoop))
=============================================================================
