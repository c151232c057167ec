--------------------------------- MODULE MCJIT ---------------------------------
(***************************************************************************)
(* Programs for TLC.  x is the parameter; p is another function, g a       *)
(* global variable, a an array that is given.                              *)
(*   Loops       two statements inside a loop                              *)
(*   Sums        expressions, returned or stored                           *)
(*   Others      arrays, patterns, ends, a function declared twice         *)
(*   ChainPrograms, SwapPrograms   what these leave out                    *)
(* They are sequences, as TLC cannot put them into sets: constants and     *)
(* names are no values of one kind.                                        *)
(***************************************************************************)
EXTENDS JIT, Optimiser, Compiler

n(k) == Const(Integer(k))
True == Const(Boolean(TRUE))
False == Const(Boolean(FALSE))
x == Var("x")
y == Var("y")
i == Var("i")
j == Var("j")
a == Var("a")
Plus(v, k) == Binary("+", Var(v), n(k))
Inc(v) == Assign(v, Plus(v, 1))
When(c, t, e) == If(c, t, <<>>, e)
CountTo(v, k, body) ==
    For(<<Assign(v, n(0))>>, <<Binary("<", Var(v), k)>>, <<Inc(v)>>, body)
P(k) == CallOf("p", <<k>>)

GlobalNames == {"p", "g"}
Names == GlobalNames \cup {"x", "y", "i", "j", "k", "a", "t"}
Env(v) ==
    [name \in Names |-> CASE name = "p" -> Callee(1)
                          [] name = "x" -> v
                          [] name = "a" -> Array(1)
                          [] OTHER -> None]
Given3(items, v) == [env |-> Env(v), heap |-> <<[k \in 1 .. 3 |-> Integer(items[k])]>>]
Unsorted == <<3, 1, 2>>
Sorted == <<1, 2, 3>>

Inputs == {Given3(Unsorted, Integer(v)) : v \in {0, 2}}
Made1(name, body, inputs) == [name |-> name, code |-> Block(body), inputs |-> inputs]
Program1(body) == <<Made1("f", body, Inputs)>>

-----------------------------------------------------------------------------
Inner ==
    <<When(P(i), <<Inc("y")>>, <<>>),
      Assign("g", i),
      When(True, <<Inc("y")>>, <<>>),
      When(False, <<Inc("y")>>, <<<<Assign("g", y)>>>>),
      When(Binary("<", n(2), n(1)), <<Inc("y")>>, <<>>),
      When(Binary("<", i, n(1)), <<Continue>>, <<>>),
      When(Binary(">", i, n(0)), <<Break>>, <<>>),
      CountTo("j", n(2), <<Assign("k", Binary("*", j, n(2)))>>),
      CountTo("j", x, <<Inc("y")>>),
      CountTo("j", n(2), <<When(Binary("<", j, n(1)), <<Continue>>, <<>>), Inc("y")>>),
      While(True, <<Inc("y"), When(Binary(">", y, n(2)), <<Break>>, <<>>)>>),
      While(False, <<Inc("y")>>),
      AssignItem(a, i, Plus("y", 1))>>

Around(k, body) ==
    IF k = 0 THEN CountTo("i", x, body) ELSE While(Binary("<", i, x), <<Inc("i")>> \o body)

Pairs == [m \in 0 .. 2 * Len(Inner) * Len(Inner) - 1 |->
             LET r == m \div 2
             IN  <<Assign("i", n(0)), Assign("y", n(0)),
                   Around(m % 2, <<Inner[(r \div Len(Inner)) + 1], Inner[(r % Len(Inner)) + 1]>>),
                   Return(y)>>]
Loops == Whole([m \in 1 .. 2 * Len(Inner) * Len(Inner) |-> Program1(Pairs[m - 1])])

-----------------------------------------------------------------------------
Atoms == <<x, n(2), True, Const(Float(1))>>
Operators == <<"-", "/", "<", "==", "and">>
Product(first, second, Op(_, _)) ==
    FlattenSeq([r \in DOMAIN first |-> [s \in DOMAIN second |-> Op(first[r], second[s])]])
Binaries(left, right) ==
    FlattenSeq([o \in DOMAIN Operators |->
                  Product(left, right, LAMBDA l, r : Binary(Operators[o], l, r))])
Simple == Whole(Binaries(Atoms, Atoms))
Halves == <<Binary("-", x, n(2)), Binary("*", n(2), n(1)), Binary("<", n(2), n(1)),
            Unary("-", x), Unary("not", True), P(n(2))>>
Expressions == Whole(Simple \o Binaries(Halves, Atoms) \o Binaries(Atoms, Halves))

(* x + 1 + 2: a constant, an operator and a constant, of which the first    *)
(* operand is none.                                                         *)
HasChain(code) ==
    \E k \in 2 .. Len(code) - 2 :
        ~IsConst(code[k - 1]) /\ IsConst(code[k]) /\ ~IsConst(code[k + 1]) /\ InChain(code[k + 1])
            /\ IsConst(code[k + 2])

(* The order of two booleans is none then, where the machine says false.    *)
OrdersBooleans(code) ==
    \E k \in DOMAIN FoldPairs(code) :
        IsConst(FoldPairs(code)[k]) /\ FoldPairs(code)[k].arg.type = "none"

Sums == Whole([k \in DOMAIN Expressions |->
            Program1(IF k % 2 = 0 THEN <<Return(Expressions[k])>>
                     ELSE <<Assign("g", Expressions[k]), When(Var("g"), <<Inc("x")>>, <<>>), Return(x)>>)])
IsSound(program1) ==
    LET code == program1[1].code IN ~HasChain(code) /\ ~OrdersBooleans(code)

-----------------------------------------------------------------------------
Exchanged == <<Assign("t", Subscript(a, i)), AssignItem(a, i, Subscript(a, j)),
               AssignItem(a, j, Var("t"))>>
Start01 == <<Assign("i", n(0)), Assign("j", n(1))>>
Next1 == Subscript(a, Plus("j", 1))
Bubble ==
    When(Binary(">", Subscript(a, j), Next1),
         <<Assign("t", Next1), AssignItem(a, Plus("j", 1), Subscript(a, j)),
           AssignItem(a, Plus("j", 1), Var("t"))>>, <<>>)
Twice == <<Assign("y", Binary("+", n(1), n(2))), When(P(y), <<Assign("g", y)>>, <<>>)>>

Others ==
    <<Program1(Start01 \o Exchanged \o <<Return(a)>>),
      Program1(Start01 \o Exchanged \o <<When(P(a), Exchanged, <<>>), Return(Subscript(a, x))>>),
      <<Made1("f", <<Assign("j", n(0)), Bubble, Return(a)>>, {Given3(Sorted, Integer(0))})>>,
      <<Made1("f", <<CountTo("j", n(1), <<Bubble, Expression(P(a))>>), Return(a)>>,
                 {Given3(Sorted, Integer(0))})>>,
      Program1(<<DeclareArray("k", n(2), <<>>), AssignItem(Var("k"), n(1), x), Return(Var("k"))>>),
      Program1(<<Return(ArrayOf(<<x, n(1), Binary("+", n(1), n(2))>>))>>),
      Program1(<<When(Binary("<", x, n(1)), Twice, <<>>)>>),
      Program1(<<While(Binary("<", x, n(3)), <<Inc("x")>> \o Twice)>>),
      <<Made1("f", Twice, Inputs), Made1("f", Twice, Inputs)>>,
      <<Made1("f", Twice, Inputs), Made1("h", <<Return(Plus("x", 1))>>, Inputs)>>>>

Sound == Loops \o SelectSeq(Sums, IsSound) \o Others
Chains == SelectSeq(Sums, LAMBDA program1 : HasChain(program1[1].code))
Swaps ==
    <<Program1(<<CountTo("i", n(2),
                         <<Assign("j", Plus("i", 1)),
                           When(Binary(">", Subscript(a, i), Subscript(a, j)), Exchanged, <<>>)>>),
                 Return(a)>>)>>

(* TLC keeps the value of a definition, but not of one that replaces a      *)
(* constant.                                                                *)
SoundPrograms == Sound
ChainPrograms == Chains
SwapPrograms == Swaps

AnswersUsed == {Integer(0), Integer(1)}
=============================================================================
