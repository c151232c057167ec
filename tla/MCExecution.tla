----------------------------- MODULE MCExecution -----------------------------
(***************************************************************************)
(* Functions for TLC.                                                      *)
(*   Control    loops, breaks, continues and returns in branches and in    *)
(*              nested and consecutive loops                               *)
(*   Straight   expressions and the statements without jumps               *)
(*   Elifs, Strays, Empties   one construct each that Sound leaves out     *)
(***************************************************************************)
EXTENDS Execution

Do(x, f) == Assign(x, CallOf(f, <<Var(x)>>))
More(e) == Binary("<", e, Const("n"))

(* Bodies of the innermost branches and loops. *)
Leaves(x) == {<<>>, <<Do(x, "f")>>, <<Break>>, <<Continue>>, <<Return(Var(x))>>}
Guarded(s) == <<If(Var("g"), <<s>>, <<>>, <<>>), Do("u", "f")>>

Ifs == {If(CallOf("p", <<>>), t, <<>>, e) :
            t \in Leaves("t"), e \in {<<>>} \cup {<<b>> : b \in Leaves("e")}}
Bodies == Leaves("b") \cup {Guarded(Break), Guarded(Continue)}
Whiles == {While(More(Var("w")), b) : b \in Bodies}

Step(x) == <<Assign(x, Binary("+", Var(x), Const("1")))>>
Fors == {For(<<Assign("i", Const("0"))>>, c, s, b) :
            c \in {<<>>, <<More(Var("i"))>>}, s \in {<<>>, Step("i")}, b \in Bodies}

(* Loops in which no round does an event: for ever silent. *)
SilentFor(s) == s.is = "for" /\ s.cond = <<>> /\ s.step = <<>> /\ s.body \in {<<>>, <<Continue>>}

Inner == {s \in Ifs \cup Whiles \cup Fors : ~SilentFor(s)}
Seconds == {If(Var("g"), <<>>, <<>>, <<<<Continue>>>>), While(More(Var("v")), <<Break>>),
            For(<<Assign("m", Const("0"))>>, <<>>, Step("m"), Guarded(Break)),
            Expression(CallOf("k", <<>>)), Break, Continue}
Middle == {<<s>> : s \in Inner} \cup {<<s, t>> : s \in Inner, t \in Seconds}

Outer(body) ==
    {While(Var("o"), body),
     For(<<Assign("j", Const("0"))>>, <<More(Var("j"))>>, Step("j"), body),
     For(<<>>, <<>>, Step("j"), body)}

Returns(body) == [body |-> body, returnsNone |-> FALSE]
Procedure(body) == [body |-> body, returnsNone |-> TRUE]

Nested == UNION {{Procedure(<<s, Do("z", "f")>>) : s \in Outer(b)} : b \in Middle}
Loops == {s \in Inner : s.is # "if"}
Flat == {Procedure(<<s, t>>) : s \in Loops, t \in Loops \cap Seconds}
Endings == {Returns(<<s>>) : s \in Loops}
Control == Nested \cup Flat \cup Endings

-----------------------------------------------------------------------------
Atoms == {Const("c"), Var("x")}
Simple ==
    Atoms \cup {Unary("-", a) : a \in Atoms} \cup {CallOf("f", <<>>)}
        \cup {CallOf("f", <<a>>) : a \in Atoms} \cup {ArrayOf(<<a>>) : a \in Atoms}
        \cup UNION {{Binary("+", a, b), CallOf("g", <<a, b>>), Subscript(a, b), ArrayOf(<<a, b>>)} :
                        a, b \in Atoms}
Deep == UNION {{Binary("*", a, b), CallOf("h", <<a, b>>), Subscript(a, b), ArrayOf(<<a, b>>)} :
                  a, b \in Simple}
Few == {Const("c"), CallOf("f", <<Var("x")>>), Binary("+", Var("x"), Var("y"))}

Straight ==
    {Returns(<<Return(e)>>) : e \in Deep}
        \cup {Returns(<<Expression(a), Assign("x", b)>>) : a, b \in Simple}
        \cup {Returns(<<AssignItem(a, i, e)>>) : a, i, e \in Few}
        \cup {Procedure(<<DeclareArray("a", e, i), Return(Var("a"))>>) :
                  e \in Few, i \in {<<>>} \cup {<<s>> : s \in Simple}}
        \cup {Procedure(<<DeclareFunction("f"), If(e, <<Return(e)>>, <<>>, <<>>)>>) : e \in Simple}

-----------------------------------------------------------------------------
(* A continue right before a loop: see ContinueFunctions. *)
Stray(f) ==
    LET c == CompileFunction(f)
    IN  \E i \in 1 .. Len(c) - 1 : c[i].op = "CONTINUE_LOOP" /\ c[i + 1].op = "LOOP_START"

Sound == {f \in Control : ~Stray(f)} \cup Straight
ContinueFunctions == {f \in Control : Stray(f)}

Alternatives == <<<<>>, <<<<Do("e", "f")>>>>>>
ElifFunctions ==
    {Procedure(<<If(Var("p"), <<Do("t", "f")>>, elifs, Alternatives[n])>>) :
        elifs \in {<<Elif(Var("q"), <<Do("u", "f")>>)>>,
                   <<Elif(Var("q"), <<Do("u", "f")>>), Elif(Var("r"), <<Do("v", "f")>>)>>},
        n \in 1 .. 2}

EmptyFunctions == {Returns(<<Assign("a", ArrayOf(<<>>)), Return(Var("a"))>>),
                   Returns(<<Return(CallOf("f", <<ArrayOf(<<>>)>>))>>)}
=============================================================================
