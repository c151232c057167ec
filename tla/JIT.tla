---------------------------------- MODULE JIT ----------------------------------
(***************************************************************************)
(* The optimiser at work (jit/jit.c, op_CALL_FUNCTION of vm/vm.c): calls   *)
(* of a function are counted, and the code of one that is called often is  *)
(* replaced by its optimised form.                                         *)
(*                                                                         *)
(* To see whether that makes a difference, each call is executed twice:    *)
(* cold, with the code the compiler made, and hot, with the code the       *)
(* function has by now.  Both do what others can see, the calls, stores    *)
(* to globals and returns, together; in between first the cold one goes    *)
(* on and then the hot one.  The callee of a call is not executed: it      *)
(* answers one of Answers, the same to both, and changes nothing else.     *)
(***************************************************************************)
EXTENDS Patterns, Markers, Values

CONSTANTS
    Optimise(_),  \* what the optimiser makes of a function's code
    Programs,   \* a sequence of programs; a program is a sequence of function
                \* objects as they were made: [name, code, inputs]
    Answers,    \* what calls answer
    Threshold   \* JIT_HOT_CALL_THRESHOLD

ASSUME ThresholdAssumption == Threshold \in Nat \ {0}

VARIABLES
    program,  \* the program that is executed
    objects,  \* the function objects now: [code, calls, compiled]
    cache,    \* jit->compiled_cache: [name, code]
    running,  \* the object being called, or Nobody
    frames    \* the two executions of it

vars == <<program, objects, cache, running, frames>>

Nobody == 0
Machines == {"cold", "hot"}

(* An input is the variables and the arrays at the start.                   *)
Frame(code, input) ==
    [code |-> code, ip |-> 1, stack |-> <<>>, env |-> input.env, heap |-> input.heap,
     given |-> Len(input.heap)]
Idle == Frame(<<>>, [env |-> <<>>, heap |-> <<>>])

Init ==
    /\ \E p \in DOMAIN Programs : program = Programs[p]
    /\ objects = [f \in DOMAIN program |->
                     [code |-> program[f].code, calls |-> 0, compiled |-> FALSE]]
    /\ cache = <<>>
    /\ running = Nobody
    /\ frames = [w \in Machines |-> Idle]

-----------------------------------------------------------------------------
(* Mutant of Cached: nothing is ever found.                                 *)
CachedNever(name) == {i \in DOMAIN cache : FALSE /\ cache[i].name = name}

(* jit_find_in_cache: functions are told apart by their names.              *)
Cached(name) == {i \in DOMAIN cache : cache[i].name = name}

(* jit_compile_function.  What the passes do is left to module Optimiser.   *)
Compile(f) ==
    LET found == Cached(program[f].name)
        code == IF found # {} THEN cache[Min(found)].code ELSE Optimise(program[f].code)
    IN  /\ objects' = [objects EXCEPT ![f] = [code |-> code, calls |-> @.calls + 1, compiled |-> TRUE]]
        /\ cache' = IF found # {} THEN cache ELSE Append(cache, [name |-> program[f].name, code |-> code])

Count(f) ==
    CASE objects[f].compiled -> UNCHANGED <<objects, cache>>
      [] ~objects[f].compiled /\ objects[f].calls + 1 < Threshold ->
            objects' = [objects EXCEPT ![f].calls = @ + 1] /\ UNCHANGED cache
      [] OTHER -> Compile(f)

Start(f) ==
    /\ running = Nobody
    /\ Count(f)
    /\ running' = f
    /\ \E input \in program[f].inputs :
         frames' = [cold |-> Frame(program[f].code, input), hot |-> Frame(objects'[f].code, input)]
    /\ UNCHANGED program

-----------------------------------------------------------------------------
(* What others see. *)
AtEnd(w) == running # Nobody /\ frames[w].ip > Len(frames[w].code)
At(w, op) ==
    LET m == frames[w] IN m.ip \in DOMAIN m.code /\ m.code[m.ip].op = op
Arg(w) == frames[w].code[frames[w].ip].arg

StoresGlobal(w) == At(w, "STORE") /\ Arg(w) \in Globals
Returns(w) == At(w, "RETURN_VALUE") \/ AtEnd(w)
AtEffect(w) == At(w, "CALL_FUNCTION") \/ StoresGlobal(w) \/ Returns(w)

(* A missing operand is NULL, which counts as none.                         *)
Operand(w, n) ==
    LET s == frames[w].stack IN IF n < Len(s) THEN s[Len(s) - n] ELSE None
Below(w, n) == SubSeq(frames[w].stack, 1, Len(frames[w].stack) - n)

(* An array is seen by what it holds.                                       *)
Seen(w, v) ==
    [type |-> v.type, n |-> IF v.type = "array" THEN 0 ELSE v.n,
     items |-> IF v.type = "array" THEN frames[w].heap[v.n] ELSE <<>>]

Effect(w) ==
    CASE At(w, "CALL_FUNCTION") ->
            [does |-> "call", with |-> [i \in 0 .. Arg(w) + 1 |-> Seen(w, Operand(w, i))]]
      [] StoresGlobal(w) -> [does |-> Arg(w), with |-> [i \in {0} |-> Seen(w, Operand(w, 0))]]
      [] At(w, "RETURN_VALUE") ->
            [does |-> "return", with |-> [i \in {0} |-> Seen(w, Operand(w, 0))]]
      [] AtEnd(w) -> [does |-> "return", with |-> [i \in {0} |-> Seen(w, None)]]

(* The arrays that were there before the call.                              *)
Given(w) == SubSeq(frames[w].heap, 1, frames[w].given)

-----------------------------------------------------------------------------
(* The instructions between two effects. *)
Turn(w) == running # Nobody /\ ~AtEffect(w) /\ (w = "hot" => AtEffect("cold"))

Becomes(w, m) ==
    /\ Turn(w)
    /\ frames' = [frames EXCEPT ![w] = m]
    /\ UNCHANGED <<program, objects, cache, running>>

(* Takes n operands and leaves those of s.                                  *)
Pushed(w, n, s) == [frames[w] EXCEPT !.stack = Below(w, n) \o s, !.ip = @ + 1]
Computes(w, n, v) == Becomes(w, Pushed(w, n, <<v>>))
GoTo(w, i) == Becomes(w, [frames[w] EXCEPT !.ip = i])

LoadValue(w) == At(w, "LOAD_CONST") /\ Computes(w, 0, Arg(w))
LoadVariable(w) == At(w, "LOAD") /\ Computes(w, 0, frames[w].env[Arg(w)])
PushNull(w) == At(w, "PUSH_NULL") /\ Computes(w, 0, None)
UnaryOp(w) == At(w, "UNARY_OP") /\ Computes(w, 1, UnaryValue(Arg(w), Operand(w, 0)))
BinaryOp(w) ==
    At(w, "BINARY_OP") /\ Computes(w, 2, BinaryValue(Arg(w), Operand(w, 1), Operand(w, 0)))

StoreLocal(w) ==
    /\ At(w, "STORE") /\ ~StoresGlobal(w)
    /\ Becomes(w, [Pushed(w, 1, <<>>) EXCEPT !.env[Arg(w)] = Operand(w, 0)])

(* Arrays.  Programs index within bounds.                                   *)
LoadSubscr(w) ==
    At(w, "LOAD_SUBSCR") /\ Computes(w, 2, frames[w].heap[Operand(w, 1).n][Operand(w, 0).n + 1])

StoreSubscr(w) ==
    /\ At(w, "STORE_SUBSCR")
    /\ Becomes(w, [Pushed(w, 3, <<>>) EXCEPT !.heap[Operand(w, 1).n][Operand(w, 0).n + 1] = Operand(w, 2)])

BuildArray(w) ==
    /\ At(w, "BUILD_ARRAY")
    /\ LET n == Arg(w)
           items == IF n = 0 THEN [i \in 1 .. Operand(w, 0).n |-> None]
                    ELSE [i \in 1 .. n |-> Operand(w, n - i)]
           id == Array(Len(frames[w].heap) + 1)
       IN  Becomes(w, [Pushed(w, IF n = 0 THEN 1 ELSE n, <<id>>) EXCEPT !.heap = Append(@, items)])

(* The instructions that only the optimiser emits.  They refuse operands of *)
(* other types, SWAP_ARRAY_ELEMENTS also indices out of bounds: the         *)
(* operands stay.  SWAP_ARRAY_ELEMENTS leaves the array.                    *)
AreIndices(w) == /\ Len(frames[w].stack) >= 3 /\ Operand(w, 2).type = "array"
                 /\ Operand(w, 1).type = "int" /\ Operand(w, 0).type = "int"

Exchange(items, i, j) == [items EXCEPT ![i] = items[j], ![j] = items[i]]

SwapArrayElements(w) ==
    /\ At(w, "SWAP_ARRAY_ELEMENTS")
    /\ LET a == Operand(w, 2)
           i == Operand(w, 1).n + 1
           j == Operand(w, 0).n + 1
       IN  IF AreIndices(w) /\ {i, j} \subseteq DOMAIN frames[w].heap[a.n]
           THEN Becomes(w, [Pushed(w, 3, <<a>>) EXCEPT !.heap[a.n] = Exchange(@, i, j)])
           ELSE GoTo(w, frames[w].ip + 1)

CompareAndSwap(w) ==
    /\ At(w, "COMPARE_AND_SWAP")
    /\ LET a == Operand(w, 2)
           i == Operand(w, 1).n + 1
           j == Operand(w, 0).n + 1
           items == frames[w].heap[a.n]
       IN  CASE ~AreIndices(w) -> GoTo(w, frames[w].ip + 1)
             [] AreIndices(w) /\ items[i].n > items[j].n ->
                   Becomes(w, [Pushed(w, 3, <<>>) EXCEPT !.heap[a.n] = Exchange(@, i, j)])
             [] OTHER -> Becomes(w, Pushed(w, 3, <<>>))

(* Jumps.  Without a condition on the stack there is none.                  *)
JumpsTo(w) == Destination(frames[w].code, frames[w].ip)

PopJumpIfFalse(w) ==
    /\ At(w, "POP_JUMP_IF_FALSE")
    /\ LET jumps == frames[w].stack # <<>> /\ IsFalse(Operand(w, 0))
       IN  Becomes(w, [Pushed(w, 1, <<>>) EXCEPT !.ip = IF jumps THEN JumpsTo(w) ELSE @])

JumpForward(w) == At(w, "JUMP_FORWARD") /\ GoTo(w, JumpsTo(w))
JumpBackward(w) == At(w, "JUMP_BACKWARD") /\ GoTo(w, JumpsTo(w))
LoopMarker(w) == (At(w, "LOOP_START") \/ At(w, "LOOP_END")) /\ GoTo(w, frames[w].ip + 1)
BreakLoop(w) == At(w, "BREAK_LOOP") /\ GoTo(w, BreakTarget(frames[w].code, frames[w].ip))
ContinueLoop(w) == At(w, "CONTINUE_LOOP") /\ GoTo(w, ContinueTarget(frames[w].code, frames[w].ip))

Silent(w) ==
    \/ LoadValue(w)
    \/ LoadVariable(w)
    \/ PushNull(w)
    \/ UnaryOp(w)
    \/ BinaryOp(w)
    \/ StoreLocal(w)
    \/ LoadSubscr(w)
    \/ StoreSubscr(w)
    \/ BuildArray(w)
    \/ SwapArrayElements(w)
    \/ CompareAndSwap(w)
    \/ PopJumpIfFalse(w)
    \/ JumpForward(w)
    \/ JumpBackward(w)
    \/ LoopMarker(w)
    \/ BreakLoop(w)
    \/ ContinueLoop(w)

-----------------------------------------------------------------------------
(* The effects, done by both executions. *)
CallOther ==
    /\ running # Nobody
    /\ \A w \in Machines : At(w, "CALL_FUNCTION")
    /\ \E answer \in Answers :
         frames' = [w \in Machines |-> Pushed(w, Arg(w) + 2, <<answer>>)]
    /\ UNCHANGED <<program, objects, cache, running>>

StoreGlobal ==
    /\ running # Nobody
    /\ \A w \in Machines : StoresGlobal(w)
    /\ frames' = [w \in Machines |->
                     [Pushed(w, 1, <<>>) EXCEPT !.env[Arg(w)] = Operand(w, 0)]]
    /\ UNCHANGED <<program, objects, cache, running>>

Finish ==
    /\ running # Nobody
    /\ \A w \in Machines : Returns(w)
    /\ running' = Nobody
    /\ frames' = [w \in Machines |-> Idle]
    /\ UNCHANGED <<program, objects, cache>>

Next ==
    \/ \E f \in DOMAIN program : Start(f)
    \/ \E w \in Machines : Silent(w)
    \/ CallOther
    \/ StoreGlobal
    \/ Finish

(* frame_execute goes on from one instruction to the next.                  *)
Spec == Init /\ [][Next]_vars /\ \A w \in Machines : WF_vars(Silent(w))

-----------------------------------------------------------------------------
Needed(w) ==
    CASE AtEnd(w) -> 0
      [] At(w, "UNARY_OP") \/ At(w, "STORE") \/ At(w, "POP_JUMP_IF_FALSE")
            \/ At(w, "RETURN_VALUE") -> 1
      [] At(w, "BINARY_OP") \/ At(w, "LOAD_SUBSCR") -> 2
      [] At(w, "STORE_SUBSCR") \/ At(w, "SWAP_ARRAY_ELEMENTS") \/ At(w, "COMPARE_AND_SWAP") -> 3
      [] At(w, "BUILD_ARRAY") -> IF Arg(w) = 0 THEN 1 ELSE Arg(w)
      [] At(w, "CALL_FUNCTION") -> Arg(w) + 2
      [] OTHER -> 0

(* An object is optimised when it has been called Threshold times, and not  *)
(* counted any more; the cold execution stays inside its code or right      *)
(* behind it, the hot one never goes back beyond its start.                 *)
TypeOK ==
    /\ \A f \in DOMAIN program :
         /\ objects[f].calls \in 0 .. Threshold
         /\ objects[f].compiled <=> objects[f].calls = Threshold
    /\ running \in {Nobody} \cup DOMAIN program
    /\ frames["cold"].ip \in 1 .. Len(frames["cold"].code) + 1
    /\ frames["hot"].ip \in Nat \ {0}

(* Optimised code does what the compiled code does: the same calls with the *)
(* same arguments, the same stores and the same return, with the same       *)
(* arrays at each of them, whatever the calls in between answer.            *)
SameEffects ==
    running # Nobody /\ (\A w \in Machines : AtEffect(w)) =>
        /\ Effect("hot") = Effect("cold")
        /\ Given("hot") = Given("cold")

(* Deleting instructions leaves no other without its operands.              *)
OperandsPresent == running # Nobody => \A w \in Machines : Len(frames[w].stack) >= Needed(w)

(* A function is optimised once: when its declaration is executed again,    *)
(* the new object gets the code made for the old one, and none is made anew.*)
OptimisedOnce ==
    \A f \in DOMAIN program : objects[f].compiled =>
        \E i \in DOMAIN cache :
            /\ \A j \in DOMAIN cache : cache[j].name = program[f].name <=> j = i
            /\ objects[f].code = cache[i].code

(* Neither execution runs for ever between two effects.                     *)
Progress == []<>(running = Nobody \/ \A w \in Machines : AtEffect(w))
=============================================================================
