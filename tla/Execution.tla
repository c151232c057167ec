------------------------------ MODULE Execution ------------------------------
(***************************************************************************)
(* One activation of compiled code: the instruction pointer and the        *)
(* operand stack of frame_execute (vm/vm.c), next to what the program      *)
(* still has to do by its meaning (module Program).  Instructions that do  *)
(* an event of the program advance both, the others only the machine.      *)
(*                                                                         *)
(* Operands are symbolic values.  A condition may come out either way.  A  *)
(* call returns at once: what the callee does is another activation.       *)
(* Counting of references is module VM's.                                  *)
(***************************************************************************)
EXTENDS Compiler, Markers

CONSTANTS
    Functions,  \* the functions that are executed: [body, returnsNone]
    MaxStack    \* bound of the model: older operands are forgotten

ASSUME MaxStack \in Nat

VARIABLES
    code,   \* frame->code
    ip,     \* frame->ip, counted from 1; Returned after the end
    stack,  \* frame->stack
    rest    \* what the program still has to do

vars == <<code, ip, stack, rest>>

Returned == 0

Init ==
    /\ \E f \in Functions : code = CompileFunction(f) /\ rest = Expand(f.body)
    /\ ip = 1
    /\ stack = <<>>

-----------------------------------------------------------------------------
At(op) == ip \in DOMAIN code /\ code[ip].op = op
Arg == code[ip].arg

(* frame_stack_pop answers NULL when the stack is empty.                    *)
Operand(n) == IF n < Len(stack) THEN stack[Len(stack) - n] ELSE Null
Operands(n) == [i \in 1 .. n |-> Operand(n - i)]
Below(n) == SubSeq(stack, 1, Len(stack) - n)

(* The model forgets operands that lie deeper than MaxStack.  The compiler  *)
(* never drops the value of an expression statement, so the real stack      *)
(* grows with every round of a loop.                                        *)
Push(s, v) ==
    LET t == Append(s, v)
    IN  IF Len(t) > MaxStack THEN Tail(t) ELSE t

(* An instruction that takes n operands and leaves v. *)
Computes(n, v) ==
    /\ stack' = Push(Below(n), v)
    /\ ip' = ip + 1
    /\ UNCHANGED <<code, rest>>

(* An instruction that takes n operands, does an event and continues at i.  *)
Does(n, answer, i) ==
    /\ stack' = Below(n)
    /\ ip' = i
    /\ rest' = After(rest, answer)
    /\ UNCHANGED code

GoTo(i) == ip' = i /\ UNCHANGED <<code, stack, rest>>

-----------------------------------------------------------------------------
(* Values. *)
LoadConst == At("LOAD_CONST") /\ Computes(0, Const(Arg))
Load == At("LOAD") /\ Computes(0, Var(Arg))
PushNull == At("PUSH_NULL") /\ Computes(0, Null)
UnaryOp == At("UNARY_OP") /\ Computes(1, Unary(Arg, Operand(0)))
BinaryOp == At("BINARY_OP") /\ Computes(2, Binary(Arg, Operand(1), Operand(0)))
LoadSubscr == At("LOAD_SUBSCR") /\ Computes(2, Subscript(Operand(1), Operand(0)))
MakeFunction == At("MAKE_FUNCTION") /\ Computes(1, Function(Operand(0).name))

(* Without elements the instruction takes the size of the array from the    *)
(* stack, and makes none if there is no size; with too few operands for its *)
(* elements it makes none, too.                                             *)
BuildArray ==
    /\ At("BUILD_ARRAY")
    /\ CASE Arg = 0 ->
                Computes(1, IF Operand(0) = Null THEN NoneValue ELSE Sized(Operand(0)))
         [] Arg > 0 /\ Len(stack) < Arg -> Computes(0, NoneValue)
         [] OTHER -> Computes(Arg, ArrayOf(Operands(Arg)))

(* Events. *)
CalledExpr == CallOf(Operand(Arg + 1).name, Operands(Arg))

CallFunction ==
    /\ At("CALL_FUNCTION")
    /\ stack' = Push(Below(Arg + 2), CalledExpr)
    /\ ip' = ip + 1
    /\ rest' = After(rest, TRUE)
    /\ UNCHANGED code

Store == At("STORE") /\ Does(1, TRUE, ip + 1)
StoreSubscr == At("STORE_SUBSCR") /\ Does(3, TRUE, ip + 1)
ReturnValue == At("RETURN_VALUE") /\ Does(1, TRUE, Returned)
FallOffTheEnd == ip > Len(code) /\ Does(0, TRUE, Returned)

PopJumpIfFalse ==
    /\ At("POP_JUMP_IF_FALSE")
    /\ \E answer \in BOOLEAN :
         Does(1, answer, IF answer THEN ip + 1 ELSE ip + 1 + Arg)

-----------------------------------------------------------------------------
(* Jumps. *)
JumpForward == At("JUMP_FORWARD") /\ GoTo(ip + 1 + Arg)
JumpBackward == At("JUMP_BACKWARD") /\ GoTo(ip + 1 - Arg)
LoopMarker == (At("LOOP_START") \/ At("LOOP_END")) /\ GoTo(ip + 1)

BreakLoop == At("BREAK_LOOP") /\ GoTo(BreakTarget(code, ip))
ContinueLoop == At("CONTINUE_LOOP") /\ GoTo(ContinueTarget(code, ip))

-----------------------------------------------------------------------------
Quiet ==
    \/ LoadConst
    \/ Load
    \/ PushNull
    \/ UnaryOp
    \/ BinaryOp
    \/ LoadSubscr
    \/ MakeFunction
    \/ BuildArray
    \/ JumpForward
    \/ JumpBackward
    \/ LoopMarker
    \/ BreakLoop
    \/ ContinueLoop

Next ==
    \/ Quiet
    \/ CallFunction
    \/ Store
    \/ StoreSubscr
    \/ ReturnValue
    \/ FallOffTheEnd
    \/ PopJumpIfFalse

(* frame_execute goes on to the next instruction after every instruction.   *)
(* Only those between two events need to be fair: nothing is assumed about  *)
(* a called function, which may never return.                               *)
Spec == Init /\ [][Next]_vars /\ WF_vars(Quiet)

-----------------------------------------------------------------------------
(* The event that the instruction at ip is about to do. *)
EventAtIp ==
    CASE At("CALL_FUNCTION") -> {Event("call", <<CalledExpr>>)}
      [] At("STORE") -> {Event("store", <<Arg, Operand(0)>>)}
      [] At("STORE_SUBSCR") -> {Event("storeItem", <<Operand(1), Operand(0), Operand(2)>>)}
      [] At("POP_JUMP_IF_FALSE") -> {Event("test", <<Operand(0)>>)}
      [] At("RETURN_VALUE") -> {Event("return", <<Operand(0)>>)}
      [] ip > Len(code) -> {Event("return", <<NoneValue>>)}
      [] OTHER -> {}

Needed ==
    CASE ip \notin DOMAIN code -> 0
      [] At("UNARY_OP") \/ At("MAKE_FUNCTION") \/ At("STORE") \/ At("POP_JUMP_IF_FALSE")
            \/ At("RETURN_VALUE") -> 1
      [] At("BINARY_OP") \/ At("LOAD_SUBSCR") -> 2
      [] At("STORE_SUBSCR") -> 3
      [] At("BUILD_ARRAY") -> IF Arg = 0 THEN 1 ELSE Arg
      [] At("CALL_FUNCTION") -> Arg + 2
      [] OTHER -> 0

(* The instruction pointer stays inside the code or right behind it: the    *)
(* offsets are computed from the lengths of code that is put together only  *)
(* afterwards, and a jump that leaves it would end the function unnoticed.  *)
TypeOK ==
    /\ ip \in {Returned} \cup 1 .. Len(code) + 1
    /\ Len(stack) <= MaxStack

(* The compiled code calls, stores, tests and returns what the program      *)
(* says, with the same operands and in the same order, whichever way its    *)
(* conditions come out and whichever breaks and continues it meets.         *)
SameEvents == \A e \in EventAtIp : e = NextEvent(rest)

(* BREAK_LOOP and CONTINUE_LOOP find their loop by counting markers, and    *)
(* the offsets of the other jumps know nothing of markers: at each event    *)
(* the markers passed and not closed are the loops that the program is in.  *)
MarkersMatchLoops ==
    EventAtIp # {} /\ ip <= Len(code) =>
        Excess(code, "LOOP_START", "LOOP_END", 1, ip - 1) = LoopDepth(rest)

(* No instruction finds fewer operands than it takes.  The machine would    *)
(* not notice: it would go on with NULL, that is with none.                 *)
OperandsPresent == Len(stack) >= Needed

(* The machine never runs for ever between two events of the program: it    *)
(* reaches the next one or the end, again and again.                        *)
Progress == []<>(ip = Returned \/ EventAtIp # {})
=============================================================================
