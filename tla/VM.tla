--------------------------------- MODULE VM ---------------------------------
(***************************************************************************)
(* The stack machine of vm/vm.c as a user of the memory of module Memory:  *)
(* activation frames with locals and an operand stack, the arguments a     *)
(* call keeps in a C array, the globals, and how every instruction moves   *)
(* references and counts between them.                                     *)
(*                                                                         *)
(* What is abstracted: the values of objects (an instruction may take any  *)
(* branch that depends on a value), the instruction pointer (any           *)
(* instruction whose operands are on the stack may be next), and the step  *)
(* counter that starts a collection (one may follow any instruction).      *)
(* Garbage collection is enabled.                                          *)
(***************************************************************************)
EXTENDS Memory

CONSTANTS
    GlobalCount,    \* vm->globals_count
    LocalCount,     \* code->local_count of every function but the main one
    RootsCapacity,  \* the roots buffer of vm_collect_garbage (1024 in the code)
    MaxItems,       \* bound of the model: the elements of one array
    MaxArgs,        \* bound of the model: the arguments of one call
    MaxStack,       \* bound of the model: the operands on all stacks
    MaxDepth        \* bound of the model: the nested activations

ASSUME VMAssumption ==
    /\ {GlobalCount, LocalCount, RootsCapacity, MaxItems, MaxArgs, MaxStack} \subseteq Nat
    /\ MaxDepth \in Nat \ {0}

VARIABLES
    mem,        \* the record of module Memory
    frames,     \* vm->active_frames, with the C arrays of op_CALL_FUNCTION
    globals,    \* vm->globals
    argsSwept   \* history: a collection freed an argument of a pending call

vars == <<mem, frames, globals, argsSwept>>

Globals == 1 .. GlobalCount
Locals == 1 .. LocalCount

(* frame_create: the locals are none, the stack is empty.  "args" is what    *)
(* the C array of the call that the activation is waiting for holds.        *)
NewFrame(locals) == [locals |-> locals, stack |-> <<>>, args |-> <<>>]

(* vm_create and vm_execute of the main code, which has no locals.  The      *)
(* built-in functions are immortal objects that no program can release.     *)
Init ==
    /\ mem = EmptyMemory
    /\ frames = <<NewFrame(<<>>)>>
    /\ globals = [g \in Globals |-> NoneObject]
    /\ argsSwept = FALSE

-----------------------------------------------------------------------------
Frame == frames[Len(frames)]
Stack == Frame.stack

(* FAST_PEEK: the k-th operand from the top, starting at 0. *)
Peek(k) == Stack[Len(Stack) - k]
Has(n) == Len(Stack) >= n
Rest(n) == SubSeq(Stack, 1, Len(Stack) - n)

Operands == FoldLeft(LAMBDA n, f : n + Len(f.stack) + Len(f.args), 0, frames)

(* The compiler never emits the load of a code object without MAKE_FUNCTION *)
(* right after it.                                                          *)
CodeOnTop == Has(1) /\ Kind[Peek(0)] = "code"

(* Another instruction can be next.  After undefined behaviour nothing more  *)
(* is said.                                                                 *)
Ready == ~ mem.undefined /\ ~ CodeOnTop

(* The end of an instruction of the running activation: the memory it leaves *)
(* and its operand stack.                                                    *)
Finish(m, stack) ==
    /\ Ready
    /\ Operands - Len(Stack) + Len(stack) <= MaxStack
    /\ mem' = m
    /\ Bounded(mem')
    /\ frames' = [frames EXCEPT ![Len(frames)].stack = stack]
    /\ UNCHANGED argsSwept

(* FAST_PUSH_GC and frame_stack_push; the objects of FAST_PUSH_NO_GC are     *)
(* immortal, unless an instruction puts back what it has popped.            *)
FinishPush(m, stack, o) == Finish(Incref(m, o), Append(stack, o))

IsInt(o) == Kind[o] = "int"
IsArray(o) == Kind[o] = "array"

(* An access to as.array.items of something else or out of range. *)
WildAccess == Finish([mem EXCEPT !.undefined = TRUE], Stack)

-----------------------------------------------------------------------------
(* Constants, variables, operators.                                        *)

(* LOAD_CONST of none, a boolean or a cached integer; PUSH_NULL. *)
LoadImmortal(o) == FinishPush(mem, Stack, o) /\ UNCHANGED globals

(* Mutant of LoadConst: the new object is pushed with the count it has. *)
LoadConstUncounted(kind) ==
    /\ HasFree(mem, kind)
    /\ Finish(Alloc(mem, kind), Append(Stack, NextObject(mem, kind)))
    /\ UNCHANGED globals

(* LOAD_CONST of another integer, a float or a code object. *)
LoadConst(kind) ==
    /\ HasFree(mem, kind)
    /\ FinishPush(Alloc(mem, kind), Stack, NextObject(mem, kind))
    /\ UNCHANGED globals

LoadFast(i) ==
    /\ i \in DOMAIN Frame.locals
    /\ FinishPush(mem, Stack, Frame.locals[i])
    /\ UNCHANGED globals

(* STORE_FAST: the popped reference stays counted, and the local counts it   *)
(* once more.                                                               *)
StoreFast(i) ==
    /\ Has(1)
    /\ i \in DOMAIN Frame.locals
    /\ Ready
    /\ mem' = Decref(Incref(mem, Peek(0)), Frame.locals[i])
    /\ Bounded(mem')
    /\ frames' = [frames EXCEPT ![Len(frames)] =
                      [@ EXCEPT !.locals[i] = Peek(0), !.stack = Rest(1)]]
    /\ UNCHANGED <<globals, argsSwept>>

LoadGlobal(g) == FinishPush(mem, Stack, globals[g]) /\ UNCHANGED globals

(* STORE_GLOBAL: vm_set_global counts the new value, and the old one too. *)
StoreGlobal(g) ==
    /\ Has(1)
    /\ Finish(Decref(Incref(Incref(mem, Peek(0)), globals[g]), Peek(0)), Rest(1))
    /\ globals' = [globals EXCEPT ![g] = Peek(0)]

(* POP_TOP and the conditional jumps. *)
PopTop ==
    /\ Has(1)
    /\ Finish(Decref(mem, Peek(0)), Rest(1))
    /\ UNCHANGED globals

(* Mutant of FinishOperator: a float result is pushed with the count it has. *)
FinishOperatorUncounted(n, operands) ==
    /\ \E k \in DOMAIN operands : Kind[operands[k]] = "float"
    /\ HasFresh(mem)
    /\ Finish(DecrefAll(AllocFloatFromBf(mem), operands), Append(Rest(n), FreshFloat(mem)))

(* The result of an operator: allocated before the operands are released.    *)
(* (A boolean operand of a float operator counts as an integer here.)        *)
FinishOperator(n, operands) ==
    \/ \E o \in Immortal : FinishPush(DecrefAll(mem, operands), Rest(n), o)
    \/ /\ \A k \in DOMAIN operands : IsInt(operands[k])
       /\ HasFree(mem, "int")
       /\ FinishPush(DecrefAll(Alloc(mem, "int"), operands), Rest(n), NextObject(mem, "int"))
    \/ /\ \E k \in DOMAIN operands : Kind[operands[k]] = "float"
       /\ \A k \in DOMAIN operands : Kind[operands[k]] \in {"float", "int"}
       /\ HasFresh(mem)
       /\ FinishPush(DecrefAll(AllocFloatFromBf(mem), operands), Rest(n), FreshFloat(mem))

BinaryOp == Has(2) /\ FinishOperator(2, <<Peek(1), Peek(0)>>) /\ UNCHANGED globals
UnaryOp == Has(1) /\ FinishOperator(1, <<Peek(0)>>) /\ UNCHANGED globals

-----------------------------------------------------------------------------
(* Arrays.                                                                 *)

(* BUILD_ARRAY 0: the size is on the stack. *)
BuildEmptyArray ==
    /\ Has(1)
    /\ IF IsInt(Peek(0))
       THEN /\ HasFree(mem, "array")
            /\ \E size \in 0 .. MaxItems :
                  FinishPush(Decref(AllocArray(mem, size), Peek(0)), Rest(1),
                             NextObject(mem, "array"))
       ELSE FinishPush(Decref(mem, Peek(0)), Rest(1), NoneObject)
    /\ UNCHANGED globals

(* Mutant of BuildArray: the new array is pushed with the count it has. *)
BuildArrayUncounted(n) ==
    /\ Has(n)
    /\ HasFree(mem, "array")
    /\ LET a == NextObject(mem, "array")
           elements == SubSeq(Stack, Len(Stack) - n + 1, Len(Stack))
           filled == DecrefAll(IncrefAll(AllocArray(mem, n), elements), elements)
       IN  Finish([filled EXCEPT !.items[a] = elements], Append(Rest(n), a))
    /\ UNCHANGED globals

(* BUILD_ARRAY n: the elements move from the stack into the array, each      *)
(* counted for the array and then released by the stack.                    *)
BuildArray(n) ==
    /\ Has(n)
    /\ HasFree(mem, "array")
    /\ LET a == NextObject(mem, "array")
           elements == SubSeq(Stack, Len(Stack) - n + 1, Len(Stack))
           counted == IncrefAll(AllocArray(mem, n), elements)
           filled == DecrefAll(counted, elements)
       IN  FinishPush([filled EXCEPT !.items[a] = elements], Rest(n), a)
    /\ UNCHANGED globals

(* Mutant of LoadSubscr: the element is pushed without being counted. *)
LoadSubscrBorrows ==
    /\ Has(2)
    /\ IsInt(Peek(0))
    /\ \E o \in Range(mem.items[Peek(1)]) :
          Finish(DecrefAll(mem, <<Peek(0), Peek(1)>>), Append(Rest(2), o))
    /\ UNCHANGED globals

(* LOAD_SUBSCR: neither the type nor the range of the operands is checked.   *)
(* The element is counted before the array is released.                     *)
LoadSubscr ==
    /\ Has(2)
    /\ LET a == Peek(1)
       IN  \/ \E i \in DOMAIN mem.items[a] :
                 /\ IsInt(Peek(0))
                 /\ LET o == mem.items[a][i]
                    IN  Finish(DecrefAll(Incref(mem, o), <<Peek(0), a>>), Append(Rest(2), o))
           \/ WildAccess
    /\ UNCHANGED globals

(* STORE_SUBSCR of value, array, index: again without checks, and the popped *)
(* reference to the value stays counted.                                     *)
StoreSubscr ==
    /\ Has(3)
    /\ LET a == Peek(1)
           o == Peek(2)
       IN  \/ \E i \in DOMAIN mem.items[a] :
                 /\ IsInt(Peek(0))
                 /\ LET stored == [mem EXCEPT !.items[a][i] = o]
                    IN  Finish(DecrefAll(Incref(stored, o), <<mem.items[a][i], Peek(0), a>>),
                               Rest(3))
           \/ WildAccess
    /\ UNCHANGED globals

(* DEL_SUBSCR checks its operands; an element becomes none. *)
DelSubscr ==
    /\ Has(2)
    /\ LET a == Peek(1)
       IN  \/ Finish(DecrefAll(mem, <<Peek(0), a>>), Rest(2))
           \/ \E i \in DOMAIN mem.items[a] :
                 /\ IsInt(Peek(0))
                 /\ LET deleted == [mem EXCEPT !.items[a][i] = NoneObject]
                    IN  Finish(DecrefAll(deleted, <<mem.items[a][i], Peek(0), a>>), Rest(2))
    /\ UNCHANGED globals

(* Two elements change places; each is counted for its new place after or    *)
(* before it is released by its old one, in the order of the code.           *)
Swapped(m, a, i, j) ==
    LET x == m.items[a][i]
        y == m.items[a][j]
        first == Decref(Incref([m EXCEPT !.items[a][i] = y], y), x)
    IN  Decref(Incref([first EXCEPT !.items[a][j] = x], x), y)

(* SWAP_ARRAY_ELEMENTS checks its operands and leaves them when they are     *)
(* wrong; otherwise it leaves the array on the stack.                       *)
SwapArrayElements ==
    /\ Has(3)
    /\ LET a == Peek(2)
           indices == <<Peek(1), Peek(0)>>
       IN  /\ IsArray(a)
           /\ IsInt(Peek(0)) /\ IsInt(Peek(1))
           /\ \E i, j \in DOMAIN mem.items[a] :
                 LET swapped == IF i = j THEN mem ELSE Swapped(mem, a, i, j)
                 IN  Finish(DecrefAll(swapped, indices), Append(Rest(3), a))
    /\ UNCHANGED globals

(* COMPARE_AND_SWAP checks types only, and never releases the array. *)
CompareAndSwap ==
    /\ Has(3)
    /\ LET a == Peek(2)
           indices == <<Peek(1), Peek(0)>>
       IN  /\ IsArray(a)
           /\ IsInt(Peek(0)) /\ IsInt(Peek(1))
           /\ \/ \E i, j \in DOMAIN mem.items[a] :
                 \E m \in {mem, Swapped(mem, a, i, j)} :
                    Finish(DecrefAll(m, indices), Rest(3))
              \/ WildAccess
    /\ UNCHANGED globals

-----------------------------------------------------------------------------
(* Functions.                                                              *)

(* MAKE_FUNCTION: the code object is released, and the function keeps only   *)
(* the count of its place on the stack.                                     *)
MakeFunction ==
    /\ CodeOnTop
    /\ ~ mem.undefined
    /\ HasFree(mem, "function")
    /\ LET f == NextObject(mem, "function")
           made == Alloc(Decref(mem, Peek(0)), "function")
       IN  /\ mem' = Decref(Incref(made, f), f)
           /\ Bounded(mem')
           /\ frames' = [frames EXCEPT ![Len(frames)].stack = Append(Rest(1), f)]
    /\ UNCHANGED <<globals, argsSwept>>

(* The operands of CALL_FUNCTION: the callee, a null, the arguments. *)
Args(n) == SubSeq(Stack, Len(Stack) - n + 1, Len(Stack))
Callee(n) == Peek(n + 1)

(* Mutant of Call: the arguments are not counted for the locals. *)
CallUncounted(n) ==
    /\ Has(n + 2)
    /\ Kind[Callee(n)] = "function"
    /\ Len(frames) < MaxDepth
    /\ Ready
    /\ mem' = DecrefAll(mem, <<Peek(n), Callee(n)>>)
    /\ frames' = Append([frames EXCEPT ![Len(frames)] =
                             [@ EXCEPT !.stack = Rest(n + 2), !.args = Args(n)]],
                        NewFrame([i \in Locals |-> IF i <= n THEN Args(n)[i] ELSE NoneObject]))
    /\ UNCHANGED <<globals, argsSwept>>

(* CALL_FUNCTION of a user function, up to the first instruction of the      *)
(* callee: the arguments go to a C array, the callee is released, and        *)
(* _vm_execute_with_args counts each argument for a local.                  *)
Call(n) ==
    /\ Has(n + 2)
    /\ Kind[Callee(n)] = "function"
    /\ Len(frames) < MaxDepth
    /\ Ready
    /\ LET args == Args(n)
           locals == [i \in Locals |-> IF i <= n THEN args[i] ELSE NoneObject]
           released == DecrefAll(mem, <<Peek(n), Callee(n)>>)
       IN  /\ mem' = IncrefAll(released, locals)
           /\ Bounded(mem')
           /\ frames' = Append([frames EXCEPT ![Len(frames)] =
                                    [@ EXCEPT !.stack = Rest(n + 2), !.args = args]],
                               NewFrame(locals))
    /\ UNCHANGED <<globals, argsSwept>>

(* CALL_FUNCTION of a built-in, which returns none or a new object, counted  *)
(* once more for the caller, or of something that is not a function.        *)
CallNative(n) ==
    /\ Has(n + 2)
    /\ Kind[Callee(n)] # "function"
    /\ LET operands == <<Peek(n), Callee(n)>> \o Args(n)
       IN  \/ FinishPush(DecrefAll(mem, operands), Rest(n + 2), NoneObject)
           \/ \E kind \in {"int", "float"} \cap DOMAIN Pool :
                 /\ Kind[Callee(n)] = "native"
                 /\ HasFree(mem, kind)
                 /\ LET o == NextObject(mem, kind)
                        returned == Incref(Alloc(mem, kind), o)
                    IN  FinishPush(DecrefAll(returned, operands), Rest(n + 2), o)
    /\ UNCHANGED globals

(* Mutant of FinishReturn: the call keeps its arguments. *)
FinishReturnKeepsArgs(m, stack, result) ==
    /\ Len(frames) > 1
    /\ Ready
    /\ mem' = Incref(DecrefAll(m, stack \o Frame.locals), result)
    /\ Bounded(mem')
    /\ frames' = [SubSeq(frames, 1, Len(frames) - 1) EXCEPT
                      ![Len(frames) - 1].stack = Append(@, result)]
    /\ UNCHANGED <<globals, argsSwept>>

(* The end of an activation: frame_destroy releases its stack and locals,    *)
(* CALL_FUNCTION the arguments in its C array, and the result goes to the    *)
(* stack of the caller.                                                      *)
FinishReturn(m, stack, result) ==
    /\ Len(frames) > 1
    /\ Ready
    /\ LET caller == frames[Len(frames) - 1]
           destroyed == DecrefAll(m, stack \o Frame.locals)
           released == DecrefAll(destroyed, caller.args)
       IN  /\ mem' = Incref(released, result)
           /\ Bounded(mem')
           /\ frames' = Append(SubSeq(frames, 1, Len(frames) - 2),
                               [caller EXCEPT !.stack = Append(@, result), !.args = <<>>])
    /\ UNCHANGED <<globals, argsSwept>>

(* RETURN_VALUE counts its operand for popping it and for pushing it again,  *)
(* and frame_execute for popping it once more.                              *)
ReturnValue ==
    /\ Has(1)
    /\ FinishReturn(Incref(Incref(Incref(mem, Peek(0)), Peek(0)), Peek(0)), Rest(1), Peek(0))

(* The code of the function ends without RETURN_VALUE. *)
ReturnNone == FinishReturn(mem, Stack, NoneObject)

-----------------------------------------------------------------------------
(* Collections.                                                            *)

(* vm_collect_roots: the globals, the singletons, then the locals and the    *)
(* operands of the frames, as many as the buffer holds.                     *)
AllRoots ==
    globals \o <<NoneObject, NoneObject, NoneObject>>
            \o FlattenSeq([k \in DOMAIN frames |-> frames[k].locals \o frames[k].stack])

(* Mutant of Roots: the last entry of the buffer is never used. *)
RootsShort == SubSeq(AllRoots, 1, IF Len(AllRoots) < RootsCapacity THEN Len(AllRoots)
                                                                   ELSE RootsCapacity - 1)

Roots == SubSeq(AllRoots, 1, IF Len(AllRoots) < RootsCapacity THEN Len(AllRoots)
                                                              ELSE RootsCapacity)

PendingArgs == UNION {Range(frames[k].args) : k \in DOMAIN frames}

(* vm_collect_garbage, after any instruction. *)
CollectGarbage ==
    LET m == Sweep(mem, Range(Roots) \cup Immortal)
    IN  /\ ~ mem.undefined
        /\ mem' = m
        /\ argsSwept' = (argsSwept \/ \E o \in PendingArgs \ Immortal : m.rc[o] = 0)
        /\ UNCHANGED <<frames, globals>>

Next ==
    \/ \E o \in Immortal : LoadImmortal(o)
    \/ \E kind \in {"int", "float", "code"} \cap DOMAIN Pool : LoadConst(kind)
    \/ \E i \in Locals : LoadFast(i) \/ StoreFast(i)
    \/ \E g \in Globals : LoadGlobal(g) \/ StoreGlobal(g)
    \/ PopTop \/ BinaryOp \/ UnaryOp
    \/ BuildEmptyArray \/ \E n \in 1 .. MaxItems : BuildArray(n)
    \/ LoadSubscr \/ StoreSubscr \/ DelSubscr \/ SwapArrayElements \/ CompareAndSwap
    \/ MakeFunction
    \/ \E n \in 0 .. MaxArgs : Call(n) \/ CallNative(n)
    \/ ReturnValue \/ ReturnNone
    \/ CollectGarbage

Spec == Init /\ [][Next]_vars

-----------------------------------------------------------------------------
FrameOK(f) ==
    /\ f.locals \in Seq(Object)
    /\ f.stack \in Seq(Object)
    /\ f.args \in Seq(Object)
    /\ Len(f.args) <= MaxArgs

TypeOK ==
    /\ MemoryOK(mem)
    /\ frames \in Seq([locals : Seq(Object), stack : Seq(Object), args : Seq(Object)])
    /\ Len(frames) \in 1 .. MaxDepth
    /\ \A k \in DOMAIN frames : FrameOK(frames[k])
    /\ frames[Len(frames)].args = <<>>
    /\ globals \in [Globals -> Object]
    /\ argsSwept \in BOOLEAN

(* How many references the machine has to o. *)
FrameObjects(f) == f.locals \o f.stack \o f.args

Refs(o) ==
    Occurrences(globals, o) + Count([k \in DOMAIN frames |-> FrameObjects(frames[k])], o)
    + ItemRefs(mem, o)

Settled == ~ mem.undefined /\ ~ argsSwept

(* No instruction takes the count of an object below the number of          *)
(* references to it from globals, locals, stacks, pending calls and arrays, *)
(* in any order of instructions and collections: counting never frees what  *)
(* is still referred to.                                                    *)
CountsCover == Settled => \A o \in Mortal : mem.rc[o] >= Refs(o)

(* Every count but a function's is too high: at least one more               *)
(* than the references, so that such an object is never freed by counting    *)
(* and waits for a collection however early it became garbage.              *)
CountsLeak ==
    Settled => \A o \in InUse(mem) : Kind[o] # "function" => mem.rc[o] > Refs(o)

(* No object, in use or free, points to a buffer that has been freed: what   *)
(* object_decref leaves behind when it frees an array, a float or a native  *)
(* function (object.c:157) would be freed again by the next occupant of the *)
(* slot or by a collection (heap.c:29, gc.c:271).                           *)
NoStaleBuffer == Settled => \A o \in Mortal : mem.buffer[o] # "freed"

(* What the machine can reach, arguments of pending calls apart, is in use. *)
ReachableInUse ==
    ~ mem.undefined =>
        ReachableFrom(Range(AllRoots), Edges(mem)) \subseteq InUse(mem) \cup Immortal

(* That is so in every state until a collection sweeps an argument of a      *)
(* pending call: the counts keep alive what is referred to between           *)
(* collections, and a collection frees only what nothing refers to.         *)
ReachableUntilSwept == ~ argsSwept => ReachableInUse
=============================================================================
