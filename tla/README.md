# A verification project for Rename

Rename is a small C-like language: a lexer, a parser, a compiler to bytecode, a
stack machine with reference counting and a mark & sweep collector, and a "JIT"
that rewrites the bytecode of hot functions.  This directory holds TLA+ models of
it, the TLC configurations that check them on small instances, and proofs of the
theorems that hold for every instance.  Paths below are relative to the
repository; line numbers are those of the commit that is modelled.

## 1. Inventory

The program is single-threaded and sequential.  What makes it hard is not
interleaving of threads but the interplay of four owners of the same objects: the
interpreter's stacks and variables, the arrays, the C arrays of pending calls, and
two collectors (counting and marking) that each decide alone that an object is free.
The second hard part is the bytecode: jump offsets that the compiler computes, and
that every optimisation pass moves and recomputes.

| component | source | state | operations | correct when |
|---|---|---|---|---|
| lexer | `src/lexer` | position, line, the tokens so far | next token, keywords, numbers, strings, comments | the token sequence is the maximal-munch one |
| parser | `src/parser` | the current token | one procedure for each construct | the tree is that of the grammar |
| AST | `src/AST` | the tree | constructors, destructors, printing | a tree is freed once |
| compiler | `src/compiler` | constants, names of the global table and of the current scope, the bytecode so far | one procedure for each node; concatenation, jump patching | running the bytecode does what the tree means; every jump lands on an instruction of its construct; the operand stack is balanced |
| heap | `src/runtime/vm/heap.c` | pools of slots in blocks, the cache of small integers, singletons | `heap_alloc_*`, `recycle_object`, iteration | a slot is handed out only when nobody refers to it |
| objects | `src/runtime/vm/object.c` | `ref_count`, elements of arrays, owned buffers | `object_incref`, `object_decref`, `object_array_*` | a count covers the references; release is complete and happens once |
| collector | `src/runtime/gc/gc.c` | the table of marked objects, the list of unmarked ones | `gc_collect` (mark, sweep), `gc_incref`, `gc_decref` | frees all unreachable objects and no reachable one; ends on every graph |
| virtual machine | `src/runtime/vm/vm.c` | frames (locals, operand stack, ip), globals, the list of active frames | 30 instructions, call and return, root collection | every instruction keeps counts and references in step |
| built-ins | `src/builtins` | none | `print`, `input`, `randint`, `sqrt` | return an object the caller may own |
| decimal numbers | `src/runtime/vm/float_bigint.c` | none (values) | create, add, sub, mul, div, mod, sqrt, compare | rounding to the stated precision; comparison is a total preorder |
| JIT | `src/runtime/jit` | cache of rewritten code | hot counter, cache lookup, constant folding, compare-and-swap patterns, dead code, jump recalculation | rewritten code does what the original did |
| runner | `tools/runner.c` | flags | the pipeline, then module code, then `main` | the order of the phases |

How they interact.  The runner compiles a file, executes the module's code (which
stores the functions in globals), then calls `main`.  Each call of a user function is
a recursive C call of `frame_execute` with a new frame on `vm->active_frames`; the
arguments wait in a malloc'ed array of `op_CALL_FUNCTION` until the callee returns.
Instructions allocate from the heap and count references through the macros of
`system.h`, which do nothing unless collection is enabled (`-g`).  Every 100000
instructions of one activation, `frame_execute` calls `vm_collect_garbage`: it copies
the roots to a buffer of 1024 entries and passes them to `gc_collect`, which calls
back into the heap to iterate over the slots.  A tenth call of a function makes the
VM ask the JIT for a new body.

Hard behaviour, where it bites (the list with lines is in `PROJECT.json`, "hazards"):

- counting and marking disagree: an object with a positive count may be unreachable
  (cycles, counts that are too high), and an object may be reachable only through
  something that the roots do not include (`op_CALL_FUNCTION`'s arguments);
- slots are reused at once, so a reference that survives a premature release denotes
  another object, and releasing it hurts that one;
- limits: the mark table's growth, the roots buffer, the width of counters;
- long sequences: counts that grow by each call until they mean "immortal";
- jump offsets after insertion, deletion and replacement of instructions;
- rewriting that must not be noticed: what is a constant, what is an effect, what is used
  later, each decided by patterns over instructions and by rules of its own for values;
- stale data: the JIT's cache is keyed by the name of a function;
- numbers at their edges: carries, borrows, leading zeros, rounding, signs of zero, and
  loops of the long division that end only for the operands somebody thought of.

## 2. Plan

1. **`GC`** (done): the marker, its table and the sweep, one step at a time, with
   proofs; **`ManagedMemory`** (done), what a program may rely on, which `GC` refines.
2. **`Memory`, `Heap`** (done): counting, pools, recycling and the collector as
   operators, under a client that calls the C interface.
3. **`VM`** (done): every instruction as a user of that memory.
4. **`Program`, `Emit`, `Compiler`, `Execution`** (done): trees and their meaning, the
   compiler as operators from trees to instruction sequences, and the machine's control
   flow over them: it does what the tree says, jumps stay in range, operands are there.
5. **`Values`, `Rewriting`, `ConstantFolding`, `Patterns`, `DeadCode`, `Optimiser`, `JIT`** (done): the
   passes as operators from code to code, and hot code executed next to the original.
6. **`Decimals`, `Calculator`** (done): digit arithmetic against integers, with the long
   division as a state machine.

The proofs follow the modules: the collector and its refinement, the jumps of compiled
and of optimised code, the counts of `Heap` and `VM` for heaps of any size, the cache of
`JIT`, and the arithmetic of `Decimals` and `Calculator` for numbers of any length (done).

What is left: scopes and the tables of names (undeclared and shadowed names), and proofs
about the passes of the optimiser beyond the recalculation of jumps.

## 3. Modules

### `Reachability`
The least set of objects that contains the roots and is closed under the items of
arrays, defined without recursion so that it can be reasoned about.

### `GC` — `src/runtime/gc/gc.c`
State: `items` (array elements), `inUse` (ref_count not 0), `roots` (what
`vm_collect_roots` finds), and the collector's own: `phase`, `toMark` (the rest of
the roots loop), `calls` (the C stack of `gc_mark_object`, each activation with the
items its loop has left), `table` (slots, capacity, size: the real open-addressing
table, probing and growth included), `unmarked` (`SweepContext`).  Actions:
`StartCollect`, `MarkRoot`, `MarkItem`, `MarkReturn`, `StartSweep`, `SweepFree`,
`EndCollect` are the steps of `gc_collect`.  `Allocate`, `StoreItem`, `DropRoot` stand
for the interpreter between collections: it can reach any graph.

The order in which roots and items are visited is left open, so every order the code
could use is covered.  `malloc` and `calloc` succeed.  Slots of free objects take part
in the sweep, as in the code.  Elements are a set: marking does not depend on how
often an object occurs.

### `ManagedMemory` — what `gc.c` promises
The abstract specification of the collector: `Allocate`, `Write`, `Drop` are the program,
`Collect` is one step that gives back exactly what the program cannot reach.  There are no
marks, no table, no order.  `GC` implements it (`CollectsAtOnce`) under the mapping
`SeenItems`, `SeenInUse`: as soon as the sweep starts the unmarked objects count as
free, so `StartSweep` is the abstract `Collect`, and all other steps of a collection
stutter.  `exact` is mapped to `NeverGrown`: once the table has grown nothing is promised.

### `Memory`, `Recursion`, `Heap` — `object.c`, `heap.c`, the freeing half of `gc.c`
`Memory` holds no state: it defines the operations on a record of counts, element
sequences, owned buffers and slots in use.  What `object_decref` does to a graph of arrays
is stated without its recursion: `Released` is the least set of objects whose counts are
no higher than the references that the release and the arrays of that set take away, and
`Decref` frees it and takes those references from the counts of the others.  `Recursion`
has the function as it is written, element by element and array by array, and
`ReleasesLeast` says that both give the same memory: the run `heap` checks it in every
state, for cyclic and shared arrays and for two objects released one after the other.
`buffer` distinguishes a pointer that is null, live, or freed and still stored:
`object_decref` frees an array's buffer and does not reset the pointer, and
`recycle_object` and the sweep free what the pointer says.  Freeing or reading a freed
buffer sets `undefined`, after which no behaviour is claimed.

`Heap` is the C interface under a client that plays by its rules: it owns counted
references and calls allocation, `object_incref`, `object_decref`, the array
operations and collections (as `tests/runtime/test_gc.c` does).  Its history variable
`leaked` has the objects that were elements of an array when a collection freed it.  In
`Memory` the marker is represented by `ReachableFrom`, its result according to `GC`,
below the table's growth.

### `VM` — `src/runtime/vm/vm.c`, `src/builtins/builtins.c`
State: the memory, `frames` (locals, operand stack, and the arguments in the C array of
the call the frame is waiting for), `globals`, and a history variable `argsSwept`.  One
action for each instruction that moves references; conditional jumps are `PopTop`,
other jumps and NOPs change none of this state.  An instruction's counting follows the
code step by step (`FAST_PUSH_GC`, `FAST_PUSH_NO_GC`, `frame_stack_pop`, which does not
count).  Values are abstract: a jump may go either way, an operator returns any object
its operands' types admit, an index in range is any index in range, and an access
without a check may be out of range (`WildAccess`).  Code is abstract too: any
instruction whose operands are there can be next.  So the properties hold for every
program, whatever the compiler emits, with one exception: `LOAD_CONST` of a code object
is followed by `MAKE_FUNCTION`, which is the only place the compiler emits it
(`compiler.c:150-172`).  `CollectGarbage` may follow any instruction; the code runs it
after 100000.  Not in the model: the main activation's return and the runner's last
collection, and a call that finds NULL on the stack.  Counting is modelled as enabled;
without `-g` nothing is ever released.

### `Program`, `Emit`, `Compiler`, `Markers`, `Execution` — `src/compiler/compiler.c`, control flow of `vm.c`
`Program` is the abstract specification: expressions and statements as trees, and what a
sequence of statements does, as a sequence of events (calls, stores, tests of conditions,
the return).  It unfolds statements one at a time: `Expand` up to the next event,
`NextEvent` says which it is, `After` what remains, for either answer of a test.  A break
or continue drops what is left of the innermost loop.  Values are symbolic, the value of
an expression is its tree, so an event with a wrong operand is another event.

`Emit` has an operator for each `compiler_compile_...` function: the order in which it
concatenates the code of the parts, the loop markers, and the offsets, computed as there
from the lengths of the parts.  `Compiler` applies them to the trees.  An instruction
holds the constant or name itself instead of an index in a table; `LOAD` and `STORE` are
the `_FAST` and the `_GLOBAL` form.

`Execution` is `frame_execute` for one activation: `code`, `ip`, `stack`, and `rest`, what
the program still has to do.  One action for each instruction the compiler emits.
Those that do an event consume it from `rest` as well; a condition may come out either
way in both.  `BREAK_LOOP` and `CONTINUE_LOOP` search for markers as the code does
(`LoopEnds`, `LoopStarts` of `Markers`, first index included).  A call returns at once: the callee is
another activation.  References and counts are `VM`'s subject and absent here.

Where no document says what a statement means, `Program` follows the code: both operands
of `and` and `or` are evaluated, the value of an assignment before its array and index,
the size of an array also if there is an initializer, and the step of a `for` without a
condition before its first round (`compiler.c:545`).

### `Values` — the operators of `vm.c`
What `BINARY_OP`, `UNARY_OP` and the test of a condition make of two values, as the code
does for each pair of types: an integer divided by zero is zero, `and` and `or` know
integers and booleans only, booleans are never in order, `not` of a float says whether
it is not zero.  A float is a whole number here.

### `Rewriting`, `ConstantFolding`, `Patterns`, `DeadCode`, `Optimiser`, `JIT` — `src/runtime/jit`
`Rewriting` is what the passes share: instructions become NOPs, the NOPs are squeezed out
and the jumps recalculated (`Recalculate`), with the place-too-early that
`get_jump_target` gives for backward jumps and all the cases in which a jump stays as it
is.  `ConstantFolding` has pairs (`FoldPairs`), chains (`FoldChain`) and conditions
(`FoldConditions`), in rounds until nothing changes.  `Patterns` replaces the two sorting patterns and has
the other `recalculate_jumps`, which deletes jumps.  `DeadCode` deletes loops and loads and
counts operands as `validate_bytecode_stack` does.

`Optimiser` has the passes in their order; `JIT` takes what they make of code as a constant
operator (`Optimise`), to which the instances give `Optimised`.
`JIT` is the state machine: `objects` (counter and code of every function object), `cache`,
and a call at a time, executed by two machines, `cold` with the code the compiler made and
`hot` with what the object has by now.  `Start` counts, and compiles when the threshold is
reached (`Count`, `Compile`, `Cached`).  One action for each instruction, the same for both
machines; calls, stores to globals and returns are done by both together.  The code comes
from `Compiler`, so these are programs as the compiler compiles them.

### `Decimals`, `Calculator` — `src/runtime/vm/float_bigint.c`
`Decimals` has a number as the code has it, sign, digits and the place of the point, and one
operator for each function: trimming, rounding, alignment, the loops over digits with
their carries and borrows, from the right; `MulDigits` adds up the multiples as `imul` does, one
row for each digit, and carries afterwards.  At its end are the integers that digits stand for
(`Value`, `Units`), which only properties use.  `Calculator` is the machine around it: operands are literals
and the last result, so that what one operation leaves (a zero with a sign, a
fraction without its zeros, `nan`) goes into the next.  Long division is done step by step:
`Scale` is its first loop, `Subtract` and `NextDigit` the inner and the outer one, and
`Remainder` what `bigfloat_mod` does with the quotient.

## 4. Runs

| run | instance | question | result |
|---|---|---|---|
| `gc_collect` | 2 arrays, 2 integers, 1 immortal; a table of 4 slots | does the collector free exactly the garbage while its table keeps its size, and always end? | holds |
| `gc_growth` | the same | is it safe when the table grows, too? | **violated** |
| `heap` | 2 arrays, 1 float, 1 integer, 1 immortal | are counts exact, is what they leave behind cyclic, collections included, and does the recursion of `object_decref` free the least set that must go? | holds |
| `vm_calls` | 1 array, code, function, integer; 2 activations | do calls, returns and variables keep counts above references, and what is reachable in use until an argument of a pending call is swept? | holds |
| `vm_values` | 1 array, 2 floats, cached integer, built-in | do operators, arrays and built-ins keep counts above references, and is no buffer left to be freed twice? | holds |
| `vm_args` | 1 array, code, function; 2 arguments | is everything the machine can reach in use, whenever a collection runs during a call? | **violated** |
| `exec` | some 4600 functions | does compiled code do what the tree says, with its own operands, and always go on? | holds |
| `exec_elif` | functions with one or two `elif` | does it with `elif`? | **violated** |
| `jit` | some 600 programs | does optimised code do what the original does, with its own operands, and go on; is a function optimised once? | holds |
| `jit_chain` | expressions like `x + 1 + 2` | does it there? | **violated** |
| `decimals` | 9 literals, 3 decimals, 2 operations | are sums, products, quotients, remainders, texts and the order right, and does division end? | holds |
| `decimals_quotients` | divisors below 0.1 as well | are quotients right there? | **violated** |

Four more configurations show what the passing runs keep out.  Each violates the
property it names: `MCVM_roots.cfg` (`ReachableInUse`, a roots buffer of 5),
`MCExecution_continue.cfg` and `MCExecution_empty.cfg` (`SameEvents`), and
`MCJIT_swap.cfg` (`SameEffects`).

What they show.

*Collector.*  `SafeUntilGrowth`, `CollectsAllGarbage` and `CollectionEnds` hold, the
latter two on cyclic graphs as well, and `CollectsAtOnce`: until the table grows the
collector is the one of `ManagedMemory`.  `ReachableInUse`, without the premise that the
table has its first capacity, fails: the growth step rehashes each object modulo the
new capacity (`gc.c:58`), but lookups start from the address modulo 1024
(`gc.c:31`, `gc.c:89`), so objects marked before the growth are not found, and the sweep frees
reachable objects.  In the instance the fourth marked object triggers it; in the
program the 769th.

*Heap.*  A count is exact if and only if the object was never an element of an array that
a collection freed: `gc_sweep_phase` frees an array without releasing its elements
(`gc.c:275`), so those that stay in use keep counts that are too high until a later
collection frees them, and no other operation makes one inexact (`CountsExact`).  What
remains in use without an owner is on a cycle of arrays, behind one, or behind such an
element (`GarbageIsCyclic`).  The properties are stated up to `undefined`: a released
array, float or native function that is recycled or swept has its buffer freed twice.

*VM.*  Under `Settled` (no undefined behaviour yet, no collection during a call has
taken one of its arguments) the count of an object is never below the references to it
(`CountsCover`), in any order of instructions and collections.  It is even strictly above
for all but functions (`CountsLeak`): each instruction preserves the surplus that
`LOAD_CONST` or `BUILD_ARRAY` creates, so counting frees none of those objects, however
early they become garbage, and only the collector does.  That is what saves the machine from
the double free of the C interface: `object_decref` leaves a freed buffer in the slot for
the next occupant or the next sweep to free again (`object.c:157`), but no instruction
releases an object that has a buffer to zero (`NoStaleBuffer`).  A repair of the leak alone
would uncover it.  `vm_args`: a call's arguments
are not roots; when the callee overwrites its parameters, a collection frees the argument,
the slot is reused, and the return releases the new occupant.  Roots beyond the buffer
are silently dropped (`MCVM_roots.cfg`).

*Compiler and control flow.*  `SameEvents` relates every event of the machine to the
tree, operands and order included, over all outcomes of all conditions.
`MarkersMatchLoops` says that the two ways of leaving a loop, offsets and searches for
markers, agree on what loop the machine is in; `OperandsPresent` that no instruction meets
an empty stack, although the compiler leaves the values of expression statements behind;
`Progress` that the machine always reaches the next event.  Three constructs are kept out
of `exec` and have configurations of their own.  `exec_elif`: the jumps of an `elif` keep offset 0
(`compiler.c:343`, `:352`), so a false one runs its branch and a taken one goes on into
the next alternative.  `MCExecution_continue`: the search of `CONTINUE_LOOP` starts at the next
instruction (`vm.c:1205`), and if that is the `LOOP_START` of another loop, execution
enters it.  `MCExecution_empty`: `[]` compiles to `BUILD_ARRAY 0`, which takes the size of the
array from the stack (`vm.c:1317`), there the callee's NULL or nothing.

*JIT.*  `SameEffects` compares, at every call, store to a global and return, everything the
two machines show: operands, contents of arrays, and the arrays that were given, whatever
the calls in between answer.  `OperandsPresent` and `Progress` say that deletion leaves
neither an instruction without operands nor a loop without exit.  `OptimisedOnce`: one
entry for each hot name in the cache, whose code all objects of that name have, also when
a declaration is executed again.  Programs in
which the code does differ are kept out, by predicates in `MCJIT`: `HasChain` (`x + 1 + 2`, whose two
constants are folded although the first operator does not stand between them; this is
`jit_chain`: the result is 13 for x = 10 until the function is hot, and 3 from then on);
`OrdersBooleans` (`true < false` folds to none and is false in the machine); loops that only
exchange array elements (`Swaps`: `SWAP_ARRAY_ELEMENTS` is not on the list of effects, so the
loop is deleted as dead, `MCJIT_swap.cfg`).  Four more are not in the programs at all:
a float constant as a condition, a pattern at the end of the code, two different functions
of one name, and an unsorted array under the compare-and-swap pattern, whose
replacement compares with element 1 instead of the next one (`cmpswap.c:283`; `docs/jit.md:134`
has the sum).

*Decimal numbers.*  The properties compare digit strings with the integers they stand
for (`Units`).  Sums and differences are exact, a product is within half a unit of the last
decimal, a quotient within one, a remainder is the exact one with the sign of the dividend.
`OrderKept` describes comparison with its tolerance.  Its premise leaves out two things that are
otherwise: two negative numbers come out in reverse (`float_bigint.c:655`), and a negative
zero, which only unary minus and division make, is below zero.  `decimals_quotients`: a divisor
with a leading zero (any below 0.1: 0.05 is stored as `05`) makes the long
division stop subtracting too early, so that digits go beyond 9; in the program `0.02 / 0.03` is
printed as `0.4HHHH...`.  A dividend of zero is kept out of both: the loop that appends zeros
until the dividend is not below the divisor (`Scale`) never ends for it, and neither does the program for
`0.0 / 2.0`.  With these two left out (`NoLeadingZero`) `DivisionEnds` holds.

Bounds and why they are enough.  `gc_collect`: two arrays give cycles and self-loops;
four mortal objects against a threshold of three give growth; addresses collide before
and after the growth.  `heap`, `vm_*`: `MaxRC` bounds the sum of all counts, `MaxItems`
the elements of an array, `MaxStack` the operands and waiting arguments of all frames,
`MaxArgs` the arguments, `MaxDepth` the frames.  Two references to one object from two
places, plus the surplus, is what the counting errors need (each property's mutant shows
one such error found within the bounds).  In `heap` the sum is 4: a cycle of two arrays the
client still holds, or an array that contains itself and a shared element; section 5 has
heaps of any size.  `vm_calls` stops at states that are not `Settled`
(a CONSTRAINT): nothing is claimed there.  `RootsCapacity` is 8 there, exactly what the fullest
states have, so that the last entry of the buffer is used; it is 100 in the other `vm_*` runs,
more than there can be roots.  `exec*`: every pair of an outer
loop (`while`, `for` with and without condition) and an inner `if`, `while` or `for` whose
branches and body are empty, an event, `break`, `continue`, `return` or a guarded
break or continue, followed by nothing or by one of six statements, and pairs of
consecutive loops: the searches for markers are wrong, if at all, when a loop is skipped
or entered between two others, which two levels and two in a row show; loops of any length
are the subject of section 5.  Expressions have every operator at depth two over every
one at depth one.  `MaxStack` is 8: deeper operands are forgotten, so that loops which
leave values behind have finitely many states; no instruction of the instance reaches that
far, and forgetting can only violate `OperandsPresent`, never hide a violation.
`jit`: every ordered pair of thirteen statements (branches on calls, constants and variables,
stores, breaks, continues, inner loops that are dead, empty or not, arrays) in a `for` and
in a `while`; every expression with one operator, and with two where one operand is
itself an operation, over a variable and constants of three types; the patterns inside and
outside branches and loops.  Two calls make a function hot (`Threshold` 2, 10 in the code); a deletion
or a wrong jump shows in one.  Calls answer 0 or 1, and the loops run 0 or 2 rounds.
`decimals*`: 3 decimals instead of 25 and a tolerance of 0.01; the algorithms are the same in every
place, and the literals have all digits carry, borrow, round and cancel in some place; a second operation
works on what the first one left.  Operands have at most three digits there (`MaxDigits`);
section 5 has numbers of any length.
Loops without events (`for (;;) {}`) are left out: they have nothing to reach.  Deadlock
is not checked in `exec*`, where a function returns, in `decimals*`, where `MaxOps` is reached, nor in `heap` and `vm_*`, whose pools and bounds are finite: the instance can run out of slots, and nothing
follows undefined behaviour.

Fairness.  `gc_collect` assumes weak fairness of the collector's steps: `gc_collect` is
a C function on the interpreter's only thread, so while it can take a step nothing else
runs.  No fairness is assumed of the interpreter there.
`Execution` assumes weak fairness of the instructions between two events (`Quiet`):
`frame_execute` is a loop that goes on to the next instruction after every handler.
`JIT` assumes the same of each of its two machines (`Silent`), and `Calculator` of the loops of a division (`Looping`),
which are C loops that go on as long as their condition holds.
Instructions that do events need none, and for calls none would be justified, since a
called function need not return.  `Spec` without it is what is proved.

Mutants.  Definitions commented "Mutant of" are variants of a definition with a
plausible error; `PROJECT.json` says which property each one breaks.

## 5. Proofs (`GC_proofs`, `Memory_proofs`, `Heap_proofs`, `VM_proofs`, `Jumps_proofs`, `JIT_proofs`, `Decimals_proofs`, `Calculator_proofs`)

The collector (`GC_proofs`):

| theorem | statement |
|---|---|
| `Invariance` | `Spec => []IInv` |
| `TypeCorrect` | `Spec => [](NeverGrown => TypeOK)` |
| `Safety` | `Spec => []SafeUntilGrowth` |
| `Completeness` | `Spec => CollectsAllGarbage` |
| `SmallHeapSafety` | if the heap has at most `Threshold(TableSize)` mortal slots, `Spec => []ReachableInUse` |

They hold for every finite set of objects, every placement in memory and every table
size, from the assumptions in `GC`: objects are finitely many, immortals and arrays are
disjoint sets of them, NULL is no object, addresses are natural numbers, the table is not
empty.  Nothing is assumed about bounds: `MaxItems` is unconstrained.

The argument.  Safety is not inductive: it needs what the marker has done so far
(`MarkInv`: what is marked and not on the call stack has only marked items; an activation
has marked all items but those it has left; whatever left the roots loop is marked) and
that a lookup in the table tells the truth (`TableInv`: every stored object is found by
probing, and `size` counts the full slots, so that a table below its threshold has an
empty slot at which probing stops).  When the sweep starts, the marked objects are closed
under items and contain the roots, hence contain everything reachable (`SweepInv`); the
sweep frees unmarked ones only.  For completeness the converse is in the invariant: what is
stored is reachable, so what remains in use is.  All of this is stated under `NeverGrown`,
since after the growth `TableInv` is false; that growth is for ever is the lemma
`GrowthIsForEver`.  `ShapeInv` is what holds regardless.

The refinement (second half of `GC_proofs`): `Refinement` is `Spec => CollectsAtOnce`, from the same
assumptions.  Initial states map to initial states; each action has a lemma that says
which abstract step it is.  The step that matters is `StartSweep`: there the
invariants above (what is marked is what is reachable) turn the set of unmarked objects
into the complement of what the program knows.  `SweepFree` stutters because what it frees
counts as free already, and a growth of the table, which ends the promise, may be any step.

Counting (`Memory_proofs`, `Heap_proofs`), for finite sets of objects and pools of any size:

| theorem of `Heap_proofs` | statement |
|---|---|
| `Invariance` | `Spec => []Inv` |
| `TypeCorrect` | `Spec => []TypeOK` |
| `NothingFreedEarly` | `Spec => []CountsCover`: no count is below the references to its object |
| `CountsAreExact` | `Spec => []CountsExact`: a count is their number if and only if the object is not in `leaked` |
| `OnlyCyclesLeft` | `Spec => []GarbageIsCyclic`: counting leaves behind only what is on or behind a cycle, or behind an object in `leaked` |

The argument is one of book-keeping.  `Balance(m, o)` is what the count of `o` leaves when the
references to it from arrays in use are taken away, and `Memory_proofs` says of every
operation how it changes balances: `Incref` adds one to that of its object, `Decref` takes
one, whatever else it frees (what the arrays it frees held leaves the counts and the
references in arrays alike); a new object has balance one; an element written without
counting costs its object one; a sweep raises the balance of the elements of the arrays it
frees, since the references go and the counts stay (`SweepBalance`), and of no other object
that stays in use.  `Inv` says that the balance is what the client holds, and more exactly
for the objects in `leaked`.  `GarbageIsCyclic` follows: an object in use that is not in
`leaked` and that no client reaches has a count, hence an element of an array in use refers
to it, and that array is garbage too.
The assumptions are `MemoryAssumption` (objects are finitely many, none of the immortal ones is an array, a pool
holds mortal slots of its type) and `MaxItems` being a number.

The stack machine (`VM_proofs`), for any numbers of objects, globals, locals, operands,
arguments and activations:

| theorem | statement |
|---|---|
| `TypeCorrect` | `Spec => []TypeOK` |
| `NothingFreedEarly` | `Spec /\ []RootsFit => []CountsCover` |
| `NothingFreedByCounting` | `Spec /\ []RootsFit => []CountsLeak` |
| `NothingDangles` | `Spec /\ []RootsFit => []ReachableUntilSwept` |
| `NothingFreedTwice` | `Spec /\ []RootsFit => []NoStaleBuffer` |

`CountsCover` by itself is not inductive: a popped operand would be released to nothing.  What
holds from step to step is `Counted`: the balance of an object is at least what globals, locals,
operands and pending calls hold, for an object in use that is no function at least one
more, and no slot has a freed buffer (`Clean`), because of the surplus: a release that gets to
zero is that of a function, which owns no buffer.  `Shape` is the type invariant, with what it needs: everything the machine
refers to is a slot that a pool has given out.  An instruction
is several operations on the memory; between them the proofs keep a *ledger*, a
function that says how many references to each object the rest of the instruction still
has to account for.  Every operation has a lemma that relates memory and ledger before and after
(`Counts`, `Releases`, and those for sequences and new objects), each instruction a lemma
that chains them (`...Kept`), and at its end the ledger is what the new frames and globals
hold.  A collection keeps `Counted` because what it sweeps nothing refers to, and what it keeps,
it does not change.

`RootsFit` says that the roots fit the buffer of `vm_collect_garbage`, and `Counted` claims
nothing once `argsSwept` or `mem.undefined` holds.  None of the three can be dropped: the
configurations `MCVM_roots.cfg` and `MCVM_args.cfg` violate `ReachableInUse` where the first
and the second fail, and undefined behaviour may do anything.  `TypeCorrect` needs none of them.
Assumed are `MemoryAssumption` and `VMAssumption` (the bounds are numbers).

The jumps of loops (`Jumps_proofs`), for conditions, steps and bodies of any length, and
instructions from any set:

| theorem | statement |
|---|---|
| `WhileJumps` | the exit of a `while` leads right behind its `LOOP_END`, the way back right behind its `LOOP_START` |
| `ForJumps` | the first jump of a `for` with a condition leads to the condition, the exit right behind the `LOOP_END`, the way back to the `LOOP_START` |

So the exit skips `LOOP_END`, where the message of the compiler says "should jump to
LOOP_END" (`compiler.c:449`); the marker does nothing, and both are the same.  The proofs
name the pieces in the order in which they are concatenated and follow each position
through the concatenations behind it.

The optimiser's jumps (second half of `Jumps_proofs`), for code of any length and NOPs anywhere:

| theorem | statement |
|---|---|
| `DestinationsKept` | a jump that leads to some instruction leads to the same one after `Recalculate`, or, if that one is deleted, to the next one that is not |
| `OthersKept` | any other instruction is moved as it is, and the order of instructions stays |

Premises (`IsJump`): the jump is kept, its target is inside the code, and not everything from
there on (for a backward jump, up to there) is deleted; otherwise the code leaves the jump as it is.  The proof goes through the rank of an
instruction, the number of kept ones before it, as a function that grows by one at each
kept instruction and nowhere else.

The cache (`JIT_proofs`), for every program, threshold and optimiser:

| theorem | statement |
|---|---|
| `Invariance` | `Spec => []IInv` |
| `Once` | `Spec => []OptimisedOnce`: the name of a hot function has one entry in the cache, and the function has its code |

`IInv` adds what `OptimisedOnce` rests on: names in the cache are distinct, an entry was made from
a function of its name, and an object that is not hot yet has the code it was made with.
Nothing is said of what `Optimise` does.

Decimal numbers (`Decimals_proofs`, `Calculator_proofs`), for any literals, any precision and
tolerance, and strings of any length:

| theorem of `Calculator_proofs` | statement |
|---|---|
| `SumsAreExact` | `Spec => []SumsExact` |
| `ProductsAreRounded` | `Spec => []ProductsRounded` |
| `TextIsKept` | `Spec => []TextKept` |
| `OrderIsKept` | `Spec => []OrderKept` |
| `QuotientsAreClose` | if `ProperDivisors`, `Spec => []QuotientsClose` |
| `RemaindersAreExact` | if `ProperDivisors`, `Spec => []RemaindersExact` |
| `NumbersAreNormal` | if `ProperDivisors`, `Spec => []TypeOK` |

Assumed are `PrecisionAssumption` (both numbers are positive, 25 and 15 in the code),
`LiteralsAssumption` (a literal has a digit before the point at least) and `BoundsAssumption`.
`MaxOps` and `MaxDigits` bound what TLC explores and nothing that is proved.  `ProperDivisors` says that no
divisor begins with a zero.  It is a hypothesis of three theorems and no assumption of the module,
since the code does not ensure it: `decimals_quotients` violates `QuotientsClose` without it.
The instance `decimals` satisfies it.  A dividend of zero needs no hypothesis: its division
never ends, so nothing is said of its result.

`Decimals_proofs` says of every operator on digits what its result stands for.  `Value` is defined
by a recursive function over places (`Weight`), and so are carries, borrows and columns.
The provers have no induction over data, but they can instantiate a set: `Induction` is about a
set of numbers that contains zero and the successor of each element, and follows from the
existence of a least number in every set that is not empty; `Recursion` turns a step function into
a recursive one.  On these rest the laws of `Tens` and `Weight` (same digits,
sums, multiples, zeros, shifts, bounds), the law of carries (`CarryFacts`: what goes to the next
place leaves this one, so that digits and carries together weigh what the columns do), and
from it the operators: `AddDigitsFacts`, `SubDigitsFacts`, `MulDigitsFacts`,
`CompareFacts`, `IncrementFacts`, and then numbers: `TrimFacts`, `LimitFacts`, `TextFacts`,
`AddFacts`, `MulFacts`, `CompareFiniteFacts`.

`Inv` of `Calculator_proofs` is inductive for every instance: operands are in the form `Trim` gives
a number, the strings of a division are digits, and a result that is done is the function of
its operands that it should be.  `LongInv` is about the long division.  The strings stand for the operands, in
units of the same decimal (`ScaledInv`); the digits brought down so far are the quotient so far times the
divisor, and the rest, and what the last digit and the rest still amount to is below
ten times the divisor (`DigitsInv`).  The latter is why a digit never passes nine.  It is
kept since what is left when the divisor does not fit is below the divisor (`RestBelow`), and only there
`ProperDivisors` is used: a rest with fewer digits than a divisor that begins with a zero need
not be below it.  At the end the rest and the decimals that are rounded away give the error
of `QuotientsClose` (`QuotientError`).  `bigfloat_mod` multiplies the digits before the point:
these are the whole quotient (`WholeFits`), although the quotient was rounded, because zeros beyond the precision are
only added to a dividend below the divisor.

Only model-checked: `CollectionEnds`, `Progress` and `DivisionEnds` (liveness and ENABLED
are out of the prover's reach); `ReleasesLeast` (the recursion of `object_decref` over the
object graph); `SameEvents` and the other invariants of `Execution` (code and meaning are
recursive over trees), and `SameEffects`, `OperandsPresent` and `TypeOK` of `JIT` (the passes are
recursive over code): the prover does not reason about RECURSIVE operators, nor by
induction over trees.

## 6. Not modelled

- Lexer, parser, AST: pure functions without state between calls; text handling.
- Scopes, tables of names and constants, and the encoding of instructions: an undeclared
  name (which compiles to a NOP), more than 2^24 constants or instructions.  The branch of
  an array declaration without a size (`compiler.c:915`), since the parser demands one
  (`parser.c:656`).
- `object_array_set` with the element that is there already and no other reference to it
  (`object.c:112`): nothing in `src/` calls it, and the client of `Heap` keeps a reference.
- A compare-and-swap pattern that is cut off by the end of the code: the code asks for 28
  instructions and looks at 30 (`cmpswap.c:184`), so the last two would be read behind the end.
- Of the JIT: the table of constants, statistics and dumps; `remove_unreachable_code`,
  `loop_has_live_effect`, `has_side_effects`, `call_has_side_effects`, `is_call_result_used`
  and the folding of unary operators, which are not called or change nothing; locals beyond the 256th,
  whose index the dead-code pass cuts to eight bits; the C stack of calls inside a hot function.
- Of the decimal numbers: `bigfloat_sqrt` (no callers; the built-in computes in `double`),
  literals with an exponent, which read as `nan`, and what becomes of digits beyond 9.
- `heap_print_stats`, `object_to_string`, debug output: no effect on state.
- `gc_add_root`, `gc_remove_root`, `gc_clear_roots`, `gc_collect_simple`: no callers.
- Failure of `malloc`.
