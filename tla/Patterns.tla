------------------------------- MODULE Patterns -------------------------------
(***************************************************************************)
(* jit/cmpswap.c: two patterns of instructions, written by programs that   *)
(* sort, are replaced by one instruction each.                             *)
(***************************************************************************)
EXTENDS Rewriting

CONSTANT Globals  \* the names of global variables

LoadsLocal(c) == c.op = "LOAD" /\ c.arg \notin Globals
StoresLocal(c) == c.op = "STORE" /\ c.arg \notin Globals

-----------------------------------------------------------------------------
(* t = a[i]; a[i] = a[j]; a[j] = t *)
Element(a, i) == <<Instr("LOAD", a), Instr("LOAD", i)>>
LoadElement(a, i) == Element(a, i) \o <<Plain("LOAD_SUBSCR")>>
StoreElement(a, i) == Element(a, i) \o <<Plain("STORE_SUBSCR")>>

Swap(a, i, j, t) ==
    LoadElement(a, i) \o <<Instr("STORE", t)>>
        \o LoadElement(a, j) \o StoreElement(a, i)
        \o <<Instr("LOAD", t)>> \o StoreElement(a, j)

SwapLength == 14

IsSwap(code, p) ==
    /\ p + SwapLength - 1 <= Len(code)
    /\ \A k \in {p, p + 1, p + 5} : LoadsLocal(code[k])
    /\ StoresLocal(code[p + 3])
    /\ LET swap == Swap(code[p].arg, code[p + 1].arg, code[p + 5].arg, code[p + 3].arg)
       IN  /\ \A k \in 1 .. SwapLength : code[p + k - 1].op = swap[k].op
           /\ \A k \in 1 .. SwapLength : code[p + k - 1].arg = swap[k].arg

(* if (a[i] > a[i + c]) { t = a[i + c]; a[i + c] = a[i]; a[i + c] = t }, with *)
(* any locals and constants in the places of a, i, c and t.  The code asks  *)
(* for 28 instructions and looks at 30 (cmpswap.c:184): of a pattern in the *)
(* last 28 or 29 it reads the end from behind the code, where anything may  *)
(* be.  Here all 30 are in the code.                                        *)
NextOps == <<"LOAD", "LOAD", "LOAD_CONST", "+">>
BubbleOps ==
    <<"LOAD", "LOAD", "LOAD_SUBSCR">> \o NextOps \o <<"LOAD_SUBSCR", ">", "POP_JUMP_IF_FALSE">>
        \o NextOps \o <<"LOAD_SUBSCR", "STORE">>
        \o <<"LOAD", "LOAD", "LOAD_SUBSCR">> \o NextOps \o <<"STORE_SUBSCR">>
        \o <<"LOAD">> \o NextOps \o <<"STORE_SUBSCR">>

IsBubble(code, p) ==
    /\ p + Len(BubbleOps) - 1 <= Len(code)
    /\ \A k \in DOMAIN BubbleOps :
         LET c == code[p + k - 1]
         IN  /\ BubbleOps[k] = IF c.op = "BINARY_OP" THEN c.arg ELSE c.op
             /\ c.op \in {"LOAD", "STORE"} => c.arg \notin Globals

(* What replaces them.  The second index of the comparison is the constant, *)
(* not the sum.                                                             *)
SwapCode(code, p) ==
    Element(code[p].arg, code[p + 1].arg)
        \o <<Instr("LOAD", code[p + 5].arg), Plain("SWAP_ARRAY_ELEMENTS")>>
BubbleCode(code, p) ==
    Element(code[p + 3].arg, code[p + 4].arg) \o <<code[p + 5], Plain("COMPARE_AND_SWAP")>>

-----------------------------------------------------------------------------
(* The search goes on behind a pattern it has replaced.                     *)
Overwrite(s, p, length, new) ==
    [next |-> p + length,
     code |-> [i \in 1 .. Len(s.code) |->
                  IF i \notin p .. p + length - 1 THEN s.code[i]
                  ELSE IF i < p + Len(new) THEN new[i - p + 1] ELSE Nop]]

ReplacePattern(s, p) ==
    CASE p < s.next -> s
      [] p >= s.next /\ IsSwap(s.code, p) -> Overwrite(s, p, SwapLength, SwapCode(s.code, p))
      [] p >= s.next /\ IsBubble(s.code, p) ->
            Overwrite(s, p, Len(BubbleOps), BubbleCode(s.code, p))
      [] OTHER -> s

Replaced(code) == FoldLeftDomain(ReplacePattern, [code |-> code, next |-> 1], code).code

(* cmpswap.c has a recalculate_jumps of its own.  It deletes a jump that    *)
(* leads out of the code or to the wrong side, but leaves room for it: the  *)
(* places at the end of the new code are never written.                     *)
Unwritten == Plain("UNWRITTEN")

MustDrop(code, dropped, i) ==
    LET t == JumpTarget(code, i)
        place == Rank(code, i) - Cardinality(dropped)
    IN  /\ code[i].op \in Jumps
        /\ \/ t \notin 1 .. Len(code)
           \/ IF code[i].op = "JUMP_BACKWARD" THEN NewTarget(code, i) >= place
              ELSE NewTarget(code, i) <= place

RecalculateSwapped(code) ==
    LET Drop(dropped, i) == IF MustDrop(code, dropped, i) THEN dropped \cup {i} ELSE dropped
        all == FoldLeftDomain(Drop, {}, code)
        Index(i) == Rank(code, i) - Cardinality({j \in all : j < i})
        Moved(i) == IF code[i].op \in Jumps
                    THEN [code[i] EXCEPT !.arg = Offset(code[i].op, Index(i), NewTarget(code, i))]
                    ELSE code[i]
    IN  Compact(Delete([i \in 1 .. Len(code) |-> Moved(i)], all))
            \o [k \in 1 .. Cardinality(all) |-> Unwritten]

(* jit_optimize_cmpswap: code without a pattern is left alone.              *)
ReplacePatterns(code) ==
    IF \E p \in 1 .. Len(code) : IsSwap(code, p) \/ IsBubble(code, p)
    THEN RecalculateSwapped(Replaced(code))
    ELSE code
=============================================================================
