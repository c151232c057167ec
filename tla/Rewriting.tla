------------------------------- MODULE Rewriting -------------------------------
(***************************************************************************)
(* What the passes of the optimiser (runtime/jit) share: an instruction is *)
(* deleted by making it a NOP; the NOPs are squeezed out afterwards, and   *)
(* the offsets of the jumps recalculated (recalculate_jumps of             *)
(* jit/const_folding.c).  Positions are counted from 1.                    *)
(***************************************************************************)
EXTENDS Emit, FiniteSets

ForwardJumps == {"JUMP_FORWARD", "POP_JUMP_IF_FALSE"}
Jumps == ForwardJumps \cup {"JUMP_BACKWARD"}

(* Where the machine goes from the jump at i: it has already gone on when   *)
(* it adds or subtracts the offset.                                         *)
Destination(code, i) ==
    IF code[i].op = "JUMP_BACKWARD" THEN i + 1 - code[i].arg ELSE i + 1 + code[i].arg

(* get_jump_target forgets that for JUMP_BACKWARD: one place too early.     *)
JumpTarget(code, i) ==
    IF code[i].op = "JUMP_BACKWARD" THEN i - code[i].arg ELSE i + 1 + code[i].arg

-----------------------------------------------------------------------------
(* The same sequence.  TLC computes the items of a function at every use,   *)
(* those of a concatenation once.                                           *)
Whole(s) == <<>> \o s

Nop == Plain("NOP")
Delete(code, places) == Whole([i \in 1 .. Len(code) |-> IF i \in places THEN Nop ELSE code[i]])

Kept(code) == {i \in 1 .. Len(code) : code[i].op # "NOP"}

(* The first instruction that is kept, at i or after it.                    *)
SkipNops(code, i) == Min({j \in Kept(code) : j >= i} \cup {Len(code) + 1})

(* Where the instruction at i will be, or the next one that is kept.        *)
Rank(code, i) == Cardinality({j \in Kept(code) : j < i}) + 1

(* Where the r-th instruction that is kept is.                              *)
Place(code, r) == CHOOSE i \in Kept(code) : i >= r /\ Rank(code, i) = r
Places(code) == 1 .. Cardinality(Kept(code))

Compact(code) == Whole([r \in Places(code) |-> code[Place(code, r)]])

-----------------------------------------------------------------------------
(* Where the target of the jump at i will be: for a target that is deleted, *)
(* the next instruction that is kept, or the last one for a backward jump.  *)
NewTarget(code, i) ==
    LET t == JumpTarget(code, i)
    IN  Rank(code, t) - (IF code[i].op = "JUMP_BACKWARD" /\ t \notin Kept(code) THEN 1 ELSE 0)

(* A jump that leads out of the code, to nothing that is kept or to the     *)
(* wrong side stays as it is.                                               *)
CanRetarget(code, i) ==
    LET t == JumpTarget(code, i)
    IN  /\ t \in 1 .. Len(code)
        /\ IF code[i].op = "JUMP_BACKWARD"
           THEN /\ \E j \in Kept(code) : j <= t /\ (j > 1 \/ j = t)
                /\ NewTarget(code, i) <= Rank(code, i)
           ELSE /\ \E j \in Kept(code) : j >= t
                /\ NewTarget(code, i) > Rank(code, i)

(* The offset of a jump from one place to another.                          *)
Offset(op, from, to) == IF op = "JUMP_BACKWARD" THEN from - to ELSE to - from - 1

Retargeted(code, i) ==
    IF code[i].op \in Jumps /\ CanRetarget(code, i)
    THEN [code[i] EXCEPT !.arg = Offset(code[i].op, Rank(code, i), NewTarget(code, i))]
    ELSE code[i]

(* Mutant of Recalculate: the jumps keep their offsets.                     *)
RecalculateNothing(code) == Compact(code)

Recalculate(code) == Whole([r \in Places(code) |-> Retargeted(code, Place(code, r))])
=============================================================================
