-------------------------------- MODULE Markers --------------------------------
(***************************************************************************)
(* LOOP_START and LOOP_END in a sequence of instructions, and how the      *)
(* machine and the optimiser find the end or the start of a loop: they     *)
(* count markers, one up and one down, from a place to where they balance. *)
(***************************************************************************)
EXTENDS Emit

(* How many more instructions of op than of other there are in from .. to.  *)
Excess(code, op, other, from, to) ==
    LET range == SubSeq(code, from, to)
    IN  Len(SelectSeq(range, LAMBDA c : c.op = op))
          - Len(SelectSeq(range, LAMBDA c : c.op = other))

(* Where loops that are open before from end; the first is the innermost.   *)
LoopEnds(code, from) ==
    {i \in from .. Len(code) : Excess(code, "LOOP_END", "LOOP_START", from, i) = 1}

(* Where loops that are open after to start; the last is the innermost.     *)
LoopStarts(code, to) ==
    {i \in 1 .. to : to <= Len(code) /\ Excess(code, "LOOP_START", "LOOP_END", i, to) = 1}

(* Both searches begin at the instruction after the one at ip; without a    *)
(* loop around it the machine goes on there.                                *)
BreakTarget(code, ip) ==
    IF LoopEnds(code, ip + 1) = {} THEN ip + 1 ELSE Min(LoopEnds(code, ip + 1))

ContinueTarget(code, ip) ==
    IF LoopStarts(code, ip + 1) = {} THEN ip + 1 ELSE Max(LoopStarts(code, ip + 1)) + 1
=============================================================================
