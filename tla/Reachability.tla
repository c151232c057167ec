---------------------------- MODULE Reachability ----------------------------
(***************************************************************************)
(* Reachability in a graph of objects, without recursion: what the marker  *)
(* of gc.c computes, and the yardstick for what may be freed.              *)
(***************************************************************************)

CONSTANT Object     \* the slots of the heap's object pools

(* S holds the objects of R and is closed under the edges E. *)
Closed(R, E, S) == R \subseteq S /\ \A o \in S : E[o] \subseteq S

(* The least such set. *)
ReachableFrom(R, E) ==
    LET closed == {S \in SUBSET Object : Closed(R, E, S)}
    IN  {o \in Object : \A S \in closed : o \in S}
=============================================================================
