-------------------------------- MODULE MCGC --------------------------------
(***************************************************************************)
(* An instance of GC for TLC: two arrays and two integers of mortal slots, *)
(* one immortal singleton, and a mark table scaled down to four slots      *)
(* (threshold three), so that marking a fourth object makes it grow.  The  *)
(* addresses collide modulo 4 and again modulo 8.                          *)
(***************************************************************************)
EXTENDS GC, TLC

CONSTANTS a1, a2, i1, i2, none

MCObject == {a1, a2, i1, i2, none}
MCArray == {a1, a2}
MCImmortal == {none}
MCAddr == (a1 :> 1) @@ (a2 :> 5) @@ (i1 :> 9) @@ (i2 :> 3) @@ (none :> 2)
=============================================================================
