---------------------------- MODULE MCPathTable ----------------------------
(* A small instance of PathTable.  b3 and b4 are emitted in the same       *)
(* second; paths through i1 expire before the clock stops, those through   *)
(* i2 do not.                                                              *)
EXTENDS PathQueries, TLC

CONSTANTS b1, b2, b3, b4, i1, i2

EmittedDef == (b1 :> 1) @@ (b2 :> 2) @@ (b3 :> 3) @@ (b4 :> 3)
PathTimeDef == (i1 :> 1) @@ (i2 :> 3)
=============================================================================
