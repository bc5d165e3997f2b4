---------------------------- MODULE MCBlackhole ----------------------------
(* A small instance of Blackhole: i1 has two destinations, i2 has one.     *)
EXTENDS Blackhole, TLC

CONSTANTS i1, i2, d1, d2, d3

OwnerDef == (d1 :> i1) @@ (d2 :> i1) @@ (d3 :> i2)
=============================================================================
