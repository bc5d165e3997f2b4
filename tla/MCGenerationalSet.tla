------------------------- MODULE MCGenerationalSet -------------------------
(* A small instance of GenerationalSet: four values, odd, even and         *)
(* unbounded capacities.                                                   *)
EXTENDS GenerationalSet, TLC

Perms == Permutations(T)
=============================================================================
