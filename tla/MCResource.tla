----------------------------- MODULE MCResource -----------------------------
(***************************************************************************)
(* The instances of Resource that TLC checks: seven parts, two of them to  *)
(* a slice of the hashmap, and windows of two or three parts.              *)
(***************************************************************************)
EXTENDS Resource

Plain == [mh |-> [i \in Part |-> i], compressed |-> FALSE, wanted |-> TRUE]

\* The parts 1 and 2 have the same map hash.
Colliding == [Plain EXCEPT !.mh = [i \in Part |-> IF i = 2 THEN 1 ELSE i]]

MCOffers ==
    {Plain, Colliding, [Plain EXCEPT !.compressed = TRUE],
     [Plain EXCEPT !.wanted = FALSE]}

=============================================================================
