---------------------------- MODULE MCLinkRelay ----------------------------
(* Chains A - r1 - r2 - D.                                                  *)
EXTENDS LinkRelay, TLC

CONSTANTS r1, r2, m1, m2

Both(m, x, y) == {<<m, x, y>>, <<m, y, x>>}

\* All on one medium, where each is in reach of its neighbours only.
SharedHears == Both(m1, A, r1) \union Both(m1, r1, r2) \union Both(m1, r2, D)

SharedRoutes ==
    (A  :> {[next |-> r1, hops |-> 3, via |-> m1]}) @@
    (r1 :> {[next |-> r2, hops |-> 2, via |-> m1]}) @@
    (r2 :> {[next |-> D, hops |-> 1, via |-> m1]})

\* D is on both media, and r2 may have a path on either.
MixedRoutes ==
    [SharedRoutes EXCEPT ![r2] = @ \union {[next |-> D, hops |-> 1, via |-> m2]}]

MixedHears == SharedHears \union Both(m2, r2, D)

\* A's strong signal also reaches r2, but not the other way around.
OneWayHears == MixedHears \union {<<m1, A, r2>>}

\* The chain is in order.
MCOrder == A :> 0 @@ r1 :> 1 @@ r2 :> 2 @@ D :> 3

ASSUME OrderAssumption == LayeredBy(MCOrder)
=============================================================================
