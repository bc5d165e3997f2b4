------------------------------- MODULE MCLink -------------------------------
(***************************************************************************)
(* The instance of Link that TLC checks: a small request that needs an     *)
(* identity and has a large response, and a large one that does not.       *)
(***************************************************************************)
EXTENDS Link

CONSTANTS r1, r2

MCKind ==
    r1 :> [big |-> FALSE, bigResponse |-> TRUE, allow |-> "ALLOW_LIST"] @@
    r2 :> [big |-> TRUE, bigResponse |-> FALSE, allow |-> "ALLOW_ALL"]

=============================================================================
