------------------------------ MODULE Transfer ------------------------------
(***************************************************************************)
(* What the transfer of a resource promises its two applications, whatever *)
(* the link does to the packets in between: the receiver's application is  *)
(* handed the whole payload or nothing, and the sender's application is    *)
(* told once how it went, "complete" only if the receiver's has the        *)
(* payload.                                                                *)
(***************************************************************************)
VARIABLES
    outcome,   \* what the sender's application has been told
    holds      \* the receiver's application has the payload

Init == outcome = "open" /\ holds = FALSE

\* The receiver's application is handed the payload.
Deliver == holds' = TRUE /\ UNCHANGED outcome

\* The sender's application is told that the receiver's has it.
Confirm == outcome = "open" /\ holds /\ outcome' = "complete" /\ UNCHANGED holds

\* The sender's application is told that the transfer failed, which it may
\* be although the receiver's has the payload: the last word can get lost.
GiveUp == outcome = "open" /\ outcome' = "failed" /\ UNCHANGED holds

Next == Deliver \/ Confirm \/ GiveUp

Spec == Init /\ [][Next]_<<outcome, holds>>

=============================================================================
