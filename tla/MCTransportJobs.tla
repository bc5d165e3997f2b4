-------------------------- MODULE MCTransportJobs --------------------------
(* TransportJobs with a small bound on the depth of the call stack.        *)
EXTENDS TransportJobs
=============================================================================
