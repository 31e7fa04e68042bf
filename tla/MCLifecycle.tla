----------------------------- MODULE MCLifecycle -----------------------------
(* Constants for the run of Lifecycle. *)
EXTENDS Lifecycle

CONSTANTS q1, q2

MCRequests == {q1, q2}
=============================================================================
