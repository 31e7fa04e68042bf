------------------------ MODULE MCNotificationService ------------------------
(* Constants for the run of NotificationService. *)
EXTENDS NotificationService, TLC

CONSTANTS r1, r2, c1

MCReplicas == {r1, r2}
Symmetry == Permutations(MCReplicas)
=============================================================================
