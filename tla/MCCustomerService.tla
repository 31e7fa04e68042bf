-------------------------- MODULE MCCustomerService --------------------------
(* Constants for the runs of CustomerService. *)
EXTENDS CustomerService, TLC

CONSTANTS r1, r2, l1, l2, i1, i2

MCReplicas == {r1, r2}
MCLeads == {l1, l2}
MCIds == {i1, i2}
Symmetry == Permutations(MCReplicas) \cup Permutations(MCLeads) \cup Permutations(MCIds)
=============================================================================
