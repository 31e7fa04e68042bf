---------------------------- MODULE MCLeadService ----------------------------
(* Constants for the run of LeadService. *)
EXTENDS LeadService

CONSTANTS l1, l2, g1, g2

MCLeads == {l1, l2}
MCReaders == {g1, g2}
=============================================================================
