----------------------------- MODULE MCPipeline -----------------------------
(* Constants for the run of Pipeline. *)
EXTENDS Pipeline

CONSTANTS l1, i1, r1, r2, n1

MCConverters == {r1, r2}
=============================================================================
