-------------------------------- MODULE MCHub --------------------------------
(* Constants for the run of Hub. *)
EXTENDS Hub

CONSTANTS c1, c2

MCClients == {c1, c2}
=============================================================================
