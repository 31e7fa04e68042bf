----------------------------- MODULE MCConsumer -----------------------------
(* Constants and mutants for the runs of Consumer. *)
EXTENDS Consumer, TLC

CONSTANTS r1, r2, good, bad

MCReplicas == {r1, r2}
MCMessages == {good, bad}
MCMalformed == {bad}
Symmetry == Permutations(MCReplicas)
=============================================================================
