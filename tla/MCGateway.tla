------------------------------ MODULE MCGateway ------------------------------
(* Constants for the run of Gateway: an address in two spellings, and a      *)
(* spelling that is no address.                                              *)
EXTENDS Gateway, TLC

CONSTANTS r1, r2, r3, c1, anna, Anna, none, short, p1, p2

MCRequests == {r1, r2, r3}
MCSpellings == {anna, Anna, none}
MCNormal == Anna :> anna @@ anna :> anna @@ none :> none
MCInvalid == {none}
MCPasswords == {short, p1, p2}
MCWeak == {short}
Symmetry == Permutations(MCRequests) \cup Permutations({p1, p2})
=============================================================================
