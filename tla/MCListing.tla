------------------------------ MODULE MCListing ------------------------------
(* Constants for the run of Listing: three rows of a user and one of another. *)
EXTENDS Listing

CONSTANTS w1, w2, w3, w4, u1, u2

MCRows == {w1, w2, w3, w4}
MCUsers == {u1, u2}
MCOwner == (w4 :> u2) @@ [w \in {w1, w2, w3} |-> u1]
MCAsking == {-1, 0, 1, 2, 3}
Symmetry == Permutations({w1, w2, w3})
=============================================================================
