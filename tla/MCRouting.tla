------------------------------ MODULE MCRouting ------------------------------
(* Routing with one stream of two programs. *)
EXTENDS Routing, TLC
MCStreamOf == [p \in Programs |-> CHOOSE t \in Streams : TRUE]
MCSymmetry == Permutations(Programs)
=============================================================================
