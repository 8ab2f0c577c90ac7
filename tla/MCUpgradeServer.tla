-------------------------- MODULE MCUpgradeServer --------------------------
(* UpgradeServer with a few connections at once. *)
EXTENDS UpgradeServer, TLC
MCSymmetry == Permutations(Conns)
=============================================================================
