------------------------------- MODULE MCCISlot -------------------------------
(* CISlot with small constants. *)
EXTENDS CISlot, TLC
=============================================================================
