------------------------------- MODULE MCCILink -------------------------------
(* CILink with small constants. *)
EXTENDS CILink, TLC

CONSTANTS mon, task, web, none

OneSender  == {task}
TwoSenders == {task, web}
=============================================================================
