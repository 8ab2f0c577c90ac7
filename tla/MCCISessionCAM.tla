---------------------------- MODULE MCCISessionCAM ----------------------------
(* CISessionCAM with small constants.  With one sender, whose jobs have one  *)
(* program, and with Say, the queue of four has room for every answer.       *)
EXTENDS CISessionCAM, TLC

CONSTANT task

OneSender == {task}
Requests  == {"CaSupport", "MMI", "Unknown"}
=============================================================================
