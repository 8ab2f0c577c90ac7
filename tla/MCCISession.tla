----------------------------- MODULE MCCISession -----------------------------
(* CISession with small constants. *)
EXTENDS CISession, TLC

CONSTANTS task, web

OneSender  == {task}
TwoSenders == {task, web}
Requests   == {"CaSupport", "MMI", "ResMgr", "Unknown"}
CaOnly     == {"CaSupport"}
=============================================================================
