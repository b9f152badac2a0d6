---------------------------- MODULE MCRepairTool ----------------------------
(* Instance of RepairTool for TLC.                                         *)
EXTENDS RepairTool

MCNoTargets == {Null, Beyond}
=============================================================================
