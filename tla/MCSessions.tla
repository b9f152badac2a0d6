------------------------------ MODULE MCSessions ------------------------------
(* Instance of Sessions for TLC.                                           *)
EXTENDS Sessions

MCNoTargets == {Null, Beyond}
=============================================================================
