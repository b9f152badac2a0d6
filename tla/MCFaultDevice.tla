--------------------------- MODULE MCFaultDevice ---------------------------
(* Instance of FaultDevice for TLC.                                        *)
EXTENDS FaultDevice
=============================================================================
