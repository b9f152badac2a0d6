------------------------------ MODULE MCBlockIO ------------------------------
(* Instances of BlockIO for TLC.                                           *)
EXTENDS BlockIO
=============================================================================
