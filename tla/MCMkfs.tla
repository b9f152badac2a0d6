------------------------------- MODULE MCMkfs -------------------------------
(* Instance of the format behind its guards for TLC.                       *)
EXTENDS Safety
=============================================================================
