------------------------------ MODULE MCEngine ------------------------------
(* Instances of Engine for TLC.                                            *)
EXTENDS EngineClaims

(* A one-byte error in smart_main_lba: 36864 (0x9000) becomes the offset   *)
(* of the Superblock (0x4000), zero, or an offset past the device's end.   *)
MCWildTargets == {At("superblock"), Null, Beyond}
MCNoTargets   == {Null, Beyond}

Opts(r, f)  == [readonly |-> r, flush |-> f]
MCRemounts  == {Opts(TRUE, FALSE), Opts(FALSE, TRUE)}
MCReadonly  == {Opts(TRUE, FALSE), Opts(FALSE, FALSE)}
=============================================================================
