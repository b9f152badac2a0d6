------------------------------- MODULE MCResize -------------------------------
(* Instances of Resize for TLC.                                            *)
EXTENDS Resize

MCBorn == MIN_DEVICE_SIZE

(* Smaller by more than the whole end region, and larger by just the 16 KiB*)
(* that the mirror takes: no two tails overlap.                            *)
MCApart == {MCBorn - 65536, MCBorn, MCBorn + ANCHOR_REGION_BYTES}

ASSUME ApartAssumption == TailsApart(MCApart) /\ Clear(MCApart)

(* Larger by the size of one sub-block.                                    *)
MCClose == {MCBorn + 1024}
===============================================================================
